------------------------------- MODULE ImuDma -------------------------------
(***************************************************************************)
(* The ICM45686 of the STM32 car: imu_task.c, app_icm45686.c and           *)
(* module_icm45686.c read the sensor by DMA and never wait for it.         *)
(*                                                                         *)
(*   task      takes a completed frame, then starts the next transfer      *)
(*   int1 ISR  the sensor has a new sample                                 *)
(*   DMA ISR   the transfer has ended, well or not                         *)
(*                                                                         *)
(* The sensor and the SPI engine are external: a sample may come at any    *)
(* time once the sensor is configured, a transfer reads the newest sample  *)
(* when its first data byte is clocked, and each call into the SPI driver  *)
(* may fail while faults remain.  Flags are 0 or 1 as in the code; both    *)
(* flags the task tests before a start are only turned in its favour by    *)
(* the ISRs, so the two tests, and their repetition inside the start       *)
(* function, are one step.                                                 *)
(***************************************************************************)
EXTENDS Naturals

CONSTANTS
  Faults,   (* bound: failing calls and transfers in one behaviour         *)
  Overrun   (* 1: an iteration may begin while a transfer is under way,    *)
            (* 0: every transfer ends before the next iteration            *)

ASSUME ImuAssumption == Faults \in Nat /\ Overrun \in {0, 1}

VARIABLES
  pc,             (* the next step of the IMU task                         *)
  rc,             (* result of take_async_data: 0, "empty" or "error"      *)
  data_ready,     (* module->data_ready                                    *)
  dma_busy,       (* module->dma_busy                                      *)
  dma_complete,   (* module->dma_complete                                  *)
  dma_status,     (* module->dma_status, 1 for the code's -1               *)
  active,         (* s_spi_dma_active                                      *)
  cs,             (* level of the chip select                              *)
  engine,         (* the SPI DMA: idle, moving bytes, or ended and its     *)
                  (* interrupt not yet served                              *)
  raw,            (* module->dma_raw: see Frames                           *)
  sample,         (* where the newest sample is: see Places                *)
  shown,          (* the status and data_ready of the last update_snapshot *)
  faults          (* failures left                                         *)

device == <<data_ready, sample, engine, raw, faults>>
flags == <<dma_busy, dma_complete, dma_status, active>>
vars == <<pc, rc, cs, shown, device, flags>>

Resting == {"init", "retry", "take", "format", "check", "snapshot", "sleep"}
Steps == Resting \cup {"config", "address", "arm", "unready", "start", "undo"}
Engine == {"idle", "moving", "done", "failed"}
(* old: nothing to take; torn: being written or broken off; whole: a new   *)
(* frame; converted: byte order already swapped in place.                  *)
Frames == {"old", "torn", "whole", "converted"}
(* unread: in the sensor only; latched: clocked into dma_raw, or being so; *)
(* taken: converted, or none yet; lost: in dma_raw when the transfer broke *)
(* off.  The sensor keeps a sample until the next one.                     *)
Places == {"unread", "latched", "taken", "lost"}
Results == {"ok", "empty", "error"}

Fault == faults > 0 /\ faults' = faults - 1
Fine == UNCHANGED faults

Init ==
  /\ pc = "init"
  /\ rc = "empty"
  /\ data_ready = 0 /\ dma_busy = 0 /\ dma_complete = 0 /\ dma_status = 0
  /\ active = 0 /\ cs = 1 /\ engine = "idle" /\ raw = "old"
  /\ sample = "taken"
  /\ shown = <<"empty", 0>>
  /\ faults = Faults

(***************************************************************************)
(* icm45686_app_init and its retries                                       *)
(***************************************************************************)
(* The module is wiped and the chip select released; from here on the      *)
(* int1 callback is registered.                                            *)
BeginInit ==
  /\ pc = "init"
  /\ pc' = "config"
  /\ data_ready' = 0 /\ dma_busy' = 0 /\ dma_complete' = 0 /\ dma_status' = 0
  /\ cs' = 1 /\ raw' = "old" /\ sample' = "taken"
  /\ UNCHANGED <<rc, shown, active, engine, faults>>

UpdateSnapshot(status) == shown' = <<status, data_ready'>>

(* A register access failed: the task tries again after a delay. *)
InitFails ==
  /\ pc = "config"
  /\ Fault
  /\ pc' = "retry"
  /\ UNCHANGED <<rc, cs, data_ready, sample, engine, raw, flags>>
  /\ UpdateSnapshot("error")

Retry ==
  /\ pc = "retry"
  /\ pc' = "init"
  /\ UNCHANGED <<rc, cs, shown, device, flags>>

(* The sensor runs; a sample it has announced by now is dropped. *)
InitSucceeds ==
  /\ pc = "config"
  /\ pc' = "take"
  /\ data_ready' = 0
  /\ sample' = "taken"
  /\ UNCHANGED <<rc, cs, engine, raw, faults, flags>>
  /\ UpdateSnapshot("ok")

(***************************************************************************)
(* icm45686_app_process                                                    *)
(***************************************************************************)
(* take_async_data up to the conversion. *)
Take ==
  /\ pc = "take"
  /\ rc' = IF dma_complete = 0 THEN "empty"
           ELSE IF dma_status = 0 THEN "ok" ELSE "error"
  /\ dma_complete' = 0
  /\ pc' = IF rc' = "ok" THEN "format" ELSE "check"
  /\ UNCHANGED <<cs, shown, device, dma_busy, dma_status, active>>

(* The frame is converted in place and handed to the attitude filter. *)
Format ==
  /\ pc = "format"
  /\ raw' = "converted"
  /\ sample' = IF sample = "latched" THEN "taken" ELSE sample
  /\ pc' = "check"
  /\ UNCHANGED <<rc, cs, shown, data_ready, engine, faults, flags>>

(* The chip select falls when a sample is announced and no transfer runs. *)
Check ==
  /\ pc = "check"
  /\ IF data_ready = 1 /\ dma_busy = 0
     THEN pc' = "address" /\ cs' = 0
     ELSE pc' = "snapshot" /\ UNCHANGED cs
  /\ UNCHANGED <<rc, shown, device, flags>>

(* The register address goes out by polling. *)
SendAddress ==
  /\ pc = "address"
  /\ \/ pc' = "arm" /\ Fine /\ UNCHANGED cs
     \/ pc' = "snapshot" /\ Fault /\ cs' = 1
  /\ UNCHANGED <<rc, shown, data_ready, sample, engine, raw, flags>>

(* Mutant: the completion of an earlier transfer is kept. *)
ArmKeepsCompletion ==
  /\ pc = "arm"
  /\ dma_status' = 0
  /\ dma_busy' = 1
  /\ pc' = "unready"
  /\ UNCHANGED <<dma_complete, rc, cs, shown, device, active>>

(* No transfer runs, so no interrupt reads these three in between. *)
Arm ==
  /\ pc = "arm"
  /\ dma_complete' = 0
  /\ dma_status' = 0
  /\ dma_busy' = 1
  /\ pc' = "unready"
  /\ UNCHANGED <<rc, cs, shown, device, active>>

ClearReady ==
  /\ pc = "unready"
  /\ data_ready' = 0
  /\ pc' = "start"
  /\ UNCHANGED <<rc, cs, shown, sample, engine, raw, faults, flags>>

(* spi_transfer_dma: the first data byte latches the newest sample. *)
StartTransfer ==
  /\ pc = "start"
  /\ \/ /\ engine = "idle" /\ active = 0 /\ Fine
        /\ active' = 1 /\ engine' = "moving" /\ raw' = "torn"
        /\ sample' = IF sample = "taken" THEN "taken" ELSE "latched"
        /\ pc' = "snapshot"
     \/ /\ Fault
        /\ pc' = "undo"
        /\ UNCHANGED <<active, engine, raw, sample>>
  /\ UNCHANGED <<rc, cs, shown, data_ready, dma_busy, dma_complete, dma_status>>

(* Mutant: the chip select stays low after a start that failed. *)
UndoStartSelected ==
  /\ pc = "undo"
  /\ dma_busy' = 0
  /\ data_ready' = 1
  /\ pc' = "snapshot"
  /\ UNCHANGED <<cs, rc, shown, sample, engine, raw, faults, dma_complete,
                 dma_status, active>>

(* Mutant: the sample of a start that failed is not announced again. *)
UndoStartUnready ==
  /\ pc = "undo"
  /\ dma_busy' = 0
  /\ cs' = 1
  /\ pc' = "snapshot"
  /\ UNCHANGED <<data_ready, rc, shown, sample, engine, raw, faults,
                 dma_complete, dma_status, active>>

(* The start failed: the sample is still to be read. *)
UndoStart ==
  /\ pc = "undo"
  /\ dma_busy' = 0
  /\ data_ready' = 1
  /\ cs' = 1
  /\ pc' = "snapshot"
  /\ UNCHANGED <<rc, shown, sample, engine, raw, faults, dma_complete,
                 dma_status, active>>

Publish ==
  /\ pc = "snapshot"
  /\ pc' = "sleep"
  /\ UNCHANGED <<rc, cs, device, flags>>
  /\ UpdateSnapshot(rc)

(* osDelayUntil: the next period. *)
Wake ==
  /\ pc = "sleep"
  /\ Overrun = 1 \/ engine = "idle"
  /\ pc' = "take"
  /\ UNCHANGED <<rc, cs, shown, device, flags>>

(***************************************************************************)
(* The sensor, the SPI engine and their interrupts                         *)
(***************************************************************************)
(* icm45686_module_int1_irq_handler on the pulse of a new sample.  Before  *)
(* the first init no callback is registered; in a retry the wipe is next.  *)
Int1Irq ==
  /\ pc # "init"
  /\ data_ready' = 1
  /\ sample' = "unread"
  /\ UNCHANGED <<pc, rc, cs, shown, engine, raw, faults, flags>>

TransferEnds ==
  /\ engine = "moving"
  /\ \/ engine' = "done" /\ raw' = "whole" /\ Fine
        /\ UNCHANGED sample
     \/ engine' = "failed" /\ UNCHANGED raw /\ Fault
        /\ sample' = IF sample = "latched" THEN "lost" ELSE sample
  /\ UNCHANGED <<pc, rc, cs, shown, data_ready, flags>>

(* Mutant: the error path leaves the module busy. *)
DmaIrqErrorBusy ==
  /\ engine \in {"done", "failed"}
  /\ engine' = "idle"
  /\ active' = 0
  /\ cs' = 1
  /\ dma_status' = IF engine = "done" THEN 0 ELSE 1
  /\ dma_busy' = IF engine = "done" THEN 0 ELSE dma_busy
  /\ dma_complete' = 1
  /\ UNCHANGED <<pc, rc, shown, data_ready, sample, raw, faults>>

(* Mutant: a whole frame is not reported to the task. *)
DmaIrqSilent ==
  /\ engine \in {"done", "failed"}
  /\ engine' = "idle"
  /\ active' = 0
  /\ cs' = 1
  /\ dma_status' = IF engine = "done" THEN 0 ELSE 1
  /\ dma_busy' = 0
  /\ dma_complete' = IF engine = "done" THEN dma_complete ELSE 1
  /\ UNCHANGED <<pc, rc, shown, data_ready, sample, raw, faults>>

(* The completion or the error callback of the HAL, and                    *)
(* module_dma_read_complete behind it.                                     *)
DmaIrq ==
  /\ engine \in {"done", "failed"}
  /\ engine' = "idle"
  /\ IF active = 1
     THEN /\ active' = 0
          /\ cs' = 1
          /\ dma_status' = IF engine = "done" THEN 0 ELSE 1
          /\ dma_busy' = 0
          /\ dma_complete' = 1
     ELSE UNCHANGED <<flags, cs>>
  /\ UNCHANGED <<pc, rc, shown, data_ready, sample, raw, faults>>

Process ==
  \/ Take \/ Format \/ Check \/ SendAddress \/ Arm \/ ClearReady
  \/ StartTransfer \/ UndoStart \/ Publish \/ Wake
Task == BeginInit \/ InitFails \/ Retry \/ InitSucceeds \/ Process
Next == Task \/ Int1Irq \/ TransferEnds \/ DmaIrq

Spec == Init /\ [][Next]_vars

(* The task is scheduled (it has the highest priority of the program), the *)
(* sensor samples on, a transfer ends and its interrupt is served.         *)
FairSpec ==
  /\ Spec
  /\ WF_vars(Task) /\ WF_vars(Int1Irq) /\ WF_vars(TransferEnds) /\ WF_vars(DmaIrq)

(***************************************************************************)
(* Properties                                                              *)
(***************************************************************************)
TypeOK ==
  /\ pc \in Steps
  /\ rc \in Results
  /\ data_ready \in {0, 1} /\ dma_busy \in {0, 1} /\ dma_complete \in {0, 1}
  /\ dma_status \in {0, 1} /\ active \in {0, 1} /\ cs \in {0, 1}
  /\ engine \in Engine
  /\ raw \in Frames
  /\ sample \in Places
  /\ shown \in Results \X {0, 1}
  /\ faults \in 0..Faults

(* The task converts dma_raw in place, without a lock: what it converts is *)
(* a whole new frame, never one the DMA is writing (module_icm45686.c:386  *)
(* against :359), one of a broken transfer, or the same one again.         *)
FramesAreWhole == pc = "format" => raw = "whole" /\ engine = "idle"

(* The chip select is low as long as bytes move and is released by every   *)
(* way out: the callback, and the two failing starts.  A select left low   *)
(* would make the next address byte part of the old burst.                 *)
SelectFramesTransfer ==
  /\ engine = "moving" => cs = 0
  /\ pc \in Resting /\ dma_busy = 0 => cs = 1

(* The newest sample, from its announcement until it is converted: while   *)
(* it is in no frame it is announced, or the transfer that will read it    *)
(* has not clocked its first byte, so that clearing data_ready at          *)
(* module_icm45686.c:358 forgets none although int1 may interrupt on       *)
(* either side of it; once it is read its frame is under way, or lies      *)
(* whole where the next take finds it, or is replaced by a transfer that   *)
(* reads one at least as new.                                              *)
(* The code promises no more: a transfer that breaks off loses its sample, *)
(* as the completion (:293) does not announce it again, and the next one   *)
(* takes its place.                                                        *)
NewestSampleIsKept ==
  /\ sample = "unread" => data_ready = 1 \/ pc \in {"start", "undo"}
  /\ sample = "latched" =>
       \/ engine = "moving"
       \/ raw = "whole" /\ \/ engine = "done"
                           \/ dma_complete = 1 /\ dma_status = 0
                           \/ pc = "format"
       \/ data_ready = 1 \/ pc \in {"start", "undo"}

(* "the ISR publishes it for a later task iteration" (app_icm45686.c:106): *)
(* while iterations are on time only the task's take ends a completed      *)
(* frame; the next start never discards it.                                *)
CompletedFrameIsTaken ==
  [][dma_complete = 1 /\ dma_complete' = 0 => pc = "take"]_vars

(* What is converted is a whole new frame, the chip select frames every    *)
(* transfer, and the newest sample gets lost in a broken transfer only.    *)
TransferIsSafe == FramesAreWhole /\ SelectFramesTransfer /\ NewestSampleIsKept

(* Whatever failed, a task that comes to be on time goes back to           *)
(* converting frames: no order of start, completion and error leaves a     *)
(* flag that stops the sensor for good.  One that overruns for ever could  *)
(* discard each frame that completes between its take and its check.       *)
FramesKeepComing ==
  <>[][Wake => engine = "idle"]_vars => []<>(pc = "format")
=============================================================================

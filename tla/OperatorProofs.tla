--------------------------- MODULE OperatorProofs ---------------------------
(***************************************************************************)
(* What the operator presses, hears and sees: the events of a debounced    *)
(* key tell its state and no bounce passes, for every debounce time,       *)
(* long-press time and distance of the calls; the timing of the prompts,   *)
(* for all durations and every period; and the pixels of the panel, for    *)
(* every screen, picture and place.                                        *)
(***************************************************************************)
EXTENDS DebouncedKey, Notify, FrameBuffer, TLAPS

(***************************************************************************)
(* The key                                                                 *)
(***************************************************************************)
KeyInv == TypeOK /\ EventsTellState

LEMMA ElapsedBounded ==
  ASSUME NEW since \in Nat, NEW gap \in Nat, NEW limit \in Nat,
         since <= limit
  PROVE  Elapsed(since, gap, limit) \in 0 .. limit
  BY DEF Elapsed

(* What each event tells.                                                  *)
LEMMA HearsEvents ==
  /\ \A before : Hears(before, {}) = before
  /\ Hears("released", {"PRESSED"}) = "pressed"
  /\ Hears("pressed", {"LONG_PRESSED"}) = "held"
  /\ Hears("pressed", {"RELEASED"}) = "released"
  /\ Hears("held", {"RELEASED"}) = "released"
<1>1. /\ {"PRESSED"} # {} /\ {"RELEASED"} # {} /\ {"LONG_PRESSED"} # {}
      /\ {"PRESSED"} # {"RELEASED"}
      /\ {"PRESSED"} # {"LONG_PRESSED"}
      /\ {"RELEASED"} # {"LONG_PRESSED"}
  OBVIOUS
<1> QED
  BY <1>1 DEF Hears

LEMMA KeyInitInv == KeyInit => KeyInv
<1> SUFFICES ASSUME KeyInit PROVE KeyInv
  OBVIOUS
<1>1. TypeOK
  <2>1. 0 \in 0 .. Debounce /\ 0 \in 0 .. LongPress
    BY KeyAssumption
  <2> QED
    BY <2>1, Zenon DEF KeyInit, TypeOK
<1>2. EventsTellState
  BY DEF KeyInit, EventsTellState
<1> QED
  BY <1>1, <1>2 DEF KeyInv

LEMMA KeyUpdateInv ==
  ASSUME KeyInv, NEW raw \in States, NEW gap \in 0 .. MaxGap,
         KeyUpdate(raw, gap)
  PROVE  KeyInv'
<1> DEFINE changes  == Changes(raw, gap)
           now      == IF changes THEN raw ELSE state
           pressed  == changes /\ raw = "pressed"
           since    == SincePress(pressed, gap)
           reported == ~changes /\ longReported
           long     == LongDue(now, reported, since)
<1>1. /\ lastRaw' = raw
      /\ sinceChange' = SinceChange(raw, gap)
      /\ state' = now
      /\ sincePress' = since
      /\ longReported' = (reported \/ long)
      /\ heard' = Hears(heard, events')
  BY DEF KeyUpdate
<1>2. events' = {e \in {"PRESSED", "RELEASED", "LONG_PRESSED"} :
                  \/ e = "PRESSED" /\ pressed
                  \/ e = "RELEASED" /\ changes /\ ~pressed
                  \/ e = "LONG_PRESSED" /\ long}
  BY DEF KeyUpdate
<1>3. state \in States /\ raw \in States /\ gap \in Nat
  BY KeyAssumption DEF KeyInv, TypeOK
<1>4. changes => raw # state
  BY DEF Changes
<1>5. sinceChange' \in 0 .. Debounce /\ sincePress' \in 0 .. LongPress
  <2>1. /\ sinceChange \in Nat /\ sinceChange <= Debounce
        /\ sincePress \in Nat /\ sincePress <= LongPress
        /\ Debounce \in Nat /\ LongPress \in Nat
    BY KeyAssumption DEF KeyInv, TypeOK
  <2>2. /\ Elapsed(sinceChange, gap, Debounce) \in 0 .. Debounce
        /\ Elapsed(sincePress, gap, LongPress) \in 0 .. LongPress
    BY <1>3, <2>1, ElapsedBounded
  <2> QED
    BY <1>1, <2>1, <2>2 DEF SinceChange, SincePress
<1>6. long => now = "pressed" /\ ~reported /\ since >= LongPress
  BY DEF LongDue
<1>7. pressed => ~long
  <2> SUFFICES ASSUME pressed PROVE ~long
    OBVIOUS
  <2>1. since = 0
    BY DEF SincePress
  <2> QED
    BY <2>1, <1>6, KeyAssumption
<1>8. CASE pressed
  <2>1. events' = {"PRESSED"}
    BY <1>2, <1>7, <1>8
  <2>2. state = "released" /\ state' = "pressed" /\ ~longReported'
    BY <1>1, <1>3, <1>4, <1>7, <1>8 DEF States
  <2>3. heard' = "pressed"
    BY <1>1, <2>1, <2>2, HearsEvents DEF KeyInv, EventsTellState
  <2> QED
    BY <1>1, <1>3, <1>5, <2>1, <2>2, <2>3
       DEF KeyInv, TypeOK, EventsTellState, States
<1>9. CASE changes /\ ~pressed
  <2>1. state = "pressed" /\ state' = "released" /\ ~long
    BY <1>1, <1>3, <1>4, <1>6, <1>9 DEF States
  <2>2. events' = {"RELEASED"}
    BY <1>2, <1>9, <2>1
  <2>3. heard' = "released"
    BY <1>1, <2>1, <2>2, HearsEvents DEF KeyInv, EventsTellState
  <2> QED
    BY <1>1, <1>3, <1>5, <1>9, <2>1, <2>2, <2>3
       DEF KeyInv, TypeOK, EventsTellState, States
<1>10. CASE ~changes /\ long
  <2>1. state = "pressed" /\ state' = "pressed" /\ ~longReported
    BY <1>1, <1>6, <1>10
  <2>2. events' = {"LONG_PRESSED"}
    BY <1>2, <1>10
  <2>3. heard' = "held"
    BY <1>1, <2>1, <2>2, HearsEvents DEF KeyInv, EventsTellState
  <2>4. longReported' = TRUE
    BY <1>1, <1>10
  <2> QED
    BY <1>1, <1>3, <1>5, <2>1, <2>2, <2>3, <2>4
       DEF KeyInv, TypeOK, EventsTellState, States
<1>11. CASE ~changes /\ ~long
  <2>1. events' = {}
    BY <1>2, <1>11
  <2>2. heard' = heard /\ state' = state /\ longReported' = longReported
    BY <1>1, <1>11, <2>1, HearsEvents DEF KeyInv, TypeOK
  <2> QED
    BY <1>1, <1>3, <1>5, <2>1, <2>2
       DEF KeyInv, TypeOK, EventsTellState
<1> QED
  BY <1>8, <1>9, <1>10, <1>11

(* The inductive invariant of a key.                                       *)
THEOREM KeyInvariance == KeySpec => []KeyInv
<1>1. KeyInv /\ [KeyNext]_keyVars => KeyInv'
  <2> SUFFICES ASSUME KeyInv, [KeyNext]_keyVars PROVE KeyInv'
    OBVIOUS
  <2>1. CASE KeyNext
    BY <2>1, KeyUpdateInv DEF KeyNext
  <2>2. CASE UNCHANGED keyVars
    BY <2>2 DEF keyVars, KeyInv, TypeOK, EventsTellState
  <2> QED
    BY <2>1, <2>2
<1> QED
  BY <1>1, KeyInitInv, PTL DEF KeySpec

(* Presses and releases reported by Key_Update alternate, and every press  *)
(* has at most one long press, whatever the contacts do and whenever the   *)
(* task runs.                                                              *)
THEOREM EventsAreSound == KeySpec => []EventsTellState
<1>1. KeyInv => EventsTellState
  BY DEF KeyInv
<1> QED
  BY <1>1, KeyInvariance, PTL

(* Presses and releases are of levels that all samples of the debounce     *)
(* time agreed on (module_key.c:91-103): the time since the change that    *)
(* Key_Update keeps is the time the samples have agreed.                   *)
THEOREM NoBouncePasses == KeySpec => ChangesAreSteady
<1> DEFINE Agreed == steady = sinceChange
           Change == state' # state => lastRaw' = state' /\ steady' = Debounce
<1>1. KeyInit => Agreed
  BY DEF KeyInit
<1>2. KeyInv /\ Agreed /\ [KeyNext]_keyVars => Agreed' /\ (Change \/ UNCHANGED keyVars)
  <2> SUFFICES ASSUME KeyInv, Agreed, NEW raw \in States, NEW gap \in 0 .. MaxGap,
                      KeyUpdate(raw, gap)
               PROVE  Agreed' /\ Change
    BY DEF KeyNext, keyVars
  <2>1. /\ sinceChange' = SinceChange(raw, gap)
        /\ steady' = SinceChange(raw, gap)
        /\ lastRaw' = raw
        /\ state' = IF Changes(raw, gap) THEN raw ELSE state
    BY DEF KeyUpdate, SinceChange
  <2>2. SinceChange(raw, gap) \in 0 .. Debounce
    BY <2>1, KeyUpdateInv DEF KeyInv, TypeOK
  <2>3. Changes(raw, gap) => SinceChange(raw, gap) = Debounce
    BY <2>2, KeyAssumption DEF Changes
  <2> QED
    BY <2>1, <2>3
<1> QED
  BY <1>1, <1>2, KeyInvariance, PTL DEF KeySpec, ChangesAreSteady

-------------------------------------------------------------------------------
(***************************************************************************)
(* The prompts                                                             *)
(***************************************************************************)
(* While race is idle a sounding tone has not expired at the tick count    *)
(* race used last; inside RunOnce it has expired by less than a period.    *)
Pending == sounding = 1 => offIn + lag > (IF running = 1 THEN -Period ELSE 0)

PromptInv == NotifyTypeOK /\ SoundsUntilDeadline /\ Pending

USE NotifyAssumption DEF Expired, KeyCount

(* The invariant holds initially. *)
LEMMA PromptInitInv == NotifyInit => PromptInv
BY SMT DEF NotifyInit, PromptInv, NotifyTypeOK, SoundsUntilDeadline, Pending

(* Each action of the two tasks, and each tick, keeps the invariant. *)
LEMMA PromptStepInv == PromptInv /\ [Next]_vars => PromptInv'
<1> SUFFICES ASSUME PromptInv, [Next]_vars
             PROVE  PromptInv'
    OBVIOUS
<1> USE DEF PromptInv, NotifyTypeOK, SoundsUntilDeadline, Pending, NotifyOn
<1>1. CASE NotifyPoint
      BY <1>1, SMTT(30) DEF NotifyPoint, raceVars
<1>2. CASE SetFinished
      BY <1>2, SMTT(30) DEF SetFinished, raceVars
<1>3. CASE BeginRunOnce
      BY <1>3, SMTT(30) DEF BeginRunOnce
<1>4. CASE ServeKey
      BY <1>4, SMTT(30) DEF ServeKey
<1>5. CASE NotifyUpdate
      BY <1>5, SMTT(30) DEF NotifyUpdate
<1>6. CASE Tick
      BY <1>6, SMTT(30) DEF Tick
<1>7. CASE UNCHANGED vars
      BY <1>7, SMT DEF vars, raceVars
<1> QED
    BY <1>1, <1>2, <1>3, <1>4, <1>5, <1>6, <1>7 DEF Next, RaceStep

(* The strengthened invariant of the prompts. *)
THEOREM PromptInvariance == NotifySpec => []PromptInv
<1>1. NotifyInit => PromptInv
      BY PromptInitInv
<1>2. PromptInv /\ [Next]_vars => PromptInv'
      BY PromptStepInv
<1> QED
    BY <1>1, <1>2, PTL DEF NotifySpec

(* No tone is ended before the deadline published last. *)
THEOREM TonesAreWhole == NotifySpec => []SoundsUntilDeadline
<1>1. PromptInv => SoundsUntilDeadline
      BY DEF PromptInv
<1> QED
    BY <1>1, PromptInvariance, PTL

(* A tone outlives its deadline by less than two periods. *)
THEOREM TonesEnd == NotifySpec => []OverrunBounded
<1>1. PromptInv => OverrunBounded
      BY SMT DEF PromptInv, NotifyTypeOK, Pending, OverrunBounded
<1> QED
    BY <1>1, PromptInvariance, PTL

(* Both together. *)
THEOREM PromptsOnTime == NotifySpec => []PromptsKeepTime
<1>1. SoundsUntilDeadline /\ OverrunBounded <=> PromptsKeepTime
      BY DEF PromptsKeepTime
<1> QED
    BY <1>1, TonesAreWhole, TonesEnd, PTL

-----------------------------------------------------------------------------
(***************************************************************************)
(* The frame buffer                                                        *)
(***************************************************************************)
(* A number is split into pages and bits in one way only.                  *)
LEMMA SplitIsUnique ==
  ASSUME NEW a \in Int, NEW c \in Int, NEW b \in Nat \ {0},
         NEW u \in 0 .. (b - 1), NEW v \in 0 .. (b - 1),
         a * b + u = c * b + v
  PROVE  a = c /\ u = v
<1>1. ~(a > c)
  <2> SUFFICES ASSUME a > c PROVE FALSE
    OBVIOUS
  <2>1. (a - c - 1) * b >= 0
    OBVIOUS
  <2>2. a * b = c * b + b + (a - c - 1) * b
    OBVIOUS
  <2> QED BY <2>1, <2>2
<1>2. ~(a < c)
  <2> SUFFICES ASSUME a < c PROVE FALSE
    OBVIOUS
  <2>1. (c - a - 1) * b >= 0
    OBVIOUS
  <2>2. c * b = a * b + b + (c - a - 1) * b
    OBVIOUS
  <2> QED BY <2>1, <2>2
<1> QED BY <1>1, <1>2

LEMMA NaturalSplit ==
  ASSUME NEW a \in Nat, NEW b \in Nat \ {0}
  PROVE  /\ a \div b \in Nat /\ a % b \in 0 .. (b - 1)
         /\ a = (a \div b) * b + (a % b)
<1>1. a = b * (a \div b) + (a % b) /\ a % b \in 0 .. (b - 1) /\ a \div b \in Int
  OBVIOUS
<1>2. a \div b >= 0
  BY <1>1
<1> QED BY <1>1, <1>2

(* Of a row of the screen. *)
LEMMA RowSplit ==
  ASSUME NEW y \in 0 .. (Pages * Bits - 1)
  PROVE  /\ Quotient(y, Bits) \in 0 .. (Pages - 1)
         /\ Remainder(y, Bits) \in 0 .. (Bits - 1)
         /\ y = Quotient(y, Bits) * Bits + Remainder(y, Bits)
<1> DEFINE q == y \div Bits
           r == y % Bits
<1>1. Bits \in Nat \ {0} /\ Pages \in Nat \ {0} /\ y \in Nat /\ y < Pages * Bits
  BY FrameBufferAssumption
<1>2. q \in Nat /\ r \in 0 .. (Bits - 1) /\ y = q * Bits + r
  BY <1>1, NaturalSplit
<1>3. Quotient(y, Bits) = q
  BY <1>1 DEF Quotient
<1>4. Remainder(y, Bits) = y - Bits * q
  BY <1>3 DEF Remainder
<1> HIDE DEF q, r
<1>5. Remainder(y, Bits) = r
  BY <1>1, <1>2, <1>4
<1>6. q < Pages
  <2> SUFFICES ASSUME q >= Pages PROVE FALSE
    BY <1>1, <1>2
  <2>1. (q - Pages) * Bits >= 0
    BY <1>1, <1>2
  <2>2. q * Bits = Pages * Bits + (q - Pages) * Bits
    BY <1>1, <1>2
  <2>3. q * Bits >= Pages * Bits
    BY <1>1, <1>2, <2>1, <2>2
  <2> QED BY <1>1, <1>2, <2>3
<1> QED BY <1>1, <1>2, <1>3, <1>5, <1>6

(* Of the place of a picture, which may lie above the screen. *)
LEMMA PlaceSplit ==
  ASSUME NEW y \in Int
  PROVE  /\ PageOf(y) \in Int /\ ShiftOf(y) \in 0 .. Bits
         /\ y = PageOf(y) * Bits + ShiftOf(y)
<1>1. Bits \in Nat \ {0}
  BY FrameBufferAssumption
<1>2. CASE y >= 0
  <2>1. y \div Bits \in Nat /\ y % Bits \in 0 .. (Bits - 1)
        /\ y = (y \div Bits) * Bits + (y % Bits)
    <3>1. y \in Nat
      BY <1>2
    <3> QED BY <1>1, <3>1, NaturalSplit, Zenon
  <2>2. PageOf(y) = y \div Bits /\ ShiftOf(y) = y - Bits * (y \div Bits)
    BY <1>2 DEF PageOf, ShiftOf, Quotient, Remainder
  <2> QED BY <1>1, <2>1, <2>2
<1>3. CASE y < 0
  <2> DEFINE q == (-y) \div Bits
             r == (-y) % Bits
  <2>1. q \in Nat /\ r \in 0 .. (Bits - 1) /\ -y = q * Bits + r
    <3>1. -y \in Nat
      BY <1>3
    <3> QED BY <1>1, <3>1, NaturalSplit, Zenon
  <2>2. PageOf(y) = -q - 1 /\ ShiftOf(y) = y - Bits * (-q) + Bits
    BY <1>3 DEF PageOf, ShiftOf, Quotient, Remainder
  <2> HIDE DEF q, r
  <2>3. ShiftOf(y) = Bits - r
    BY <1>1, <2>1, <2>2
  <2> QED BY <1>1, <2>1, <2>2, <2>3
<1> QED BY <1>2, <1>3

(* Division by the bits of a page is monotonic. *)
LEMMA SplitIsMonotonic ==
  ASSUME NEW a \in Nat, NEW c \in Nat, NEW b \in Nat \ {0}, a <= c
  PROVE  a \div b <= c \div b
<1> DEFINE p == a \div b
           q == c \div b
           u == a % b
           v == c % b
<1>1. p \in Nat /\ u \in 0 .. (b - 1) /\ a = p * b + u
  BY NaturalSplit
<1>2. q \in Nat /\ v \in 0 .. (b - 1) /\ c = q * b + v
  BY NaturalSplit
<1> HIDE DEF p, q, u, v
<1>3. ~(p > q)
  <2> SUFFICES ASSUME p > q PROVE FALSE
    OBVIOUS
  <2>1. (p - q - 1) * b >= 0
    BY <1>1, <1>2
  <2>2. p * b = q * b + b + (p - q - 1) * b
    BY <1>1, <1>2
  <2> QED BY <1>1, <1>2, <2>1, <2>2
<1>4. p <= q
  BY <1>1, <1>2, <1>3
<1> QED BY <1>4 DEF p, q

(* The loops over the pages of a picture, with their two shifts, put every *)
(* pixel into the byte and the bit of its place, and nothing else.         *)
LEMMA DrawnIsPicture ==
  ASSUME NEW q \in Int, NEW c \in Int, NEW r \in 0 .. (Bits - 1),
         NEW x \in Int, NEW y \in Int, NEW picture \in Pictures
  PROVE  r \in Drawn(<<q, c>>, x, y, picture)
           <=> <<c - x, q * Bits + r - y>> \in picture.pixels
<1> DEFINE page == PageOf(y)
           shift == ShiftOf(y)
           row == q * Bits + r - y
           h == picture.h
           Shown(j) == Image(picture, c - x, j)
<1>1. Bits \in Nat \ {0} /\ h \in Nat \ {0}
      /\ picture.pixels \subseteq (0 .. (picture.w - 1)) \X (0 .. (h - 1))
  BY FrameBufferAssumption
<1>2. page \in Int /\ shift \in 0 .. Bits /\ y = page * Bits + shift
  BY PlaceSplit
<1>3. Rows(h) = 0 .. ((h - 1) \div Bits)
  BY <1>1 DEF Rows, Quotient
<1>4. \A j : Shown(j) = {bit \in 0 .. (Bits - 1) :
                          <<c - x, j * Bits + bit>> \in picture.pixels}
  BY DEF Image
<1>5. r \in Drawn(<<q, c>>, x, y, picture)
        <=> \/ \E j \in Rows(h) : page + j = q /\ r \in ShiftUp(Shown(j), shift)
            \/ \E j \in Rows(h) : page + j + 1 = q
                                /\ r \in ShiftDown(Shown(j), Bits - shift)
  <2> DEFINE S == {j \in Rows(h) : page + j = q}
             T == {j \in Rows(h) : page + j + 1 = q}
  <2>1. Drawn(<<q, c>>, x, y, picture)
          = (UNION {ShiftUp(Shown(j), shift) : j \in S})
              \cup (UNION {ShiftDown(Shown(j), Bits - shift) : j \in T})
    BY DEF Drawn
  <2>2. r \in Drawn(<<q, c>>, x, y, picture)
          <=> \/ \E j \in S : r \in ShiftUp(Shown(j), shift)
              \/ \E j \in T : r \in ShiftDown(Shown(j), Bits - shift)
    <3> DEFINE Up(j) == ShiftUp(Shown(j), shift)
               Down(j) == ShiftDown(Shown(j), Bits - shift)
    <3>1. Drawn(<<q, c>>, x, y, picture)
            = (UNION {Up(j) : j \in S}) \cup (UNION {Down(j) : j \in T})
      BY <2>1
    <3> HIDE DEF S, T, Up, Down
    <3>2. r \in UNION {Up(j) : j \in S} <=> \E j \in S : r \in Up(j)
      OBVIOUS
    <3>3. r \in UNION {Down(j) : j \in T} <=> \E j \in T : r \in Down(j)
      OBVIOUS
    <3>4. r \in Drawn(<<q, c>>, x, y, picture)
            <=> (\E j \in S : r \in Up(j)) \/ (\E j \in T : r \in Down(j))
      BY <3>1, <3>2, <3>3
    <3> QED BY <3>4 DEF Up, Down
  <2> HIDE DEF Shown, shift, page, h
  <2> QED BY <2>2
<1> HIDE DEF page, shift, h, Shown
<1>6. ASSUME NEW j \in Rows(h), page + j = q, r \in ShiftUp(Shown(j), shift)
      PROVE  <<c - x, row>> \in picture.pixels
  <2>1. PICK bit \in Shown(j) : r = bit + shift
    BY <1>6 DEF ShiftUp
  <2>2. bit \in 0 .. (Bits - 1) /\ <<c - x, j * Bits + bit>> \in picture.pixels
    BY <1>4, <2>1
  <2>3. j \in Int
    BY <1>3
  <2>4. q * Bits = page * Bits + j * Bits
    BY <1>1, <1>2, <1>6, <2>3
  <2>5. row = j * Bits + bit
    BY <1>1, <1>2, <2>1, <2>2, <2>3, <2>4
  <2> QED BY <2>2, <2>5
<1>7. ASSUME NEW j \in Rows(h), page + j + 1 = q,
             r \in ShiftDown(Shown(j), Bits - shift)
      PROVE  <<c - x, row>> \in picture.pixels
  <2>1. PICK bit \in Shown(j) : r = bit - (Bits - shift)
    BY <1>7 DEF ShiftDown
  <2>2. bit \in 0 .. (Bits - 1) /\ <<c - x, j * Bits + bit>> \in picture.pixels
    BY <1>4, <2>1
  <2>3. j \in Int
    BY <1>3
  <2>4. q * Bits = page * Bits + j * Bits + Bits
    BY <1>1, <1>2, <1>7, <2>3
  <2>5. row = j * Bits + bit
    BY <1>1, <1>2, <2>1, <2>2, <2>3, <2>4
  <2> QED BY <2>2, <2>5
<1>8. ASSUME <<c - x, row>> \in picture.pixels
      PROVE  r \in Drawn(<<q, c>>, x, y, picture)
  <2> DEFINE j == row \div Bits
             b == row % Bits
  <2>1. row \in 0 .. (h - 1)
    BY <1>1, <1>8
  <2>2. row \in Nat /\ h - 1 \in Nat /\ row <= h - 1
    BY <1>1, <2>1
  <2>3. j \in Nat /\ b \in 0 .. (Bits - 1) /\ row = j * Bits + b
    <3> HIDE DEF row
    <3> QED BY <1>1, <2>2, NaturalSplit, Zenon
  <2>4. j \in Rows(h)
    <3>1. j <= (h - 1) \div Bits /\ (h - 1) \div Bits \in Nat
      <4> HIDE DEF row
      <4> QED BY <1>1, <2>2, SplitIsMonotonic, NaturalSplit, Zenon
    <3> HIDE DEF j
    <3> QED BY <1>3, <2>3, <3>1
  <2> HIDE DEF j, b
  <2>5. b \in Shown(j)
    BY <1>4, <1>8, <2>3
  <2>6. (q - page) * Bits + (r - shift) = j * Bits + b
    BY <1>1, <1>2, <2>3
  <2>7. CASE r >= shift
    <3> DEFINE a == q - page
               u == r - shift
    <3>1. a \in Int /\ u \in 0 .. (Bits - 1) /\ j \in Int
          /\ a * Bits + u = j * Bits + b
      BY <1>1, <1>2, <2>3, <2>6, <2>7
    <3> HIDE DEF a, u
    <3>2. a = j /\ u = b
      BY <1>1, <2>3, <3>1, SplitIsUnique
    <3> USE DEF a, u
    <3>3. page + j = q /\ r = b + shift
      BY <1>1, <1>2, <2>3, <3>2
    <3>4. r \in ShiftUp(Shown(j), shift)
      BY <2>5, <3>3 DEF ShiftUp
    <3> QED BY <1>5, <2>4, <3>3, <3>4
  <2>8. CASE r < shift
    <3> DEFINE a == q - page - 1
               u == r - shift + Bits
    <3>1. a \in Int /\ u \in 0 .. (Bits - 1) /\ j \in Int
      BY <1>1, <1>2, <2>3, <2>8
    <3>2. a * Bits + u = j * Bits + b
      BY <1>1, <1>2, <2>6
    <3> HIDE DEF a, u
    <3>3. a = j /\ u = b
      BY <1>1, <2>3, <3>1, <3>2, SplitIsUnique
    <3> USE DEF a, u
    <3>4. page + j + 1 = q /\ r = b - (Bits - shift)
      BY <1>1, <1>2, <2>3, <3>3
    <3>5. r \in ShiftDown(Shown(j), Bits - shift)
      BY <2>5, <3>4 DEF ShiftDown
    <3> QED BY <1>5, <2>4, <3>4, <3>5
  <2> QED BY <1>1, <1>2, <2>7, <2>8
<1> QED BY <1>5, <1>6, <1>7, <1>8

(* A pixel of the screen is one bit of one byte. *)
LEMMA PixelCell ==
  ASSUME NEW c \in 0 .. (Columns - 1), NEW z \in 0 .. (Pages * Bits - 1)
  PROVE  /\ <<Quotient(z, Bits), c>> \in Cells
         /\ Remainder(z, Bits) \in 0 .. (Bits - 1)
         /\ z = Quotient(z, Bits) * Bits + Remainder(z, Bits)
         /\ <<c, z>> \in Lit
              <=> Remainder(z, Bits) \in buffer[<<Quotient(z, Bits), c>>]
<1>1. /\ Quotient(z, Bits) \in 0 .. (Pages - 1)
      /\ Remainder(z, Bits) \in 0 .. (Bits - 1)
      /\ z = Quotient(z, Bits) * Bits + Remainder(z, Bits)
  BY RowSplit
<1>2. <<Quotient(z, Bits), c>> \in Cells
  BY <1>1 DEF Cells
<1>3. <<c, z>> \in Lit
        <=> Remainder(z, Bits) \in buffer[<<Quotient(z, Bits), c>>]
  BY DEF Lit
<1> QED BY <1>1, <1>2, <1>3

(* What is cleared of a byte is what the area covers. *)
LEMMA ClearedPixels ==
  ASSUME NEW x \in Int, NEW y \in Int, NEW w \in Nat, NEW h \in Nat,
         NEW c \in 0 .. (Columns - 1), NEW z \in 0 .. (Pages * Bits - 1)
  PROVE  Remainder(z, Bits) \in Cleared(x, y, w, h)[<<Quotient(z, Bits), c>>]
           <=> <<c, z>> \in Lit \ Plane!Area(x, y, w, h)
<1> DEFINE cell == <<Quotient(z, Bits), c>>
           bit == Remainder(z, Bits)
<1>1. /\ cell \in Cells /\ z = cell[1] * Bits + bit /\ cell[2] = c
      /\ <<c, z>> \in Lit <=> bit \in buffer[cell]
  BY PixelCell
<1>2. Cleared(x, y, w, h)[cell]
        = {b \in buffer[cell] : ~ (cell[2] \in x .. (x + w - 1)
                                   /\ cell[1] * Bits + b \in y .. (y + h - 1))}
  BY <1>1 DEF Cleared
<1>3. <<c, z>> \in Plane!Area(x, y, w, h)
        <=> c \in x .. (x + w - 1) /\ z \in y .. (y + h - 1)
  BY DEF Plane!Area
<1> HIDE DEF cell, bit
<1>4. bit \in Cleared(x, y, w, h)[cell]
        <=> /\ bit \in buffer[cell]
            /\ ~ (c \in x .. (x + w - 1) /\ z \in y .. (y + h - 1))
  BY <1>1, <1>2
<1>5. bit \in Cleared(x, y, w, h)[cell] <=> <<c, z>> \in Lit \ Plane!Area(x, y, w, h)
  BY <1>1, <1>3, <1>4
<1> QED BY <1>5 DEF cell, bit

(* The screen is known from its pixels. *)
LEMMA SameScreen ==
  ASSUME NEW plane, plane \subseteq Plane!Screen,
         \A c \in 0 .. (Columns - 1), z \in 0 .. (Pages * Bits - 1) :
           Remainder(z, Bits) \in buffer'[<<Quotient(z, Bits), c>>]
             <=> <<c, z>> \in plane
  PROVE  Lit' = plane
<1>1. Lit' = {p \in (0 .. (Columns - 1)) \X (0 .. (Pages * Bits - 1)) :
                Remainder(p[2], Bits) \in buffer'[<<Quotient(p[2], Bits), p[1]>>]}
  BY DEF Lit
<1>2. \A p \in (0 .. (Columns - 1)) \X (0 .. (Pages * Bits - 1)) :
        Remainder(p[2], Bits) \in buffer'[<<Quotient(p[2], Bits), p[1]>>]
          <=> p \in plane
  OBVIOUS
<1>3. plane \subseteq (0 .. (Columns - 1)) \X (0 .. (Pages * Bits - 1))
  BY DEF Plane!Screen
<1> QED BY <1>1, <1>2, <1>3

LEMMA LitOnScreen == Lit \subseteq Plane!Screen
  BY DEF Lit, Plane!Screen

LEMMA ClearPixels ==
  ASSUME Clear
  PROVE  Lit' = {}
<1>1. buffer' = [cell \in Cells |-> {}]
  BY DEF Clear
<1>2. ASSUME NEW c \in 0 .. (Columns - 1), NEW z \in 0 .. (Pages * Bits - 1)
      PROVE  Remainder(z, Bits) \notin buffer'[<<Quotient(z, Bits), c>>]
  BY <1>1, PixelCell
<1> DEFINE dark == {}
<1>3. dark \subseteq Plane!Screen
      /\ \A c \in 0 .. (Columns - 1), z \in 0 .. (Pages * Bits - 1) :
           Remainder(z, Bits) \in buffer'[<<Quotient(z, Bits), c>>]
             <=> <<c, z>> \in dark
  BY <1>2
<1> HIDE DEF dark
<1>4. Lit' = dark
  BY <1>3, SameScreen
<1> QED BY <1>4 DEF dark

LEMMA ClearAreaPixels ==
  ASSUME NEW x \in Int, NEW y \in Int, NEW w \in Nat, NEW h \in Nat,
         ClearArea(x, y, w, h)
  PROVE  Lit' = Lit \ Plane!Area(x, y, w, h)
<1>1. Lit \ Plane!Area(x, y, w, h) \subseteq Plane!Screen
  BY LitOnScreen
<1>2. \A c \in 0 .. (Columns - 1), z \in 0 .. (Pages * Bits - 1) :
        Remainder(z, Bits) \in buffer'[<<Quotient(z, Bits), c>>]
          <=> <<c, z>> \in Lit \ Plane!Area(x, y, w, h)
  BY ClearedPixels DEF ClearArea
<1> QED BY <1>1, <1>2, SameScreen, Zenon

LEMMA ShowImagePixels ==
  ASSUME NEW x \in Int, NEW y \in Int, NEW picture \in Pictures,
         ShowImage(x, y, picture)
  PROVE  Lit' = (Lit \ Plane!Area(x, y, picture.w, picture.h))
                  \cup (Plane!At(x, y, picture.pixels) \cap Plane!Screen)
<1> DEFINE old == Lit \ Plane!Area(x, y, picture.w, picture.h)
           new == Plane!At(x, y, picture.pixels) \cap Plane!Screen
<1>1. picture.w \in Nat \ {0} /\ picture.h \in Nat \ {0}
      /\ picture.pixels \subseteq (0 .. (picture.w - 1)) \X (0 .. (picture.h - 1))
  BY FrameBufferAssumption
<1>2. old \cup new \subseteq Plane!Screen
  BY LitOnScreen
<1>3. ASSUME NEW c \in 0 .. (Columns - 1), NEW z \in 0 .. (Pages * Bits - 1)
      PROVE  Remainder(z, Bits) \in buffer'[<<Quotient(z, Bits), c>>]
               <=> <<c, z>> \in old \cup new
  <2> DEFINE q == Quotient(z, Bits)
             r == Remainder(z, Bits)
             before == Cleared(x, y, picture.w, picture.h)[<<q, c>>]
             drawn == Drawn(<<q, c>>, x, y, picture)
  <2>1. <<q, c>> \in Cells /\ r \in 0 .. (Bits - 1) /\ z = q * Bits + r
        /\ q \in Int
    <3>1. <<q, c>> \in Cells /\ r \in 0 .. (Bits - 1) /\ z = q * Bits + r
      BY PixelCell, Zenon
    <3>2. q \in 0 .. (Pages - 1)
      BY RowSplit, Zenon
    <3> HIDE DEF q
    <3> QED BY <3>1, <3>2
  <2>2. buffer'[<<q, c>>]
          = before \cup (IF c - x \in 0 .. (picture.w - 1) THEN drawn ELSE {})
    BY <2>1 DEF ShowImage
  <2>3. r \in before <=> <<c, z>> \in old
    BY <1>1, ClearedPixels
  <2>4. r \in drawn <=> <<c - x, z - y>> \in picture.pixels
    <3>1. c \in Int
      OBVIOUS
    <3>2. r \in drawn <=> <<c - x, q * Bits + r - y>> \in picture.pixels
      <4> HIDE DEF q, r
      <4> QED BY <2>1, <3>1, DrawnIsPicture, Zenon
    <3>3. q * Bits + r - y = z - y
      <4> HIDE DEF q, r
      <4> QED BY <2>1, FrameBufferAssumption
    <3> QED BY <3>2, <3>3
  <2>5. <<c, z>> \in new <=> <<c - x, z - y>> \in picture.pixels
    <3>1. <<c, z>> \in Plane!Screen
      BY DEF Plane!Screen
    <3>2. ASSUME <<c - x, z - y>> \in picture.pixels
          PROVE  <<c, z>> \in Plane!At(x, y, picture.pixels)
      <4>1. <<x + (c - x), y + (z - y)>> = <<c, z>>
        OBVIOUS
      <4> QED BY <3>2, <4>1 DEF Plane!At
    <3>3. ASSUME <<c, z>> \in Plane!At(x, y, picture.pixels)
          PROVE  <<c - x, z - y>> \in picture.pixels
      <4>1. PICK p \in picture.pixels : <<c, z>> = <<x + p[1], y + p[2]>>
        BY <3>3 DEF Plane!At
      <4>2. p \in (0 .. (picture.w - 1)) \X (0 .. (picture.h - 1))
        BY <1>1
      <4>3. p = <<c - x, z - y>>
        BY <1>1, <4>1, <4>2
      <4> QED BY <4>1, <4>3
    <3> QED BY <3>1, <3>2, <3>3
  <2>6. <<c - x, z - y>> \in picture.pixels => c - x \in 0 .. (picture.w - 1)
    BY <1>1
  <2> HIDE DEF q, r, before, drawn, old, new
  <2>7. r \in buffer'[<<q, c>>] <=> <<c, z>> \in old \cup new
    BY <2>2, <2>3, <2>4, <2>5, <2>6
  <2> QED BY <2>7 DEF q, r
<1> HIDE DEF old, new
<1>4. Lit' = old \cup new
  BY <1>2, <1>3, SameScreen
<1> QED BY <1>4 DEF old, new

LEMMA CanvasStep == [FrameNext]_buffer => [Plane!Next]_Lit
<1> SUFFICES ASSUME [FrameNext]_buffer PROVE Plane!Next \/ UNCHANGED Lit
  OBVIOUS
<1>1. CASE Clear
  BY <1>1, ClearPixels DEF Plane!Next, Plane!Clear
<1>2. ASSUME NEW x \in Xs, NEW y \in Ys, NEW picture \in Pictures,
             ClearArea(x, y, picture.w, picture.h)
      PROVE  Plane!Next
  <2>1. x \in Int /\ y \in Int /\ picture.w \in Nat /\ picture.h \in Nat
    BY FrameBufferAssumption
  <2>2. Plane!ClearArea(x, y, picture.w, picture.h)
    BY <1>2, <2>1, ClearAreaPixels DEF Plane!ClearArea
  <2> QED BY <2>2 DEF Plane!Next
<1>3. ASSUME NEW x \in Xs, NEW y \in Ys, NEW picture \in Pictures,
             ShowImage(x, y, picture)
      PROVE  Plane!Next
  <2>1. x \in Int /\ y \in Int
    BY FrameBufferAssumption
  <2>2. Plane!ShowImage(x, y, picture)
    BY <1>3, <2>1, ShowImagePixels DEF Plane!ShowImage
  <2> QED BY <2>2 DEF Plane!Next
<1>4. CASE UNCHANGED buffer
  BY <1>4 DEF Lit
<1> QED BY <1>1, <1>2, <1>3, <1>4 DEF FrameNext

LEMMA CanvasInit == FrameInit => Plane!Init
<1> SUFFICES ASSUME FrameInit PROVE Lit = {}
  BY DEF Plane!Init
<1>1. ASSUME NEW p \in Lit PROVE FALSE
  <2>1. PICK c \in 0 .. (Columns - 1), z \in 0 .. (Pages * Bits - 1) : p = <<c, z>>
    BY <1>1 DEF Lit
  <2>2. <<Quotient(z, Bits), c>> \in Cells
        /\ Remainder(z, Bits) \in buffer[<<Quotient(z, Bits), c>>]
    BY <1>1, <2>1, PixelCell
  <2> QED BY <2>2 DEF FrameInit
<1> QED BY <1>1

(* Pages, shifts and clipping make up the plane of pixels: for every size  *)
(* of the screen and of a byte, every picture and every place, also left   *)
(* of and above the screen, a picture is shown where it is put, covers     *)
(* what was there and changes nothing else (bsp_oled.c, OLED_ShowImage and *)
(* OLED_ClearArea).                                                        *)
THEOREM PicturesAreShown == FrameSpec => CanvasSpec
<1> QED BY CanvasInit, CanvasStep, PTL DEF FrameSpec, CanvasSpec, Plane!Spec
=============================================================================

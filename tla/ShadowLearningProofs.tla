------------------------- MODULE ShadowLearningProofs -------------------------
(***************************************************************************)
(* Theorems about ShadowLearning, for every number of symbols, time        *)
(* frames, workers, crashes and failed writes.                             *)
(***************************************************************************)
EXTENDS ShadowLearning, SetSumsProofs, SequenceTheorems

-----------------------------------------------------------------------------
(* The books of the tracker *)

Book == [pos : SUBSET PosKey, trades : Seq(Trade), entries : Nat, closes : Nat,
         wins : Nat, losses : Nat, marks : SUBSET PosKey, leEntries : Nat,
         leCloses : Nat]

(* What is true of the books in memory and of those in an intact file.     *)
Sound(s) ==
    /\ s \in Book /\ IsFiniteSet(s.pos) /\ IsFiniteSet(s.marks)
    /\ s.entries = s.closes + Cardinality(s.pos)
    /\ s.closes = s.wins + s.losses
    /\ Len(s.trades) \in AtMost(s.closes, KeepSaved) .. AtMost(s.closes, MaxKept)
    /\ \A p, q \in s.pos : KeyOf(p) = KeyOf(q) => p = q
    /\ Cardinality(s.marks) + s.leCloses <= s.leEntries

LEMMA NoneIsNoKey == None \notin PosKey
BY DEF None, PosKey

LEMMA AtMostType ==
    ASSUME NEW a \in Nat, NEW b \in Nat
    PROVE  /\ AtMost(a, b) \in Nat /\ AtMost(a, b) <= a /\ AtMost(a, b) <= b
           /\ AtMost(a, b) \in {a, b}
BY DEF AtMost

(* The newest n of a sequence.                                             *)
LEMMA NewestLength ==
    ASSUME NEW S, NEW seq \in Seq(S), NEW n \in Nat
    PROVE  Newest(seq, n) \in Seq(S) /\ Len(Newest(seq, n)) = AtMost(Len(seq), n)
<1> DEFINE len == Len(seq)
           k == AtMost(len, n)
           m == len - k + 1
<1>0. len \in Nat
  BY LenProperties
<1> HIDE DEF len
<1>1. k \in Nat /\ k <= len
  BY <1>0, AtMostType
<1> HIDE DEF k
<1>2. m \in 1 .. len + 1
  BY <1>0, <1>1
<1> USE DEF len
<1>3. \A i \in m .. len : seq[i] \in S
  BY <1>2, ElementOfSeq
<1>4. /\ SubSeq(seq, m, len) \in Seq(S)
      /\ Len(SubSeq(seq, m, len)) = IF m <= len THEN len - m + 1 ELSE 0
  BY <1>0, <1>1, <1>2, <1>3, SubSeqProperties
<1>5. (IF m <= len THEN len - m + 1 ELSE 0) = k
  BY <1>0, <1>1
<1> QED BY <1>1, <1>4, <1>5 DEF Newest, k

(* Empty books are sound.                                                  *)
LEMMA NoShadowSound == Sound(NoShadow)
<1>1. NoShadow \in Book
  BY DEF NoShadow, Book
<1>2. Cardinality({}) = 0 /\ IsFiniteSet({})
  BY FS_EmptySet
<1>3. AtMost(0, KeepSaved) = 0 /\ AtMost(0, MaxKept) = 0
  BY ShadowAssumption DEF AtMost
<1> QED BY <1>1, <1>2, <1>3 DEF Sound, NoShadow

(* Opening a position in a symbol and time frame that have none.           *)
LEMMA OpenedSound ==
    ASSUME NEW s, Sound(s), NEW p \in PosKey, \A q \in s.pos : KeyOf(q) # KeyOf(p)
    PROVE  Sound(Opened(s, p)) /\ Opened(s, p).pos = s.pos \cup {p}
<1> DEFINE t == Opened(s, p)
<1>1. s \in Book
  BY DEF Sound
<1>2. /\ t.pos = s.pos \cup {p} /\ t.entries = s.entries + 1
      /\ t.trades = s.trades /\ t.closes = s.closes /\ t.wins = s.wins
      /\ t.losses = s.losses /\ t.marks = s.marks /\ t.leEntries = s.leEntries
      /\ t.leCloses = s.leCloses /\ t \in Book
  <2>1. /\ s.pos \cup {p} \in SUBSET PosKey /\ s.entries + 1 \in Nat
    BY <1>1 DEF Book
  <2>2. t = [s EXCEPT !.pos = s.pos \cup {p}, !.entries = s.entries + 1]
    BY DEF Opened
  <2>3. t \in Book
    BY <1>1, <2>1, <2>2 DEF Book
  <2>4. /\ t.pos = s.pos \cup {p} /\ t.entries = s.entries + 1
      /\ t.trades = s.trades /\ t.closes = s.closes /\ t.wins = s.wins
      /\ t.losses = s.losses /\ t.marks = s.marks /\ t.leEntries = s.leEntries
      /\ t.leCloses = s.leCloses
    BY <1>1, <2>2 DEF Book
  <2> QED BY <2>3, <2>4
<1>3. p \notin s.pos /\ IsFiniteSet(s.pos)
  BY DEF Sound
<1>4. IsFiniteSet(s.pos \cup {p}) /\ Cardinality(s.pos \cup {p}) = Cardinality(s.pos) + 1
  BY <1>3, FS_AddElement
<1>5. Cardinality(s.pos) \in Nat /\ s.closes \in Nat /\ s.entries \in Nat
  BY <1>1, <1>3, FS_CardinalityType DEF Book
<1> HIDE DEF t
<1>6. t.entries = t.closes + Cardinality(t.pos)
  BY <1>2, <1>4, <1>5 DEF Sound
<1>7. \A a, b \in t.pos : KeyOf(a) = KeyOf(b) => a = b
  BY <1>2 DEF Sound
<1>8. Sound(t)
  BY <1>2, <1>4, <1>6, <1>7 DEF Sound
<1> QED BY <1>2, <1>8 DEF t

(* A close moves one position to the trades, with its mark if it has one.  *)
LEMMA ClosedSound ==
    ASSUME NEW s, Sound(s), NEW p \in s.pos, NEW win \in BOOLEAN
    PROVE  Sound(Closed(s, p, win)) /\ Closed(s, p, win).pos = s.pos \ {p}
<1> DEFINE t == Closed(s, p, win)
           one == [key |-> KeyOf(p), win |-> win]
<1>1. s \in Book /\ p \in PosKey /\ s.trades \in Seq(Trade)
  BY DEF Sound, Book
<1>2. one \in Trade
  BY <1>1 DEF Trade, KeyOf, PosKey, LearnKey
<1> HIDE DEF one
<1>3. Append(s.trades, one) \in Seq(Trade) /\ Len(Append(s.trades, one)) = Len(s.trades) + 1
  BY <1>1, <1>2, AppendProperties
<1>4. /\ Newest(Append(s.trades, one), MaxKept) \in Seq(Trade)
      /\ Len(Newest(Append(s.trades, one), MaxKept)) = AtMost(Len(s.trades) + 1, MaxKept)
  BY <1>3, NewestLength, ShadowAssumption
<1>5. /\ s.entries \in Nat /\ s.closes \in Nat /\ s.wins \in Nat /\ s.losses \in Nat
      /\ s.leEntries \in Nat /\ s.leCloses \in Nat
      /\ s.pos \subseteq PosKey /\ s.marks \subseteq PosKey
  BY <1>1 DEF Book
<1>6. t = [s EXCEPT !.pos = s.pos \ {p},
                    !.trades = Newest(Append(s.trades, one), MaxKept),
                    !.closes = s.closes + 1,
                    !.wins = s.wins + (IF win THEN 1 ELSE 0),
                    !.losses = s.losses + (IF win THEN 0 ELSE 1),
                    !.leCloses = s.leCloses + (IF p \in s.marks THEN 1 ELSE 0),
                    !.marks = s.marks \ {p}]
  BY DEF Closed, one
<1> HIDE DEF t
<1>7. /\ t.pos = s.pos \ {p} /\ t.entries = s.entries
      /\ t.trades = Newest(Append(s.trades, one), MaxKept) /\ t.closes = s.closes + 1
      /\ t.wins = s.wins + (IF win THEN 1 ELSE 0)
      /\ t.losses = s.losses + (IF win THEN 0 ELSE 1)
      /\ t.marks = s.marks \ {p} /\ t.leEntries = s.leEntries
      /\ t.leCloses = s.leCloses + (IF p \in s.marks THEN 1 ELSE 0)
      /\ t \in Book
  <2> DEFINE wins == s.wins + (IF win THEN 1 ELSE 0)
             losses == s.losses + (IF win THEN 0 ELSE 1)
             leCloses == s.leCloses + (IF p \in s.marks THEN 1 ELSE 0)
             marks == s.marks \ {p}
             pos == s.pos \ {p}
             trades == Newest(Append(s.trades, one), MaxKept)
             closes == s.closes + 1
  <2>1. /\ wins \in Nat /\ losses \in Nat /\ leCloses \in Nat /\ closes \in Nat
        /\ marks \in SUBSET PosKey /\ pos \in SUBSET PosKey /\ trades \in Seq(Trade)
    BY <1>4, <1>5
  <2> HIDE DEF wins, losses, leCloses, marks, pos, trades, closes
  <2>2. t = [s EXCEPT !.pos = pos, !.trades = trades, !.closes = closes, !.wins = wins,
                      !.losses = losses, !.leCloses = leCloses, !.marks = marks]
    BY <1>6 DEF wins, losses, leCloses, marks, pos, trades, closes
  <2>3. t \in Book
    BY <1>1, <2>1, <2>2 DEF Book
  <2>4. /\ t.pos = pos /\ t.entries = s.entries /\ t.trades = trades /\ t.closes = closes
        /\ t.wins = wins /\ t.losses = losses /\ t.marks = marks
        /\ t.leEntries = s.leEntries /\ t.leCloses = leCloses
    BY <1>1, <2>2 DEF Book
  <2> QED BY <2>3, <2>4 DEF wins, losses, leCloses, marks, pos, trades, closes
<1>8. /\ IsFiniteSet(t.pos) /\ Cardinality(t.pos) = Cardinality(s.pos) - 1
      /\ Cardinality(s.pos) \in Nat
  BY <1>7, FS_RemoveElement, FS_CardinalityType DEF Sound
<1>9. /\ IsFiniteSet(t.marks) /\ Cardinality(s.marks) \in Nat
      /\ Cardinality(t.marks) = Cardinality(s.marks) - (IF p \in s.marks THEN 1 ELSE 0)
  <2>1. IsFiniteSet(s.marks) /\ Cardinality(s.marks) \in Nat
    BY FS_CardinalityType DEF Sound
  <2>2. CASE p \in s.marks
    BY <1>7, <2>1, <2>2, FS_RemoveElement
  <2>3. CASE p \notin s.marks
    <3>1. t.marks = s.marks
      BY <1>7, <2>3
    <3> QED BY <2>1, <2>3, <3>1
  <2> QED BY <2>2, <2>3
<1>10. t.entries = t.closes + Cardinality(t.pos) /\ t.closes = t.wins + t.losses
  BY <1>7, <1>5, <1>8 DEF Sound
<1>11. Len(t.trades) \in AtMost(t.closes, KeepSaved) .. AtMost(t.closes, MaxKept)
  <2>1. /\ Len(s.trades) \in AtMost(s.closes, KeepSaved) .. AtMost(s.closes, MaxKept)
        /\ Len(s.trades) \in Nat /\ KeepSaved \in Nat /\ MaxKept \in Nat
        /\ KeepSaved <= MaxKept
    BY <1>1, ShadowAssumption DEF Sound
  <2>2. Len(t.trades) = AtMost(Len(s.trades) + 1, MaxKept) /\ t.closes = s.closes + 1
    BY <1>4, <1>7
  <2> QED BY <1>5, <2>1, <2>2 DEF AtMost
<1>12. \A a, b \in t.pos : KeyOf(a) = KeyOf(b) => a = b
  BY <1>7 DEF Sound
<1>13. Cardinality(t.marks) + t.leCloses <= t.leEntries
  BY <1>7, <1>5, <1>9 DEF Sound
<1>14. Sound(t)
  BY <1>7, <1>8, <1>9, <1>10, <1>11, <1>12, <1>13 DEF Sound
<1> QED BY <1>7, <1>14 DEF t

(* Another mark costs another live-equivalent entry.                       *)
LEMMA MarkedSound ==
    ASSUME NEW s, Sound(s), NEW p \in PosKey
    PROVE  LET t == [s EXCEPT !.marks = @ \cup {p}, !.leEntries = @ + 1]
           IN  Sound(t) /\ t.pos = s.pos
<1> DEFINE t == [s EXCEPT !.marks = @ \cup {p}, !.leEntries = @ + 1]
<1>1. s \in Book
  BY DEF Sound
<1>2. /\ t.marks = s.marks \cup {p} /\ t.leEntries = s.leEntries + 1
      /\ t.pos = s.pos /\ t.trades = s.trades /\ t.entries = s.entries
      /\ t.closes = s.closes /\ t.wins = s.wins /\ t.losses = s.losses
      /\ t.leCloses = s.leCloses /\ t \in Book
  <2>1. s.marks \cup {p} \in SUBSET PosKey /\ s.leEntries + 1 \in Nat
    BY <1>1 DEF Book
  <2>2. t = [s EXCEPT !.marks = s.marks \cup {p}, !.leEntries = s.leEntries + 1]
    OBVIOUS
  <2>3. t \in Book
    BY <1>1, <2>1, <2>2 DEF Book
  <2>4. /\ t.marks = s.marks \cup {p} /\ t.leEntries = s.leEntries + 1
        /\ t.pos = s.pos /\ t.trades = s.trades /\ t.entries = s.entries
        /\ t.closes = s.closes /\ t.wins = s.wins /\ t.losses = s.losses
        /\ t.leCloses = s.leCloses
    BY <1>1, <2>2 DEF Book
  <2> QED BY <2>3, <2>4
<1>3. IsFiniteSet(s.marks) /\ Cardinality(s.marks) \in Nat
  BY FS_CardinalityType DEF Sound
<1>4. /\ IsFiniteSet(s.marks \cup {p})
      /\ Cardinality(s.marks \cup {p}) \in {Cardinality(s.marks), Cardinality(s.marks) + 1}
  BY <1>3, FS_AddElement
<1>5. s.leEntries \in Nat /\ s.leCloses \in Nat
  BY <1>1 DEF Book
<1> HIDE DEF t
<1>6. Cardinality(t.marks) + t.leCloses <= t.leEntries
  BY <1>2, <1>3, <1>4, <1>5 DEF Sound
<1>7. Sound(t)
  BY <1>2, <1>4, <1>6 DEF Sound
<1> QED BY <1>2, <1>7 DEF t

(* The file gets the newest trades only.                                   *)
LEMMA SavedSound ==
    ASSUME NEW s, Sound(s)
    PROVE  Sound([s EXCEPT !.trades = Newest(@, KeepSaved)])
<1> DEFINE t == [s EXCEPT !.trades = Newest(@, KeepSaved)]
<1>1. s \in Book /\ s.trades \in Seq(Trade) /\ s.closes \in Nat
  BY DEF Sound, Book
<1>2. /\ Newest(s.trades, KeepSaved) \in Seq(Trade)
      /\ Len(Newest(s.trades, KeepSaved)) = AtMost(Len(s.trades), KeepSaved)
  BY <1>1, NewestLength, ShadowAssumption
<1>3. /\ t.trades = Newest(s.trades, KeepSaved)
      /\ t.pos = s.pos /\ t.entries = s.entries
      /\ t.closes = s.closes /\ t.wins = s.wins /\ t.losses = s.losses
      /\ t.marks = s.marks /\ t.leEntries = s.leEntries
      /\ t.leCloses = s.leCloses /\ t \in Book
  BY <1>1, <1>2 DEF Book
<1> HIDE DEF t
<1>4. Len(t.trades) \in AtMost(t.closes, KeepSaved) .. AtMost(t.closes, MaxKept)
  <2>1. /\ Len(s.trades) \in AtMost(s.closes, KeepSaved) .. AtMost(s.closes, MaxKept)
        /\ Len(s.trades) \in Nat /\ KeepSaved \in Nat /\ MaxKept \in Nat
        /\ KeepSaved <= MaxKept
    BY <1>1, ShadowAssumption DEF Sound
  <2> QED BY <1>1, <1>2, <1>3, <2>1 DEF AtMost
<1>5. Sound(t)
  BY <1>3, <1>4 DEF Sound
<1> QED BY <1>5 DEF t

-----------------------------------------------------------------------------
(* The tracker with its file *)

Held == [todo : {"save", "open"}, then : PosKey \cup {None}]

(* The holder of m_mtx opens, in the end, a position whose symbol and time *)
(* frame it has itself freed; nobody else touches the books until then.    *)
HolderInv ==
    /\ holder = None \/ holder \in Held
    /\ holder # None => phase = "up"
    /\ holder # None /\ holder.todo = "open" => holder.then # None
    /\ holder # None /\ holder.then # None =>
         \A q \in shadow.pos : KeyOf(q) # KeyOf(holder.then)

TrackerInv ==
    /\ Sound(shadow) /\ \A s \in shadowFile : Sound(s)
    /\ pipeline \in [Workers -> PosKey \cup {None}]
    /\ HolderInv

LEMMA FileSound ==
    ASSUME \A f \in shadowFile : Sound(f), NEW s, Sound(s), SaveShadow(s) \/ MaybeSave(s)
    PROVE  \A f \in shadowFile' : Sound(f)
<1>1. ASSUME SaveShadow(s) PROVE \A f \in shadowFile' : Sound(f)
  BY <1>1, SavedSound DEF SaveShadow
<1>2. ASSUME MaybeSave(s), ~SaveShadow(s) PROVE \A f \in shadowFile' : Sound(f)
  BY <1>2 DEF MaybeSave
<1> QED BY <1>1, <1>2

LEMMA KeyTypes ==
    ASSUME NEW sym \in Symbols, NEW tf \in TimeFrames, NEW side \in Sides
    PROVE  /\ Key(sym, TrackerTf(tf), side) \in PosKey
           /\ Key(sym, EngineTf(tf), side) \in PosKey
           /\ Key(sym, TrackerTf(tf), side).side = side
BY DEF Key, PosKey, Tfs

(* In one symbol and time frame there are two keys.                        *)
LEMMA TwoSides ==
    ASSUME NEW p \in PosKey
    PROVE  LET o == [p EXCEPT !.side = Opposite(p.side)]
           IN  /\ o \in PosKey /\ KeyOf(o) = KeyOf(p) /\ o # p
               /\ \A q \in PosKey : KeyOf(q) = KeyOf(p) => q = p \/ q = o
<1> DEFINE o == [p EXCEPT !.side = Opposite(p.side)]
<1>1. PICK a, b \in Sides : a # b /\ Sides = {a, b}
  BY ShadowAssumption
<1>2. p.side \in Sides
  BY DEF PosKey
<1>3. \E x \in Sides : x # p.side
  BY <1>1, <1>2
<1>4. Opposite(p.side) \in Sides /\ Opposite(p.side) # p.side
  BY <1>3 DEF Opposite
<1>5. \A c \in Sides : c = p.side \/ c = Opposite(p.side)
  BY <1>1, <1>2, <1>4
<1> DEFINE other == Opposite(p.side)
<1> HIDE DEF other
<1>6. other \in Sides /\ other # p.side /\ \A c \in Sides : c = p.side \/ c = other
  BY <1>4, <1>5 DEF other
<1>7. o = [p EXCEPT !.side = other]
  BY DEF other
<1> HIDE DEF o
<1>8. /\ o \in PosKey /\ o.sym = p.sym /\ o.tf = p.tf /\ o.side = other
  BY <1>6, <1>7 DEF PosKey
<1>9. \A q \in PosKey : q = [sym |-> q.sym, tf |-> q.tf, side |-> q.side] /\ q.side \in Sides
  BY DEF PosKey
<1>10. ASSUME NEW q \in PosKey, KeyOf(q) = KeyOf(p) PROVE q = p \/ q = o
  <2>1. q.sym = p.sym /\ q.tf = p.tf
    BY <1>10 DEF KeyOf
  <2>2. q.side = p.side \/ q.side = other
    BY <1>6, <1>9
  <2>3. CASE q.side = p.side
    BY <1>9, <2>1, <2>3
  <2>4. CASE q.side = other
    BY <1>8, <1>9, <2>1, <2>4
  <2> QED BY <2>2, <2>3, <2>4
<1>11. KeyOf(o) = KeyOf(p) /\ o # p
  BY <1>6, <1>8 DEF KeyOf
<1> QED BY <1>8, <1>10, <1>11 DEF o

LEMMA TrackerInit == Init => TrackerInv
<1> SUFFICES ASSUME Init PROVE TrackerInv
  OBVIOUS
<1>1. pipeline \in [Workers -> PosKey \cup {None}]
  BY DEF Init
<1> QED BY <1>1, NoShadowSound DEF Init, TrackerInv, HolderInv

LEMMA HandedType ==
    ASSUME TrackerInv, NEW w \in Workers, NEW sym \in Symbols, NEW tf \in TimeFrames,
           NEW side \in Sides, Handed(w, sym, tf, side)
    PROVE  pipeline' \in [Workers -> PosKey \cup {None}]
BY KeyTypes DEF TrackerInv, Handed

(* A close in the first of its steps; then may only name the symbol and    *)
(* time frame of the position that goes.                                   *)
LEMMA CloseStep ==
    ASSUME TrackerInv, Free, NEW p \in shadow.pos, NEW win \in BOOLEAN,
           NEW then \in PosKey \cup {None}, ClosePosition(p, win, then),
           then # None => KeyOf(then) = KeyOf(p),
           pipeline' \in [Workers -> PosKey \cup {None}], phase' = phase
    PROVE  TrackerInv'
<1>1. Sound(shadow) /\ \A s \in shadowFile : Sound(s)
  BY DEF TrackerInv
<1>2. shadow' = Closed(shadow, p, win) /\ shadowFile' = shadowFile
  BY DEF ClosePosition
<1>3. Sound(shadow') /\ shadow'.pos = shadow.pos \ {p}
  BY <1>1, <1>2, ClosedSound
<1>4. \A q \in shadow.pos : KeyOf(q) = KeyOf(p) => q = p
  BY <1>1 DEF Sound
<1>5. HolderInv'
  <2>1. holder' = [todo |-> "save", then |-> then]
    BY DEF ClosePosition
  <2>2. holder' \in Held /\ holder'.todo = "save" /\ holder'.then = then
    BY <2>1 DEF Held
  <2>3. phase' = "up"
    BY DEF Free
  <2>4. then # None => \A q \in shadow'.pos : KeyOf(q) # KeyOf(then)
    BY <1>3, <1>4
  <2> QED BY <2>2, <2>3, <2>4 DEF HolderInv
<1> QED BY <1>1, <1>2, <1>3, <1>5 DEF TrackerInv

(* An entry that the tracker does not have, in either direction.           *)
LEMMA OpenStep ==
    ASSUME TrackerInv, NEW p \in PosKey, \A q \in shadow.pos : KeyOf(q) # KeyOf(p),
           Open(p), holder' = None, pipeline' \in [Workers -> PosKey \cup {None}]
    PROVE  TrackerInv'
<1>1. Sound(shadow) /\ \A s \in shadowFile : Sound(s)
  BY DEF TrackerInv
<1>2. shadow' = Opened(shadow, p) /\ MaybeSave(Opened(shadow, p))
  BY DEF Open
<1>3. Sound(shadow')
  BY <1>1, <1>2, OpenedSound
<1>4. \A s \in shadowFile' : Sound(s)
  BY <1>1, <1>2, <1>3, FileSound
<1>5. HolderInv'
  BY DEF HolderInv
<1> QED BY <1>3, <1>4, <1>5 DEF TrackerInv

LEMMA TrackKnownStep ==
    ASSUME TrackerInv, NEW w \in Workers, NEW sym \in Symbols, NEW tf \in TimeFrames,
           NEW side \in Sides, TrackKnown(w, sym, tf, side)
    PROVE  TrackerInv'
<1>1. pipeline' \in [Workers -> PosKey \cup {None}]
  BY HandedType DEF TrackKnown
<1> QED BY <1>1 DEF TrackKnown, trackerVars, TrackerInv, HolderInv

LEMMA TrackEntryStep ==
    ASSUME TrackerInv, NEW w \in Workers, NEW sym \in Symbols, NEW tf \in TimeFrames,
           NEW side \in Sides, TrackEntry(w, sym, tf, side)
    PROVE  TrackerInv'
<1> DEFINE p == Key(sym, TrackerTf(tf), side)
<1>1. p \in PosKey /\ p.side = side
  BY KeyTypes
<1>2. /\ p \notin shadow.pos /\ [p EXCEPT !.side = Opposite(side)] \notin shadow.pos
      /\ Open(p) /\ holder' = None /\ Handed(w, sym, tf, side)
  BY DEF TrackEntry, Free
<1> HIDE DEF p
<1>3. pipeline' \in [Workers -> PosKey \cup {None}]
  BY <1>2, HandedType
<1>4. shadow.pos \subseteq PosKey
  BY DEF TrackerInv, Sound, Book
<1>5. \A q \in shadow.pos : KeyOf(q) # KeyOf(p)
  BY <1>1, <1>2, <1>4, TwoSides
<1> QED BY <1>1, <1>2, <1>3, <1>5, OpenStep

LEMMA TrackReversalStep ==
    ASSUME TrackerInv, NEW w \in Workers, NEW sym \in Symbols, NEW tf \in TimeFrames,
           NEW side \in Sides, NEW win \in BOOLEAN,
           TrackReversal(w, sym, tf, side, win)
    PROVE  TrackerInv'
<1> DEFINE p == Key(sym, TrackerTf(tf), side)
           o == [p EXCEPT !.side = Opposite(side)]
<1>1. p \in PosKey /\ p.side = side
  BY KeyTypes
<1>2. /\ o \in shadow.pos /\ ClosePosition(o, win, p) /\ Free
      /\ Handed(w, sym, tf, side) /\ phase' = phase
  BY DEF TrackReversal
<1> HIDE DEF p
<1>3. KeyOf(o) = KeyOf(p)
  BY <1>1, TwoSides
<1>4. pipeline' \in [Workers -> PosKey \cup {None}]
  BY <1>2, HandedType
<1> HIDE DEF o
<1> QED BY <1>1, <1>2, <1>3, <1>4, CloseStep

LEMMA TrackExitStep ==
    ASSUME TrackerInv, NEW sym \in Symbols, NEW tf \in TimeFrames, NEW side \in Sides,
           NEW win \in BOOLEAN, TrackExit(sym, tf, side, win)
    PROVE  TrackerInv'
<1>1. PICK p \in Matching(sym, tf, side) : ClosePosition(p, win, None)
  BY DEF TrackExit
<1>2. p \in shadow.pos
  BY DEF Matching
<1>3. Free /\ phase' = phase /\ pipeline' = pipeline
  BY DEF TrackExit
<1>4. pipeline' \in [Workers -> PosKey \cup {None}]
  BY <1>3 DEF TrackerInv
<1> QED BY <1>1, <1>2, <1>3, <1>4, CloseStep

LEMMA SaveAfterCloseStep == ASSUME TrackerInv, SaveAfterClose PROVE TrackerInv'
<1>1. \A s \in shadowFile' : Sound(s)
  BY FileSound DEF TrackerInv, SaveAfterClose
<1>2. HolderInv'
  <2>1. /\ holder \in Held /\ holder # None /\ holder.todo = "save" /\ phase = "up"
        /\ phase' = phase /\ shadow' = shadow
    BY DEF TrackerInv, HolderInv, SaveAfterClose
  <2>2. CASE holder.then = None
    BY <2>2 DEF HolderInv, SaveAfterClose
  <2>3. CASE holder.then # None
    <3>1. holder' = [holder EXCEPT !.todo = "open"]
      BY <2>3 DEF SaveAfterClose
    <3>2. holder' \in Held /\ holder'.then = holder.then
      BY <2>1, <3>1 DEF Held
    <3> QED BY <2>1, <2>3, <3>2 DEF HolderInv, TrackerInv
  <2> QED BY <2>2, <2>3
<1> QED BY <1>1, <1>2 DEF TrackerInv, SaveAfterClose

LEMMA OpenReversedStep == ASSUME TrackerInv, OpenReversed PROVE TrackerInv'
<1>1. holder # None /\ holder.todo = "open" /\ Open(holder.then) /\ holder' = None
  BY DEF OpenReversed
<1>2. /\ holder.then \in PosKey
      /\ \A q \in shadow.pos : KeyOf(q) # KeyOf(holder.then)
  BY <1>1 DEF TrackerInv, HolderInv, Held
<1>3. pipeline' \in [Workers -> PosKey \cup {None}]
  BY DEF TrackerInv, OpenReversed
<1> QED BY <1>1, <1>2, <1>3, OpenStep

LEMMA MarkStep == ASSUME TrackerInv, NEW w \in Workers, Mark(w) PROVE TrackerInv'
<1>1. pipeline[w] \in PosKey
  BY DEF TrackerInv, Mark
<1>2. Sound(shadow') /\ shadow'.pos = shadow.pos
  BY <1>1, MarkedSound DEF TrackerInv, Mark
<1>3. pipeline' \in [Workers -> PosKey \cup {None}]
  BY DEF TrackerInv, Mark
<1>4. HolderInv'
  BY DEF HolderInv, Mark, Free
<1> QED BY <1>2, <1>3, <1>4 DEF TrackerInv, Mark

LEMMA FilteredOutStep == ASSUME TrackerInv, NEW w \in Workers, FilteredOut(w) PROVE TrackerInv'
BY DEF TrackerInv, HolderInv, FilteredOut, trackerVars

LEMMA PeriodicSaveStep == ASSUME TrackerInv, PeriodicSave PROVE TrackerInv'
<1>1. \A s \in shadowFile' : Sound(s)
  BY FileSound DEF TrackerInv, PeriodicSave
<1> QED BY <1>1 DEF TrackerInv, HolderInv, PeriodicSave

LEMMA EndStep == ASSUME TrackerInv, End PROVE TrackerInv'
<1>1. Sound(shadow')
  BY NoShadowSound DEF End
<1> QED BY <1>1 DEF TrackerInv, HolderInv, End

LEMMA LoadStep == ASSUME TrackerInv, Load PROVE TrackerInv'
<1>1. Sound(shadow')
  BY NoShadowSound DEF Load, TrackerInv
<1>2. holder = None
  BY DEF TrackerInv, HolderInv, Load
<1> QED BY <1>1, <1>2 DEF TrackerInv, HolderInv, Load

LEMMA StartWorkersStep == ASSUME TrackerInv, StartWorkers PROVE TrackerInv'
BY DEF TrackerInv, HolderInv, StartWorkers, trackerVars

LEMMA TrackerNext == TrackerInv /\ [Next]_vars => TrackerInv'
<1> SUFFICES ASSUME TrackerInv, [Next]_vars PROVE TrackerInv'
  OBVIOUS
<1>1. ASSUME NEW sym \in Symbols, NEW tf \in TimeFrames, NEW side \in Sides,
             NEW w \in Workers, TrackKnown(w, sym, tf, side) \/ TrackEntry(w, sym, tf, side)
      PROVE TrackerInv'
  BY <1>1, TrackKnownStep, TrackEntryStep
<1>2. ASSUME NEW sym \in Symbols, NEW tf \in TimeFrames, NEW side \in Sides,
             NEW win \in BOOLEAN,
             \/ \E w \in Workers : TrackReversal(w, sym, tf, side, win)
             \/ TrackExit(sym, tf, side, win)
      PROVE TrackerInv'
  BY <1>2, TrackReversalStep, TrackExitStep
<1>3. ASSUME SaveAfterClose \/ OpenReversed PROVE TrackerInv'
  BY <1>3, SaveAfterCloseStep, OpenReversedStep
<1>4. ASSUME NEW w \in Workers, Mark(w) \/ FilteredOut(w) PROVE TrackerInv'
  BY <1>4, MarkStep, FilteredOutStep
<1>5. ASSUME NEW k \in EngineKey, NEW win \in BOOLEAN,
             EngineTrade(k, win) \/ ImportTrade(k, win)
      PROVE TrackerInv'
  BY <1>5 DEF EngineTrade, ImportTrade, Teach, trackerVars, TrackerInv, HolderInv
<1>6. CASE PeriodicSave
  BY <1>6, PeriodicSaveStep
<1>7. CASE Crash \/ Stop
  BY <1>7, EndStep DEF Crash, Stop
<1>8. CASE Load
  BY <1>8, LoadStep
<1>9. CASE StartWorkers
  BY <1>9, StartWorkersStep
<1>10. CASE Tick
  BY <1>10 DEF Tick, trackerVars, TrackerInv, HolderInv
<1>11. CASE Bootstrap \/ SaveEngine
  BY <1>11 DEF Bootstrap, SaveEngine, trackerVars, TrackerInv, HolderInv
<1>12. CASE UNCHANGED vars
  BY <1>12 DEF vars, TrackerInv, HolderInv
<1> QED
  BY <1>1, <1>2, <1>3, <1>4, <1>5, <1>6, <1>7, <1>8, <1>9, <1>10, <1>11, <1>12 DEF Next

LEMMA TrackerAlways == Spec => []TrackerInv
BY TrackerInit, TrackerNext, PTL DEF Spec

(* The books of the paper trades balance, in memory and in an intact file, *)
(* whatever was lost, cut off or written in halves (shadow_tracker.hpp).   *)
THEOREM LedgerBalances == Spec => []ShadowLedger
<1>1. TrackerInv => ShadowLedger
  BY DEF TrackerInv, Sound, ShadowLedger, Books
<1> QED BY <1>1, TrackerAlways, PTL

(* A reversal that is cut between its close and its entry, and any other   *)
(* sequence of entries, exits, marks and reloads, leaves at most one side  *)
(* open per symbol and time frame.                                         *)
THEOREM OneSide == Spec => []NoOppositeSides
<1>1. TrackerInv => NoOppositeSides
  BY DEF TrackerInv, Sound, NoOppositeSides, Books
<1> QED BY <1>1, TrackerAlways, PTL

(* The marks of mark_live_equivalent, which comes long after the entry it  *)
(* is for and may find that entry closed, are never booked twice.          *)
THEOREM MarksCovered == Spec => []LiveEquivalentSound
<1>1. TrackerInv => LiveEquivalentSound
  BY DEF TrackerInv, Sound, LiveEquivalentSound, Books
<1> QED BY <1>1, TrackerAlways, PTL

-----------------------------------------------------------------------------
(* What the learner keeps for one key *)

Learned == [total : Nat, wins : Nat, losses : Nat, streak : Nat, worst : Nat,
            until : Int, black : BOOLEAN, sessions : [Sessions -> [w : Nat, t : Nat]],
            ring : [0 .. RecentWindow - 1 -> BOOLEAN], idx : 0 .. RecentWindow - 1,
            count : 0 .. RecentWindow, hist : Seq(BOOLEAN), when : Seq(Sessions),
            lossAt : Nat]

(* The blacklist after the whole record, of w wins in n trades.            *)
Verdict(before, w, n) ==
    IF n < BlacklistMin THEN before
    ELSE \/ 4 * w < n
         \/ before /\ 10 * w < 3 * n

LEMMA CooldownType == ASSUME NEW n \in Nat, n >= CooldownStreak PROVE Cooldown(n) \in Int
<1> DEFINE k == AtMost(n - CooldownStreak, 3)
<1>1. k \in Nat
  BY LearnerAssumption DEF AtMost
<1> HIDE DEF k
<1>2. 2 ^ k \in Int
  BY <1>1
<1>3. CooldownBase * 2 ^ k \in Int
  BY <1>2, LearnerAssumption
<1> QED BY <1>3 DEF Cooldown, k

LEMMA UnseenType == Unseen \in Learned
BY LearnerAssumption DEF Unseen, Learned

(* What one more trade does to each of the figures.                        *)
RecordedAs(d, t, win, session, time) ==
    /\ t \in Learned
    /\ t.total = d.total + 1 /\ t.hist = Append(d.hist, win)
    /\ t.when = Append(d.when, session)
    /\ t.sessions = [d.sessions EXCEPT ![session] = Tally(@, win)]
    /\ t.wins = d.wins + (IF win THEN 1 ELSE 0)
    /\ t.losses = d.losses + (IF win THEN 0 ELSE 1)
    /\ t.streak = IF win THEN 0 ELSE d.streak + 1
    /\ t.worst = IF t.streak > d.worst THEN t.streak ELSE d.worst
    /\ t.ring = [d.ring EXCEPT ![d.idx] = win]
    /\ t.idx = (d.idx + 1) % RecentWindow
    /\ t.count = AtMost(d.count + 1, RecentWindow)
    /\ t.lossAt = IF win THEN d.lossAt ELSE time
    /\ t.until = IF t.streak >= CooldownStreak THEN time + Cooldown(t.streak) ELSE d.until
    /\ t.black = Verdict(d.black, t.wins, t.total)

LEMMA Recorded ==
    ASSUME NEW d \in Learned, NEW win \in BOOLEAN, NEW session \in Sessions,
           NEW time \in Nat
    PROVE  RecordedAs(d, RecordTrade(d, win, session, time), win, session, time)
<1> DEFINE total == d.total + 1
           wins == d.wins + (IF win THEN 1 ELSE 0)
           losses == d.losses + (IF win THEN 0 ELSE 1)
           streak == IF win THEN 0 ELSE d.streak + 1
           worst == IF streak > d.worst THEN streak ELSE d.worst
           sessions == [d.sessions EXCEPT ![session] = Tally(@, win)]
           ring == [d.ring EXCEPT ![d.idx] = win]
           idx == (d.idx + 1) % RecentWindow
           count == AtMost(d.count + 1, RecentWindow)
           hist == Append(d.hist, win)
           when == Append(d.when, session)
           lossAt == IF win THEN d.lossAt ELSE time
           until == IF streak >= CooldownStreak THEN time + Cooldown(streak) ELSE d.until
           black == Verdict(d.black, wins, total)
           e == [d EXCEPT !.total = total, !.wins = wins, !.losses = losses,
                          !.streak = streak, !.worst = worst, !.sessions = sessions,
                          !.ring = ring, !.idx = idx, !.count = count, !.hist = hist,
                          !.when = when, !.lossAt = lossAt]
<1>1. /\ d.total \in Nat /\ d.wins \in Nat /\ d.losses \in Nat /\ d.streak \in Nat
      /\ d.worst \in Nat /\ d.until \in Int /\ d.black \in BOOLEAN /\ d.lossAt \in Nat
  BY DEF Learned
<1>2. /\ d.sessions \in [Sessions -> [w : Nat, t : Nat]]
      /\ d.ring \in [0 .. RecentWindow - 1 -> BOOLEAN]
      /\ d.idx \in 0 .. RecentWindow - 1 /\ d.count \in 0 .. RecentWindow
      /\ d.hist \in Seq(BOOLEAN) /\ d.when \in Seq(Sessions)
  BY DEF Learned
<1>3. /\ total \in Nat /\ wins \in Nat /\ losses \in Nat /\ streak \in Nat /\ worst \in Nat
      /\ lossAt \in Nat
  BY <1>1
<1>4. sessions \in [Sessions -> [w : Nat, t : Nat]]
  BY <1>2 DEF Tally
<1>5. /\ ring \in [0 .. RecentWindow - 1 -> BOOLEAN] /\ hist \in Seq(BOOLEAN)
      /\ when \in Seq(Sessions)
  BY <1>2
<1>6. idx \in 0 .. RecentWindow - 1 /\ count \in 0 .. RecentWindow
  <2>1. idx \in 0 .. RecentWindow - 1
    <3>1. d.idx + 1 \in Nat /\ RecentWindow \in Nat \ {0}
      BY <1>2, LearnerAssumption
    <3> QED BY <3>1
  <2>2. count \in 0 .. RecentWindow
    BY <1>2, LearnerAssumption DEF AtMost
  <2> QED BY <2>1, <2>2
<1>7. until \in Int
  BY <1>1, <1>3, CooldownType
<1>8. black \in BOOLEAN
  BY <1>1 DEF Verdict
<1>9. RecordTrade(d, win, session, time) = UpdateFilters(e, time)
  BY DEF RecordTrade
<1> HIDE DEF total, wins, losses, streak, worst, sessions, ring, idx, count, hist, when,
             lossAt
<1>10. e \in Learned
  BY <1>3, <1>4, <1>5, <1>6 DEF Learned
<1>11. /\ e.total = total /\ e.wins = wins /\ e.streak = streak
       /\ e.until = d.until /\ e.black = d.black
  BY DEF Learned
<1>12. /\ e.losses = losses /\ e.worst = worst /\ e.ring = ring /\ e.idx = idx
       /\ e.count = count /\ e.hist = hist /\ e.when = when /\ e.lossAt = lossAt
       /\ e.sessions = sessions
  BY DEF Learned
<1> HIDE DEF e
<1>13. UpdateFilters(e, time) = [e EXCEPT !.until = until, !.black = black]
  <2>1. (IF e.streak >= CooldownStreak THEN time + Cooldown(e.streak) ELSE e.until) = until
    BY <1>11
  <2>2. Verdict(e.black, e.wins, e.total) = black
    BY <1>11
  <2> HIDE DEF until, black
  <2>3. UpdateFilters(e, time) =
          [e EXCEPT !.until = IF e.streak >= CooldownStreak THEN time + Cooldown(e.streak)
                              ELSE e.until,
                    !.black = Verdict(e.black, e.wins, e.total)]
    BY DEF UpdateFilters, Verdict
  <2> QED BY <2>1, <2>2, <2>3
<1> HIDE DEF until, black
<1> DEFINE t == [e EXCEPT !.until = until, !.black = black]
<1>14. t \in Learned
  BY <1>7, <1>8, <1>10 DEF Learned
<1>15. /\ t.until = until /\ t.black = black /\ t.total = e.total /\ t.wins = e.wins
       /\ t.streak = e.streak /\ t.losses = e.losses /\ t.worst = e.worst
       /\ t.ring = e.ring /\ t.idx = e.idx /\ t.count = e.count /\ t.hist = e.hist
       /\ t.when = e.when /\ t.lossAt = e.lossAt /\ t.sessions = e.sessions
  BY <1>10 DEF Learned
<1>16. RecordTrade(d, win, session, time) = t
  BY <1>9, <1>13
<1> HIDE DEF t
<1>17. RecordedAs(d, t, win, session, time)
  BY <1>11, <1>12, <1>14, <1>15
  DEF RecordedAs, total, wins, losses, streak, worst, sessions, ring, idx, count, hist, when,
      lossAt, until, black
<1> QED BY <1>16, <1>17

(* The figures against the history of a key.  The ring holds the last      *)
(* count outcomes, from the slot after the newest one on; while it is not  *)
(* full they lie at its start, and a reload loses none of them.            *)
Slot(j) == IF j < 0 THEN j + RecentWindow ELSE j

Counts(d) ==
    /\ d.total = Len(d.hist) /\ d.losses = Losses(d.hist)
    /\ d.wins = Len(d.hist) - d.losses

Streaks(d) ==
    /\ d.streak <= Len(d.hist) /\ EndsInLosses(d.hist, d.streak)
    /\ d.streak < Len(d.hist) => d.hist[Len(d.hist) - d.streak]
    /\ d.worst >= d.streak
    /\ d.worst = 0 \/ \E k \in d.worst .. Len(d.hist) :
                         EndsInLosses(SubSeq(d.hist, 1, k), d.worst)

Windowed(d) ==
    /\ d.count = AtMost(Len(d.hist), RecentWindow)
    /\ d.count < RecentWindow => d.idx = d.count
    /\ \A i \in 1 .. d.count :
         d.ring[Slot(d.idx - d.count + i - 1)] = d.hist[Len(d.hist) - d.count + i]

Filtered(d) ==
    /\ d.streak >= CooldownStreak => d.until = d.lossAt + Cooldown(d.streak)
    /\ d.total >= BlacklistMin /\ 4 * d.wins < d.total => d.black
    /\ d.black => /\ 10 * d.wins < 3 * d.total
                  /\ \E n \in BlacklistMin .. d.total :
                        4 * (n - Losses(SubSeq(d.hist, 1, n))) < n

Tallied(d) ==
    /\ Len(d.when) = Len(d.hist)
    /\ \A s \in Sessions : d.sessions[s] = TalliedFrom(d.hist, d.when, s)

Faithful(d) ==
    d \in Learned /\ Counts(d) /\ Streaks(d) /\ Windowed(d) /\ Filtered(d) /\ Tallied(d)

LEMMA LossesType ==
    ASSUME NEW h \in Seq(BOOLEAN)
    PROVE  Losses(h) \in Nat /\ IsFiniteSet({i \in 1 .. Len(h) : ~h[i]})
<1>1. Len(h) \in Nat
  BY LenProperties
<1>2. IsFiniteSet(1 .. Len(h))
  BY <1>1, FS_Interval
<1>3. IsFiniteSet({i \in 1 .. Len(h) : ~h[i]})
  BY <1>2, FS_Subset
<1> QED BY <1>3, FS_CardinalityType DEF Losses

LEMMA LossesAppend ==
    ASSUME NEW h \in Seq(BOOLEAN), NEW win \in BOOLEAN
    PROVE  Losses(Append(h, win)) = Losses(h) + (IF win THEN 0 ELSE 1)
<1> DEFINE n == Len(h)
           g == Append(h, win)
           L == {i \in 1 .. n : ~h[i]}
<1>1. n \in Nat /\ Len(g) = n + 1 /\ g[n + 1] = win /\ \A i \in 1 .. n : g[i] = h[i]
  BY AppendProperties, LenProperties
<1>2. IsFiniteSet(L) /\ Losses(h) = Cardinality(L) /\ Cardinality(L) \in Nat
  BY LossesType DEF Losses
<1>3. Losses(g) = Cardinality({i \in 1 .. n + 1 : ~g[i]})
  BY <1>1 DEF Losses
<1> HIDE DEF g, n
<1>4. CASE win = TRUE
  <2>1. g[n + 1] = TRUE
    BY <1>1, <1>4
  <2>2. ASSUME NEW i \in 1 .. n + 1 PROVE ~g[i] <=> i \in L
    <3>1. i \in 1 .. n \/ (i = n + 1 /\ i \notin 1 .. n)
      BY <1>1
    <3>2. CASE i \in 1 .. n
      <4>1. g[i] = h[i]
        BY <1>1, <3>2
      <4> QED BY <3>2, <4>1
    <3>3. CASE i = n + 1 /\ i \notin 1 .. n
      BY <2>1, <3>3
    <3> QED BY <3>1, <3>2, <3>3
  <2>3. {i \in 1 .. n + 1 : ~g[i]} = L
    BY <1>1, <2>2
  <2> HIDE DEF L
  <2>4. Losses(g) = Losses(h)
    BY <1>2, <1>3, <2>3
  <2> QED BY <1>2, <1>4, <2>4 DEF g
<1>5. CASE win = FALSE
  <2>1. {i \in 1 .. n + 1 : ~g[i]} = L \cup {n + 1}
    BY <1>1, <1>5
  <2>2. n + 1 \notin L
    BY <1>1
  <2> HIDE DEF L
  <2>3. Cardinality(L \cup {n + 1}) = Cardinality(L) + 1
    BY <1>2, <2>2, FS_AddElement
  <2> QED BY <1>2, <1>3, <1>5, <2>1, <2>3 DEF g
<1> QED BY <1>4, <1>5

(* The trades up to n that are counted, and perhaps the next one.          *)
LEMMA CountGrows ==
    ASSUME NEW n \in Nat, NEW A \in SUBSET (1 .. n), NEW more \in BOOLEAN
    PROVE  Cardinality(A \cup (IF more THEN {n + 1} ELSE {}))
             = Cardinality(A) + (IF more THEN 1 ELSE 0)
<1>1. IsFiniteSet(A) /\ n + 1 \notin A
  <2>1. IsFiniteSet(1 .. n)
    BY FS_Interval
  <2>2. IsFiniteSet(A)
    BY <2>1, FS_Subset
  <2>3. n + 1 \notin A
    OBVIOUS
  <2> QED BY <2>2, <2>3
<1>2. Cardinality(A) \in Nat
  BY <1>1, FS_CardinalityType
<1>3. CASE more = TRUE
  BY <1>1, <1>3, FS_AddElement
<1>4. CASE more = FALSE
  <2>1. A \cup (IF more THEN {n + 1} ELSE {}) = A
    BY <1>4
  <2> QED BY <1>2, <1>4, <2>1
<1> QED BY <1>3, <1>4

(* One more trade changes the tally of its own session only.               *)
LEMMA TalliedAppend ==
    ASSUME NEW h \in Seq(BOOLEAN), NEW q \in Seq(Sessions), Len(q) = Len(h),
           NEW win \in BOOLEAN, NEW session \in Sessions, NEW s \in Sessions
    PROVE  TalliedFrom(Append(h, win), Append(q, session), s) =
             IF s = session THEN Tally(TalliedFrom(h, q, s), win) ELSE TalliedFrom(h, q, s)
<1> DEFINE n == Len(h)
           g == Append(h, win)
           r == Append(q, session)
           here == s = session
           W == {i \in 1 .. n : q[i] = s /\ h[i]}
           T == {i \in 1 .. n : q[i] = s}
<1>1. /\ n \in Nat /\ Len(g) = n + 1 /\ g[n + 1] = win /\ r[n + 1] = session
      /\ \A i \in 1 .. n : g[i] = h[i] /\ r[i] = q[i] /\ i # n + 1
  BY AppendProperties, LenProperties
<1>2. TalliedFrom(h, q, s) = [w |-> Cardinality(W), t |-> Cardinality(T)]
  BY DEF TalliedFrom
<1>3. TalliedFrom(g, r, s) =
        [w |-> Cardinality({i \in 1 .. n + 1 : r[i] = s /\ g[i]}),
         t |-> Cardinality({i \in 1 .. n + 1 : r[i] = s})]
  BY <1>1 DEF TalliedFrom
<1> HIDE DEF n, g, r
<1>4. 1 .. n + 1 = (1 .. n) \cup {n + 1}
  BY <1>1
<1>5. {i \in 1 .. n + 1 : r[i] = s} = T \cup (IF here THEN {n + 1} ELSE {})
  BY <1>1, <1>4
<1>6. {i \in 1 .. n + 1 : r[i] = s /\ g[i]} = W \cup (IF here /\ win THEN {n + 1} ELSE {})
  BY <1>1, <1>4
<1>7. W \in SUBSET (1 .. n) /\ T \in SUBSET (1 .. n)
  OBVIOUS
<1> HIDE DEF W, T
<1>8. Cardinality(W) \in Nat /\ Cardinality(T) \in Nat
  <2>1. IsFiniteSet(1 .. n)
    BY <1>1, FS_Interval
  <2>2. IsFiniteSet(W) /\ IsFiniteSet(T)
    BY <1>7, <2>1, FS_Subset
  <2> QED BY <2>2, FS_CardinalityType
<1>9. TalliedFrom(g, r, s) = [w |-> Cardinality(W) + (IF here /\ win THEN 1 ELSE 0),
                             t |-> Cardinality(T) + (IF here THEN 1 ELSE 0)]
  <2>1. here \in BOOLEAN /\ (here /\ win) \in BOOLEAN
    OBVIOUS
  <2>2. Cardinality(T \cup (IF here THEN {n + 1} ELSE {}))
          = Cardinality(T) + (IF here THEN 1 ELSE 0)
    BY <1>1, <1>7, <2>1, CountGrows
  <2>3. Cardinality(W \cup (IF here /\ win THEN {n + 1} ELSE {}))
          = Cardinality(W) + (IF here /\ win THEN 1 ELSE 0)
    BY <1>1, <1>7, <2>1, CountGrows
  <2> QED BY <1>3, <1>5, <1>6, <2>2, <2>3
<1>10. CASE s = session
  BY <1>2, <1>9, <1>10 DEF Tally, g, r
<1>11. CASE s # session
  BY <1>2, <1>8, <1>9, <1>11 DEF g, r
<1> QED BY <1>10, <1>11

(* A longer history begins as it did.                                      *)
LEMMA PrefixKept ==
    ASSUME NEW h \in Seq(BOOLEAN), NEW win \in BOOLEAN, NEW n \in 0 .. Len(h)
    PROVE  SubSeq(Append(h, win), 1, n) = SubSeq(h, 1, n)
<1> DEFINE g == Append(h, win)
<1>1. /\ Len(h) \in Nat /\ g \in Seq(BOOLEAN) /\ Len(g) = Len(h) + 1
      /\ \A i \in 1 .. Len(h) : g[i] = h[i]
  BY AppendProperties, LenProperties
<1> HIDE DEF g
<1> QED BY <1>1 DEF g

LEMMA AppendFacts ==
    ASSUME NEW h \in Seq(BOOLEAN), NEW win \in BOOLEAN
    PROVE  /\ Len(h) \in Nat /\ Append(h, win) \in Seq(BOOLEAN)
           /\ Len(Append(h, win)) = Len(h) + 1 /\ Append(h, win)[Len(h) + 1] = win
           /\ \A i \in 1 .. Len(h) : Append(h, win)[i] = h[i]
BY AppendProperties, LenProperties

(* A loss prolongs the losses a history ends in.                           *)
LEMMA LossProlongs ==
    ASSUME NEW h \in Seq(BOOLEAN), NEW n \in 0 .. Len(h), EndsInLosses(h, n)
    PROVE  EndsInLosses(Append(h, FALSE), n + 1)
<1> DEFINE g == Append(h, FALSE)
<1>1. /\ Len(h) \in Nat /\ Len(g) = Len(h) + 1 /\ g[Len(h) + 1] = FALSE
      /\ \A i \in 1 .. Len(h) : g[i] = h[i]
  BY AppendFacts
<1> HIDE DEF g
<1>2. ASSUME NEW i \in Len(g) - (n + 1) + 1 .. Len(g) PROVE ~g[i]
  <2>1. i \in Len(h) - n + 1 .. Len(h) \/ i = Len(h) + 1
    BY <1>1, <1>2
  <2>2. CASE i \in Len(h) - n + 1 .. Len(h)
    <3>1. ~h[i]
      BY <2>2 DEF EndsInLosses
    <3>2. i \in 1 .. Len(h)
      BY <1>1, <2>2
    <3>3. g[i] = h[i]
      BY <1>1, <3>2
    <3> QED BY <3>1, <3>3
  <2>3. CASE i = Len(h) + 1
    BY <1>1, <2>3
  <2> QED BY <2>1, <2>2, <2>3
<1> QED BY <1>2 DEF EndsInLosses, g

LEMMA NoLosses == ASSUME NEW h \in Seq(BOOLEAN) PROVE EndsInLosses(h, 0)
<1>1. Len(h) \in Nat
  BY LenProperties
<1> QED BY <1>1 DEF EndsInLosses

(* The whole of a sequence.                                                *)
LEMMA WholeSeq == ASSUME NEW h \in Seq(BOOLEAN) PROVE SubSeq(h, 1, Len(h)) = h
<1>1. Len(h) \in Nat /\ h = [i \in 1 .. Len(h) |-> h[i]]
  BY LenProperties
<1>2. SubSeq(h, 1, Len(h)) = [i \in 1 .. Len(h) |-> h[i]]
  BY <1>1
<1> QED BY <1>1, <1>2

LEMMA CountsStep ==
    ASSUME NEW d \in Learned, Counts(d), NEW win \in BOOLEAN, NEW session \in Sessions,
           NEW time \in Nat
    PROVE  Counts(RecordTrade(d, win, session, time))
<1> DEFINE t == RecordTrade(d, win, session, time)
<1>1. /\ t.total = d.total + 1 /\ t.hist = Append(d.hist, win)
      /\ t.wins = d.wins + (IF win THEN 1 ELSE 0)
      /\ t.losses = d.losses + (IF win THEN 0 ELSE 1)
  <2>1. RecordedAs(d, t, win, session, time)
    BY Recorded
  <2> HIDE DEF t
  <2> QED BY <2>1 DEF RecordedAs
<1> HIDE DEF t
<1>2. /\ d.hist \in Seq(BOOLEAN) /\ d.total \in Nat /\ d.losses \in Nat /\ d.wins \in Nat
  BY DEF Learned
<1>3. /\ Len(t.hist) = Len(d.hist) + 1 /\ Len(d.hist) \in Nat
      /\ Losses(t.hist) = Losses(d.hist) + (IF win THEN 0 ELSE 1)
  BY <1>1, <1>2, AppendFacts, LossesAppend
<1> QED BY <1>1, <1>2, <1>3 DEF Counts, t

LEMMA StreaksStep ==
    ASSUME NEW d \in Learned, Streaks(d), NEW win \in BOOLEAN, NEW session \in Sessions,
           NEW time \in Nat
    PROVE  Streaks(RecordTrade(d, win, session, time))
<1> DEFINE t == RecordTrade(d, win, session, time)
           n == Len(d.hist)
<1>1. /\ t.hist = Append(d.hist, win) /\ t.streak = IF win THEN 0 ELSE d.streak + 1
      /\ t.worst = IF t.streak > d.worst THEN t.streak ELSE d.worst
  <2>1. RecordedAs(d, t, win, session, time)
    BY Recorded
  <2> HIDE DEF t
  <2> QED BY <2>1 DEF RecordedAs
<1> HIDE DEF t
<1>2. d.hist \in Seq(BOOLEAN) /\ d.streak \in Nat /\ d.worst \in Nat
  BY DEF Learned
<1>3. /\ n \in Nat /\ t.hist \in Seq(BOOLEAN) /\ Len(t.hist) = n + 1 /\ t.hist[n + 1] = win
      /\ \A i \in 1 .. n : t.hist[i] = d.hist[i]
  BY <1>1, <1>2, AppendFacts
<1> HIDE DEF n
<1>4. /\ d.streak <= n /\ EndsInLosses(d.hist, d.streak)
      /\ d.streak < n => d.hist[n - d.streak]
      /\ d.worst >= d.streak
      /\ d.worst = 0 \/ \E k \in d.worst .. n : EndsInLosses(SubSeq(d.hist, 1, k), d.worst)
  BY DEF Streaks, n
<1>5. t.streak \in Nat /\ t.streak <= n + 1 /\ t.worst \in Nat /\ t.worst >= t.streak
  BY <1>1, <1>2, <1>3, <1>4
<1>6. EndsInLosses(t.hist, t.streak)
  <2>1. CASE win = TRUE
    BY <1>1, <1>3, <2>1, NoLosses
  <2>2. CASE win = FALSE
    <3>1. d.streak \in 0 .. Len(d.hist)
      BY <1>2, <1>3, <1>4 DEF n
    <3>2. t.hist = Append(d.hist, FALSE) /\ t.streak = d.streak + 1
      BY <1>1, <2>2
    <3> QED BY <1>2, <1>4, <3>1, <3>2, LossProlongs
  <2> QED BY <2>1, <2>2
<1>7. ASSUME t.streak < n + 1 PROVE t.hist[n + 1 - t.streak]
  <2>1. CASE win = TRUE
    <3>1. t.streak = 0 /\ n + 1 - t.streak = n + 1
      BY <1>1, <1>3, <2>1
    <3>2. t.hist[n + 1] = TRUE
      BY <1>3, <2>1
    <3> QED BY <3>1, <3>2
  <2>2. CASE win = FALSE
    <3>1. t.streak = d.streak + 1
      BY <1>1, <2>2
    <3>2. d.streak < n /\ n + 1 - t.streak = n - d.streak /\ n - d.streak \in 1 .. n
      BY <1>2, <1>3, <1>7, <3>1
    <3>3. d.hist[n - d.streak] /\ t.hist[n - d.streak] = d.hist[n - d.streak]
      BY <1>3, <1>4, <3>2
    <3> QED BY <3>2, <3>3
  <2> QED BY <2>1, <2>2
<1>8. t.worst = 0 \/ \E k \in t.worst .. n + 1 : EndsInLosses(SubSeq(t.hist, 1, k), t.worst)
  <2>1. CASE t.streak > d.worst
    <3>1. t.worst = t.streak /\ n + 1 \in t.worst .. n + 1
      BY <1>1, <1>3, <1>5, <2>1
    <3>2. SubSeq(t.hist, 1, n + 1) = t.hist
      BY <1>3, WholeSeq
    <3> QED BY <1>6, <3>1, <3>2
  <2>2. CASE ~(t.streak > d.worst)
    <3>1. t.worst = d.worst
      BY <1>1, <2>2
    <3>2. CASE d.worst = 0
      BY <3>1, <3>2
    <3>3. CASE d.worst # 0
      <4>1. PICK k \in d.worst .. n : EndsInLosses(SubSeq(d.hist, 1, k), d.worst)
        BY <1>4, <3>3
      <4>2. k \in 0 .. Len(d.hist) /\ k \in d.worst .. n + 1
        BY <1>2, <1>3 DEF n
      <4>3. SubSeq(t.hist, 1, k) = SubSeq(d.hist, 1, k)
        BY <1>1, <1>2, <4>2, PrefixKept
      <4> QED BY <3>1, <4>1, <4>2, <4>3
    <3> QED BY <3>2, <3>3
  <2> QED BY <2>1, <2>2
<1> QED BY <1>3, <1>5, <1>6, <1>7, <1>8 DEF Streaks, t

LEMMA SlotMod ==
    ASSUME NEW j \in -RecentWindow .. RecentWindow - 1
    PROVE  (j + RecentWindow) % RecentWindow = Slot(j)
<1>1. RecentWindow \in Nat \ {0}
  BY LearnerAssumption
<1>2. \A a \in 0 .. RecentWindow - 1 : a % RecentWindow = a
  BY <1>1
<1>3. \A a \in RecentWindow .. 2 * RecentWindow - 1 : a % RecentWindow = a - RecentWindow
  BY <1>1
<1>4. CASE j < 0
  <2>1. j + RecentWindow \in 0 .. RecentWindow - 1
    BY <1>1, <1>4
  <2> QED BY <1>2, <1>4, <2>1 DEF Slot
<1>5. CASE j >= 0
  <2>1. j + RecentWindow \in RecentWindow .. 2 * RecentWindow - 1
    BY <1>1, <1>5
  <2>2. (j + RecentWindow) - RecentWindow = j /\ ~(j < 0)
    BY <1>1, <1>5
  <2> QED BY <1>3, <2>1, <2>2 DEF Slot
<1> QED BY <1>4, <1>5

(* One step of the ring, as arithmetic: where the outcomes lie that stay,  *)
(* and where the new one goes.                                             *)
LEMMA RingStep ==
    ASSUME NEW idx \in 0 .. RecentWindow - 1, NEW count \in 0 .. RecentWindow,
           NEW idx2 \in 0 .. RecentWindow - 1, idx2 = (idx + 1) % RecentWindow,
           NEW count2, count2 = AtMost(count + 1, RecentWindow)
    PROVE  /\ count2 \in 1 .. RecentWindow
           /\ Slot(idx2 - count2 + count2 - 1) = idx
           /\ \A i \in 1 .. count2 - 1 :
                LET old == count - count2 + 1 + i
                IN  /\ old \in 1 .. count
                    /\ Slot(idx2 - count2 + i - 1) = Slot(idx - count + old - 1)
                    /\ Slot(idx - count + old - 1) # idx
                    /\ Slot(idx - count + old - 1) \in 0 .. RecentWindow - 1
<1>1. RecentWindow \in Nat \ {0} /\ RecentWindow % RecentWindow = 0
  BY LearnerAssumption
<1>2. idx2 = IF idx = RecentWindow - 1 THEN 0 ELSE idx + 1
  <2>1. CASE idx = RecentWindow - 1
    BY <1>1, <2>1
  <2>2. CASE idx # RecentWindow - 1
    <3>1. idx + 1 \in 0 .. RecentWindow - 1
      BY <1>1, <2>2
    <3> QED BY <1>1, <2>2, <3>1
  <2> QED BY <2>1, <2>2
<1>3. count2 = IF count < RecentWindow THEN count + 1 ELSE count
  BY <1>1 DEF AtMost
<1>4. count2 \in 1 .. RecentWindow
  BY <1>1, <1>3
<1>5. Slot(idx2 - count2 + count2 - 1) = idx
  <2>1. idx2 - count2 + count2 - 1 = idx2 - 1
    BY <1>1, <1>4
  <2>2. Slot(idx2 - 1) = idx
    BY <1>1, <1>2 DEF Slot
  <2> QED BY <2>1, <2>2
<1>6. ASSUME NEW i \in 1 .. count2 - 1
      PROVE  LET old == count - count2 + 1 + i
             IN  /\ old \in 1 .. count
                 /\ Slot(idx2 - count2 + i - 1) = Slot(idx - count + old - 1)
                 /\ Slot(idx - count + old - 1) # idx
                 /\ Slot(idx - count + old - 1) \in 0 .. RecentWindow - 1
  <2>1. idx - count + (count - count2 + 1 + i) - 1 = idx - count2 + i
    BY <1>1, <1>4
  <2>2. count - count2 + 1 + i \in 1 .. count
    BY <1>1, <1>3, <1>4
  <2>3. /\ Slot(idx2 - count2 + i - 1) = Slot(idx - count2 + i)
        /\ Slot(idx - count2 + i) # idx /\ Slot(idx - count2 + i) \in 0 .. RecentWindow - 1
    BY <1>1, <1>2, <1>4 DEF Slot
  <2> QED BY <2>1, <2>2, <2>3
<1> QED BY <1>4, <1>5, <1>6

LEMMA WindowedStep ==
    ASSUME NEW d \in Learned, Windowed(d), NEW win \in BOOLEAN, NEW session \in Sessions,
           NEW time \in Nat
    PROVE  Windowed(RecordTrade(d, win, session, time))
<1> DEFINE t == RecordTrade(d, win, session, time)
           n == Len(d.hist)
<1>1. /\ t \in Learned /\ t.hist = Append(d.hist, win) /\ t.ring = [d.ring EXCEPT ![d.idx] = win]
      /\ t.idx = (d.idx + 1) % RecentWindow /\ t.count = AtMost(d.count + 1, RecentWindow)
  <2>1. RecordedAs(d, t, win, session, time)
    BY Recorded
  <2> HIDE DEF t
  <2> QED BY <2>1 DEF RecordedAs
<1> HIDE DEF t
<1>2. /\ d.hist \in Seq(BOOLEAN) /\ d.ring \in [0 .. RecentWindow - 1 -> BOOLEAN]
      /\ d.idx \in 0 .. RecentWindow - 1 /\ d.count \in 0 .. RecentWindow
      /\ t.idx \in 0 .. RecentWindow - 1
  BY <1>1 DEF Learned
<1>3. /\ n \in Nat /\ Len(t.hist) = n + 1 /\ t.hist[n + 1] = win
      /\ \A i \in 1 .. n : t.hist[i] = d.hist[i]
  BY <1>1, <1>2, AppendFacts
<1> HIDE DEF n
<1>4. RecentWindow \in Nat \ {0}
  BY LearnerAssumption
<1>5. /\ d.count = AtMost(n, RecentWindow)
      /\ d.count < RecentWindow => d.idx = d.count
      /\ t.count = AtMost(d.count + 1, RecentWindow)
  BY <1>1 DEF Windowed, n
<1>9. \A i \in 1 .. d.count : d.ring[Slot(d.idx - d.count + i - 1)] = d.hist[n - d.count + i]
  BY DEF Windowed, n
<1>6. d.count = AtMost(n, RecentWindow) /\ t.count = AtMost(n + 1, RecentWindow)
  BY <1>3, <1>4, <1>5 DEF AtMost
<1>7. ASSUME t.count < RecentWindow PROVE t.idx = t.count
  <2>1. d.count < RecentWindow /\ t.count = d.count + 1 /\ d.idx = d.count
    <3>1. d.count < RecentWindow /\ t.count = d.count + 1
      BY <1>3, <1>4, <1>5, <1>7 DEF AtMost
    <3> QED BY <1>5, <3>1
  <2>2. d.idx + 1 \in 0 .. RecentWindow - 1
    BY <1>2, <1>4, <1>7, <2>1
  <2>3. (d.idx + 1) % RecentWindow = d.idx + 1
    BY <1>4, <2>2
  <2> QED BY <1>1, <2>1, <2>3
<1>8. ASSUME NEW i \in 1 .. t.count
      PROVE  t.ring[Slot(t.idx - t.count + i - 1)] = t.hist[(n + 1) - t.count + i]
  <2>1. /\ t.count \in 1 .. RecentWindow
        /\ Slot(t.idx - t.count + t.count - 1) = d.idx
        /\ \A j \in 1 .. t.count - 1 :
             LET old == d.count - t.count + 1 + j
             IN  /\ old \in 1 .. d.count
                 /\ Slot(t.idx - t.count + j - 1) = Slot(d.idx - d.count + old - 1)
                 /\ Slot(d.idx - d.count + old - 1) # d.idx
                 /\ Slot(d.idx - d.count + old - 1) \in 0 .. RecentWindow - 1
    BY <1>1, <1>2, RingStep
  <2>2. CASE i = t.count
    <3>1. t.ring[d.idx] = win
      BY <1>1, <1>2
    <3>2. (n + 1) - t.count + i = n + 1
      BY <1>3, <1>4, <2>1, <2>2
    <3> QED BY <1>3, <2>1, <2>2, <3>1, <3>2
  <2>3. CASE i # t.count
    <3> DEFINE old == d.count - t.count + 1 + i
               slot == Slot(d.idx - d.count + old - 1)
    <3>1. i \in 1 .. t.count - 1
      BY <2>1, <2>3
    <3>2. /\ old \in 1 .. d.count /\ Slot(t.idx - t.count + i - 1) = slot
          /\ slot # d.idx /\ slot \in 0 .. RecentWindow - 1
      BY <2>1, <3>1
    <3>3. n - d.count + old = (n + 1) - t.count + i /\ n - d.count + old \in 1 .. n
      <4>1. old \in 1 .. d.count /\ old = d.count - t.count + 1 + i
        BY <3>2
      <4> HIDE DEF old, slot
      <4> QED BY <1>3, <1>4, <1>6, <4>1, <3>1 DEF AtMost
    <3>4. d.ring[slot] = d.hist[n - d.count + old]
      BY <1>9, <3>2
    <3> HIDE DEF slot, old
    <3>5. t.ring[slot] = d.ring[slot]
      BY <1>1, <1>2, <3>2
    <3>6. t.hist[n - d.count + old] = d.hist[n - d.count + old]
      BY <1>3, <3>3
    <3> QED BY <3>2, <3>3, <3>4, <3>5, <3>6
  <2> QED BY <2>2, <2>3
<1> QED BY <1>3, <1>6, <1>7, <1>8 DEF Windowed, t

LEMMA VerdictMeaning ==
    ASSUME NEW before \in BOOLEAN, NEW w \in Nat, NEW n \in Nat, Verdict(before, w, n)
    PROVE  /\ n < BlacklistMin => before
           /\ n >= BlacklistMin => 4 * w < n \/ (before /\ 10 * w < 3 * n)
<1>1. BlacklistMin \in Nat
  BY LearnerAssumption
<1>2. CASE n < BlacklistMin
  BY <1>1, <1>2 DEF Verdict
<1>3. CASE ~(n < BlacklistMin)
  <2>1. 4 * w < n \/ (before /\ 10 * w < 3 * n)
    BY <1>3 DEF Verdict
  <2> QED BY <1>3, <2>1
<1> QED BY <1>2, <1>3

LEMMA FilteredStep ==
    ASSUME NEW d \in Learned, Counts(d), Filtered(d), NEW win \in BOOLEAN,
           NEW session \in Sessions, NEW time \in Nat
    PROVE  Filtered(RecordTrade(d, win, session, time))
<1> DEFINE t == RecordTrade(d, win, session, time)
<1>1. RecordedAs(d, t, win, session, time)
  BY Recorded
<1>2. Counts(t)
  BY CountsStep
<1> HIDE DEF t
<1>3. t.streak >= CooldownStreak => t.until = t.lossAt + Cooldown(t.streak)
  <2>1. CASE win = TRUE
    <3>1. t.streak = 0
      BY <1>1, <2>1 DEF RecordedAs
    <3> QED BY <3>1, LearnerAssumption
  <2>2. CASE win = FALSE
    BY <1>1, <2>2 DEF RecordedAs
  <2> QED BY <2>1, <2>2
<1>4. /\ t.total \in Nat /\ t.wins \in Nat /\ BlacklistMin \in Nat /\ d.black \in BOOLEAN
      /\ t.hist \in Seq(BOOLEAN) /\ d.hist \in Seq(BOOLEAN) /\ d.total \in Nat
      /\ d.wins \in Nat
  BY <1>1, LearnerAssumption DEF RecordedAs, Learned
<1>5. /\ t.black = Verdict(d.black, t.wins, t.total) /\ t.total = d.total + 1
      /\ t.hist = Append(d.hist, win)
  BY <1>1 DEF RecordedAs
<1>6. t.total >= BlacklistMin /\ 4 * t.wins < t.total => t.black
  BY <1>4, <1>5 DEF Verdict
<1>7. ASSUME t.black, ~(t.total >= BlacklistMin /\ 4 * t.wins < t.total)
      PROVE  d.black
  <2>1. Verdict(d.black, t.wins, t.total)
    BY <1>5, <1>7
  <2>2. \/ t.total < BlacklistMin
        \/ t.total >= BlacklistMin /\ ~(4 * t.wins < t.total)
    BY <1>4, <1>7
  <2> QED BY <1>4, <2>1, <2>2, VerdictMeaning
<1>8. ASSUME t.black PROVE 10 * t.wins < 3 * t.total
  <2>1. CASE t.total >= BlacklistMin
    <3>1. 4 * t.wins < t.total \/ 10 * t.wins < 3 * t.total
      <4>1. Verdict(d.black, t.wins, t.total)
        BY <1>5, <1>8
      <4> QED BY <1>4, <2>1, <4>1, VerdictMeaning
    <3> QED BY <1>4, <3>1
  <2>2. CASE ~(t.total >= BlacklistMin)
    <3>1. d.black
      BY <1>7, <1>8, <2>2
    <3>2. \E n \in BlacklistMin .. d.total : TRUE
      BY <3>1 DEF Filtered
    <3> QED BY <1>4, <1>5, <2>2, <3>2
  <2> QED BY <2>1, <2>2
<1>9. ASSUME t.black
      PROVE  \E n \in BlacklistMin .. t.total : 4 * (n - Losses(SubSeq(t.hist, 1, n))) < n
  <2>1. CASE t.total >= BlacklistMin /\ 4 * t.wins < t.total
    <3>1. t.total = Len(t.hist) /\ t.wins = t.total - Losses(t.hist)
      BY <1>2 DEF Counts
    <3>2. SubSeq(t.hist, 1, t.total) = t.hist
      BY <1>4, <3>1, WholeSeq
    <3>3. 4 * (t.total - Losses(SubSeq(t.hist, 1, t.total))) < t.total
      BY <2>1, <3>1, <3>2
    <3> QED BY <1>4, <2>1, <3>3
  <2>2. CASE ~(t.total >= BlacklistMin /\ 4 * t.wins < t.total)
    <3>1. d.black
      BY <1>7, <1>9, <2>2
    <3>2. PICK n \in BlacklistMin .. d.total : 4 * (n - Losses(SubSeq(d.hist, 1, n))) < n
      BY <3>1 DEF Filtered
    <3>3. n \in 0 .. Len(d.hist) /\ n \in BlacklistMin .. t.total
      BY <1>4, <1>5 DEF Counts
    <3>4. SubSeq(t.hist, 1, n) = SubSeq(d.hist, 1, n)
      BY <1>4, <1>5, <3>3, PrefixKept
    <3> QED BY <3>2, <3>3, <3>4
  <2> QED BY <2>1, <2>2
<1> QED BY <1>3, <1>6, <1>8, <1>9 DEF Filtered, t

LEMMA TalliedStep ==
    ASSUME NEW d \in Learned, Tallied(d), NEW win \in BOOLEAN, NEW session \in Sessions,
           NEW time \in Nat
    PROVE  Tallied(RecordTrade(d, win, session, time))
<1> DEFINE t == RecordTrade(d, win, session, time)
<1>1. /\ t.hist = Append(d.hist, win) /\ t.when = Append(d.when, session)
      /\ t.sessions = [d.sessions EXCEPT ![session] = Tally(@, win)]
  <2>1. RecordedAs(d, t, win, session, time)
    BY Recorded
  <2> HIDE DEF t
  <2> QED BY <2>1 DEF RecordedAs
<1> HIDE DEF t
<1>2. /\ d.hist \in Seq(BOOLEAN) /\ d.when \in Seq(Sessions)
      /\ d.sessions \in [Sessions -> [w : Nat, t : Nat]]
  BY DEF Learned
<1>3. Len(t.when) = Len(t.hist)
  BY <1>1, <1>2, AppendProperties DEF Tallied
<1>4. ASSUME NEW s \in Sessions PROVE t.sessions[s] = TalliedFrom(t.hist, t.when, s)
  <2>1. d.sessions[s] = TalliedFrom(d.hist, d.when, s) /\ Len(d.when) = Len(d.hist)
    BY DEF Tallied
  <2>2. t.sessions[s] = IF s = session THEN Tally(d.sessions[s], win) ELSE d.sessions[s]
    BY <1>1, <1>2
  <2>3. TalliedFrom(Append(d.hist, win), Append(d.when, session), s) =
          IF s = session THEN Tally(TalliedFrom(d.hist, d.when, s), win)
          ELSE TalliedFrom(d.hist, d.when, s)
    <3>1. Len(d.when) = Len(d.hist) /\ d.hist \in Seq(BOOLEAN) /\ d.when \in Seq(Sessions)
      BY <1>2, <2>1
    <3> HIDE DEF Tallied
    <3> QED BY <3>1, TalliedAppend
  <2> QED BY <1>1, <2>1, <2>2, <2>3
<1> QED BY <1>3, <1>4 DEF Tallied, t

LEMMA RecordedFaithful ==
    ASSUME NEW d, Faithful(d), NEW win \in BOOLEAN, NEW session \in Sessions, NEW time \in Nat
    PROVE  Faithful(RecordTrade(d, win, session, time))
<1>1. /\ d \in Learned /\ Counts(d) /\ Streaks(d) /\ Windowed(d) /\ Filtered(d)
      /\ Tallied(d)
  BY DEF Faithful
<1>2. RecordTrade(d, win, session, time) \in Learned
  BY <1>1, Recorded DEF RecordedAs
<1> QED
  BY <1>1, <1>2, CountsStep, StreaksStep, WindowedStep, FilteredStep, TalliedStep
  DEF Faithful

LEMMA UnseenFaithful == Faithful(Unseen)
<1> DEFINE u == Unseen
<1>1. /\ u \in Learned /\ u.total = 0 /\ u.wins = 0 /\ u.losses = 0 /\ u.streak = 0
      /\ u.worst = 0 /\ u.black = FALSE /\ u.idx = 0 /\ u.count = 0 /\ u.hist = <<>>
      /\ u.when = <<>> /\ \A s \in Sessions : u.sessions[s] = [w |-> 0, t |-> 0]
  BY UnseenType DEF Unseen
<1> HIDE DEF u
<1>2. Len(u.hist) = 0 /\ u.hist \in Seq(BOOLEAN)
  BY <1>1
<1>3. Losses(u.hist) = 0
  <2>1. {i \in 1 .. Len(u.hist) : ~u.hist[i]} = {}
    BY <1>2
  <2> QED BY <2>1, FS_EmptySet DEF Losses
<1>4. Counts(u)
  BY <1>1, <1>2, <1>3 DEF Counts
<1>5. Streaks(u)
  <2>1. EndsInLosses(u.hist, 0)
    BY <1>2, NoLosses
  <2> QED BY <1>1, <1>2, <2>1 DEF Streaks
<1>6. Windowed(u)
  BY <1>1, <1>2, LearnerAssumption DEF Windowed, AtMost
<1>7. Filtered(u)
  BY <1>1, LearnerAssumption DEF Filtered
<1>8. Tallied(u)
  <2>1. ASSUME NEW s \in Sessions PROVE u.sessions[s] = TalliedFrom(u.hist, u.when, s)
    <3>1. /\ {i \in 1 .. Len(u.hist) : u.when[i] = s /\ u.hist[i]} = {}
          /\ {i \in 1 .. Len(u.hist) : u.when[i] = s} = {}
      BY <1>2
    <3> QED BY <1>1, <3>1, FS_EmptySet DEF TalliedFrom
  <2> QED BY <1>1, <2>1 DEF Tallied
<1> QED BY <1>1, <1>4, <1>5, <1>6, <1>7, <1>8 DEF Faithful, u

(* A reload clears the slots that hold nothing, and no other.              *)
LEMMA ReloadedFaithful ==
    ASSUME NEW d, Faithful(d)
    PROVE  Faithful(Reloaded(d))
<1> DEFINE ring == [i \in 0 .. RecentWindow - 1 |-> i < d.count /\ d.ring[i]]
           t == [d EXCEPT !.ring = ring]
<1>1. /\ d \in Learned /\ Counts(d) /\ Streaks(d) /\ Windowed(d) /\ Filtered(d)
      /\ Tallied(d)
  BY DEF Faithful
<1>2. /\ d.ring \in [0 .. RecentWindow - 1 -> BOOLEAN] /\ d.count \in 0 .. RecentWindow
      /\ d.idx \in 0 .. RecentWindow - 1 /\ RecentWindow \in Nat
  BY <1>1, LearnerAssumption DEF Learned
<1>3. ring \in [0 .. RecentWindow - 1 -> BOOLEAN]
  BY <1>2
<1>4. Reloaded(d) = t
  BY DEF Reloaded
<1>5. ASSUME NEW i \in 1 .. d.count
      PROVE  ring[Slot(d.idx - d.count + i - 1)] = d.ring[Slot(d.idx - d.count + i - 1)]
  <2> DEFINE slot == Slot(d.idx - d.count + i - 1)
  <2>1. d.count < RecentWindow => d.idx = d.count
    BY <1>1 DEF Windowed
  <2>2. slot \in 0 .. RecentWindow - 1 /\ slot < d.count
    <3>1. CASE d.count < RecentWindow
      BY <1>2, <2>1, <3>1 DEF Slot
    <3>2. CASE d.count = RecentWindow
      BY <1>2, <3>2 DEF Slot
    <3> QED BY <1>2, <3>1, <3>2
  <2> HIDE DEF slot
  <2>3. d.ring[slot] \in BOOLEAN
    BY <1>2, <2>2
  <2>4. ring[slot] <=> (slot < d.count /\ d.ring[slot])
    BY <2>2
  <2>5. ring[slot] \in BOOLEAN
    BY <1>3, <2>2
  <2>6. ring[slot] <=> d.ring[slot]
    BY <2>2, <2>4
  <2> QED BY <2>3, <2>5, <2>6 DEF slot
<1> HIDE DEF ring
<1>6. /\ t \in Learned /\ t.ring = ring /\ t.total = d.total /\ t.wins = d.wins
      /\ t.losses = d.losses /\ t.streak = d.streak /\ t.worst = d.worst
      /\ t.until = d.until /\ t.black = d.black
  BY <1>1, <1>3 DEF Learned
<1>7. /\ t.idx = d.idx /\ t.count = d.count /\ t.hist = d.hist /\ t.lossAt = d.lossAt
      /\ t.when = d.when /\ t.sessions = d.sessions
  BY <1>1 DEF Learned
<1> HIDE DEF t
<1>8. Windowed(t)
  BY <1>1, <1>5, <1>6, <1>7 DEF Windowed
<1>9. Counts(t)
  BY <1>1, <1>6, <1>7 DEF Counts
<1>10. Streaks(t)
  BY <1>1, <1>6, <1>7 DEF Streaks
<1>11. Filtered(t)
  BY <1>1, <1>6, <1>7 DEF Filtered
<1>12. Tallied(t)
  BY <1>1, <1>7 DEF Tallied
<1> QED BY <1>4, <1>6, <1>8, <1>9, <1>10, <1>11, <1>12 DEF Faithful

LEMMA FaithfulMatches == ASSUME NEW d, Faithful(d) PROVE MatchesHistory(d)
<1> DEFINE n == Len(d.hist)
           last == LastOutcomes(d.hist, AtMost(n, RecentWindow))
<1>1. d \in Learned /\ Counts(d) /\ Streaks(d) /\ Windowed(d) /\ Tallied(d)
  BY DEF Faithful
<1>2. /\ d.hist \in Seq(BOOLEAN) /\ n \in Nat /\ d.streak \in Nat /\ d.worst \in Nat
      /\ d.count \in 0 .. RecentWindow /\ d.idx \in 0 .. RecentWindow - 1
      /\ RecentWindow \in Nat \ {0}
  BY <1>1, LenProperties, LearnerAssumption DEF Learned
<1>3. /\ d.count = AtMost(n, RecentWindow) /\ d.count <= n
      /\ \A i \in 1 .. d.count :
           d.ring[Slot(d.idx - d.count + i - 1)] = d.hist[n - d.count + i]
  <2>1. /\ d.count = AtMost(n, RecentWindow)
        /\ \A i \in 1 .. d.count :
             d.ring[Slot(d.idx - d.count + i - 1)] = d.hist[n - d.count + i]
    BY <1>1 DEF Windowed
  <2> HIDE DEF n
  <2>2. d.count = AtMost(n, RecentWindow)
    BY <2>1
  <2>3. d.count <= n
    BY <1>2, <2>2 DEF AtMost
  <2> QED BY <2>1, <2>3
<1> HIDE DEF n
<1>4. last = [i \in 1 .. d.count |-> d.hist[n - d.count + i]]
  <2>1. last = SubSeq(d.hist, n - d.count + 1, n)
    BY <1>3 DEF LastOutcomes, n
  <2>2. 1 .. (1 + n - (n - d.count + 1)) = 1 .. d.count
    BY <1>2
  <2>3. \A i \in 1 .. d.count : i + (n - d.count + 1) - 1 = n - d.count + i
    BY <1>2
  <2> HIDE DEF last
  <2>4. SubSeq(d.hist, n - d.count + 1, n) =
          [i \in 1 .. (1 + n - (n - d.count + 1)) |-> d.hist[i + (n - d.count + 1) - 1]]
    <3> DEFINE m == n - d.count + 1
    <3>1. m \in Int
      BY <1>2
    <3> HIDE DEF m
    <3>2. SubSeq(d.hist, m, n) = [i \in 1 .. (1 + n - m) |-> d.hist[i + m - 1]]
      BY <1>2, <3>1
    <3> QED BY <3>2 DEF m
  <2> QED BY <2>1, <2>2, <2>3, <2>4
<1>5. RingInOrder(d) = [i \in 1 .. d.count |-> d.hist[n - d.count + i]]
  <2>1. ASSUME NEW i \in 1 .. d.count
        PROVE  d.ring[(d.idx - d.count + i - 1 + RecentWindow) % RecentWindow]
                 = d.hist[n - d.count + i]
    <3>1. d.idx - d.count + i - 1 \in -RecentWindow .. RecentWindow - 1
      BY <1>2
    <3>2. (d.idx - d.count + i - 1 + RecentWindow) % RecentWindow
            = Slot(d.idx - d.count + i - 1)
      BY <3>1, SlotMod
    <3> QED BY <1>3, <3>2
  <2> QED BY <2>1 DEF RingInOrder
<1>6. /\ d.total = n /\ d.losses = Losses(d.hist) /\ d.wins = n - d.losses
  BY <1>1 DEF Counts, n
<1>7. /\ d.streak \in 0 .. n /\ EndsInLosses(d.hist, d.streak)
      /\ d.streak < n => d.hist[n - d.streak]
      /\ d.worst >= d.streak
      /\ d.worst = 0 \/ \E k \in d.worst .. n : EndsInLosses(SubSeq(d.hist, 1, k), d.worst)
  BY <1>1, <1>2 DEF Streaks, n
<1>8. Len(d.when) = n /\ \A s \in Sessions : d.sessions[s] = TalliedFrom(d.hist, d.when, s)
  BY <1>1 DEF Tallied, n
<1> QED BY <1>4, <1>5, <1>6, <1>7, <1>8 DEF MatchesHistory, n

-----------------------------------------------------------------------------
(* The learner with its file *)

Table(t) == t \in [LearnKey -> Learned] /\ \A k \in LearnKey : Faithful(t[k])

LearnerInv ==
    /\ Table(learner) /\ \A t \in learnerFile : Table(t)
    /\ engineTrades \in Seq(Trade) /\ engineFile \in Seq(Trade)
    /\ booted \in Nat /\ now \in 0 .. MaxTime

LEMMA EngineKeys == EngineKey \subseteq LearnKey
BY DEF EngineKey, LearnKey, Tfs

LEMMA SessionNow == LearnerInv => now \in Nat /\ SessionAt[now] \in Sessions
BY ShadowAssumption DEF LearnerInv

LEMMA LearnStep ==
    ASSUME LearnerInv, NEW k \in LearnKey, NEW win \in BOOLEAN, Learn(k, win)
    PROVE  Table(learner') /\ \A t \in learnerFile' : Table(t)
<1> DEFINE d == RecordTrade(learner[k], win, SessionAt[now], now)
           table == [learner EXCEPT ![k] = d]
<1>1. learner \in [LearnKey -> Learned] /\ \A q \in LearnKey : Faithful(learner[q])
  BY DEF LearnerInv, Table
<1>2. Faithful(d) /\ d \in Learned
  BY <1>1, RecordedFaithful, SessionNow DEF Faithful
<1>3. Table(table)
  BY <1>1, <1>2 DEF Table
<1>4. /\ learner' = table
      /\ \/ learnerFile' = learnerFile
         \/ SaveLearner(table)
  BY DEF Learn
<1> HIDE DEF table
<1>5. \A t \in learnerFile' : Table(t)
  BY <1>3, <1>4 DEF SaveLearner, LearnerInv
<1> QED BY <1>3, <1>4, <1>5

LEMMA LearnerInit == Init => LearnerInv
<1> SUFFICES ASSUME Init PROVE LearnerInv
  OBVIOUS
<1>1. Table(NoLearning)
  BY UnseenFaithful, UnseenType DEF Table, NoLearning
<1>2. 0 \in 0 .. MaxTime
  BY ShadowAssumption
<1> QED BY <1>1, <1>2 DEF Init, LearnerInv

(* A close of the tracker is one more trade of a key the learner knows.    *)
LEMMA CloseTaught ==
    ASSUME LearnerInv, TrackerInv, NEW p \in shadow.pos, NEW win \in BOOLEAN,
           NEW then, ClosePosition(p, win, then), UNCHANGED <<engineVars, booted, now>>
    PROVE  LearnerInv'
<1>1. p \in PosKey
  BY DEF TrackerInv, Sound, Book
<1>2. KeyOf(p) \in LearnKey
  BY <1>1 DEF PosKey, KeyOf, LearnKey
<1>3. Learn(KeyOf(p), win)
  BY DEF ClosePosition
<1> QED BY <1>2, <1>3, LearnStep DEF LearnerInv, engineVars

(* What the engine and its file keep of its trades.                        *)
LEMMA KeptTrades ==
    ASSUME LearnerInv, NEW k \in EngineKey, NEW win \in BOOLEAN
    PROVE  LET more == Append(engineTrades, [key |-> k, win |-> win])
           IN  /\ more \in Seq(Trade) /\ Len(more) = Len(engineTrades) + 1
               /\ Newest(more, MaxEngineTrades) \in Seq(Trade)
               /\ Len(Newest(more, MaxEngineTrades))
                    = AtMost(Len(engineTrades) + 1, MaxEngineTrades)
<1>1. [key |-> k, win |-> win] \in Trade /\ MaxEngineTrades \in Nat
  BY EngineKeys, ShadowAssumption DEF Trade
<1> DEFINE one == [key |-> k, win |-> win]
           more == Append(engineTrades, one)
<1> HIDE DEF one
<1>2. more \in Seq(Trade) /\ Len(more) = Len(engineTrades) + 1
  BY <1>1, AppendProperties DEF LearnerInv, one
<1> HIDE DEF more
<1>3. /\ Newest(more, MaxEngineTrades) \in Seq(Trade)
      /\ Len(Newest(more, MaxEngineTrades)) = AtMost(Len(more), MaxEngineTrades)
  BY <1>1, <1>2, NewestLength
<1> QED BY <1>2, <1>3 DEF more, one

LEMMA EngineTaught ==
    ASSUME LearnerInv, NEW k \in EngineKey, NEW win \in BOOLEAN,
           EngineTrade(k, win) \/ ImportTrade(k, win)
    PROVE  LearnerInv'
<1>1. k \in LearnKey /\ Teach(k, win)
  BY EngineKeys DEF EngineTrade, ImportTrade
<1>2. engineTrades' \in Seq(Trade)
  BY KeptTrades DEF EngineTrade, ImportTrade
<1>3. Learn(k, win) /\ UNCHANGED <<engineFile, booted, now>>
  BY <1>1 DEF Teach
<1>4. Table(learner') /\ \A t \in learnerFile' : Table(t)
  BY <1>1, <1>3, LearnStep
<1> QED BY <1>2, <1>3, <1>4 DEF LearnerInv

LEMMA FileKept ==
    ASSUME LearnerInv
    PROVE  /\ Newest(engineTrades, MaxEngineTrades) \in Seq(Trade)
           /\ Len(Newest(engineTrades, MaxEngineTrades))
                = AtMost(Len(engineTrades), MaxEngineTrades)
BY NewestLength, ShadowAssumption DEF LearnerInv

LEMMA BootstrapTaught ==
    ASSUME LearnerInv, Bootstrap
    PROVE  LearnerInv'
<1> DEFINE t == engineTrades[booted + 1]
<1>1. booted + 1 \in 1 .. Len(engineTrades) /\ booted' = booted + 1
  BY LenProperties DEF LearnerInv, Bootstrap
<1>2. t \in Trade
  BY <1>1, ElementOfSeq DEF LearnerInv
<1>3. t.key \in LearnKey /\ t.win \in BOOLEAN
  BY <1>2 DEF Trade
<1>4. Learn(t.key, t.win) /\ UNCHANGED <<engineTrades, engineFile, now>>
  BY DEF Bootstrap, engineVars
<1> HIDE DEF t
<1>5. Table(learner') /\ \A f \in learnerFile' : Table(f)
  BY <1>3, <1>4, LearnStep
<1> QED BY <1>1, <1>4, <1>5 DEF LearnerInv

LEMMA LoadTaught == ASSUME LearnerInv, Load PROVE LearnerInv'
<1>1. Table(learner')
  <2>1. CASE learnerFile = {}
    BY <2>1, UnseenFaithful, UnseenType DEF Load, Table, NoLearning
  <2>2. CASE learnerFile # {}
    <3> DEFINE t == CHOOSE t \in learnerFile : TRUE
    <3>1. t \in learnerFile
      BY <2>2
    <3>2. learner' = [k \in LearnKey |-> Reloaded(t[k])]
      BY <2>2 DEF Load
    <3> HIDE DEF t
    <3>3. ASSUME NEW k \in LearnKey
          PROVE  Faithful(Reloaded(t[k])) /\ Reloaded(t[k]) \in Learned
      <4>1. Faithful(t[k])
        BY <3>1 DEF LearnerInv, Table
      <4>2. Faithful(Reloaded(t[k]))
        BY <4>1, ReloadedFaithful
      <4> QED BY <4>2 DEF Faithful
    <3> QED BY <3>2, <3>3 DEF Table
  <2> QED BY <2>1, <2>2
<1>2. engineTrades' = engineFile /\ UNCHANGED <<learnerFile, engineFile, booted, now>>
  BY DEF Load
<1> QED BY <1>1, <1>2 DEF LearnerInv

LEMMA EndTaught == ASSUME LearnerInv, Crash \/ Stop PROVE LearnerInv'
<1>1. Table(NoLearning)
  BY UnseenFaithful, UnseenType DEF Table, NoLearning
<1>2. learner' = NoLearning /\ booted' = 0 /\ now' = now /\ engineTrades' = <<>>
  BY DEF Crash, Stop, End
<1>3. \A t \in learnerFile' : t \in learnerFile \/ t = learner
  BY DEF Crash, Stop
<1>4. \A t \in learnerFile' : Table(t)
  BY <1>3 DEF LearnerInv
<1>5. engineFile' \in {engineFile, Newest(engineTrades, MaxEngineTrades)}
  BY DEF Crash, Stop
<1>6. engineFile' \in Seq(Trade)
  BY <1>5, FileKept DEF LearnerInv
<1>7. engineTrades' \in Seq(Trade)
  BY <1>2, EmptySeq
<1> QED BY <1>1, <1>2, <1>4, <1>6, <1>7 DEF LearnerInv

LEMMA LearnerNext == LearnerInv /\ TrackerInv /\ [Next]_vars => LearnerInv'
<1> SUFFICES ASSUME LearnerInv, TrackerInv, [Next]_vars PROVE LearnerInv'
  OBVIOUS
<1>1. ASSUME NEW sym \in Symbols, NEW tf \in TimeFrames, NEW side \in Sides,
             NEW w \in Workers, TrackKnown(w, sym, tf, side) \/ TrackEntry(w, sym, tf, side)
      PROVE LearnerInv'
  BY <1>1 DEF TrackKnown, TrackEntry, learnerVars, engineVars, LearnerInv
<1>2. ASSUME NEW sym \in Symbols, NEW tf \in TimeFrames, NEW side \in Sides,
             NEW win \in BOOLEAN, NEW w \in Workers, TrackReversal(w, sym, tf, side, win)
      PROVE LearnerInv'
  <2> DEFINE p == Key(sym, TrackerTf(tf), side)
             o == [p EXCEPT !.side = Opposite(side)]
  <2>1. /\ o \in shadow.pos /\ ClosePosition(o, win, p)
        /\ UNCHANGED <<engineVars, booted, now>>
    BY <1>2 DEF TrackReversal
  <2> HIDE DEF o, p
  <2> QED BY <2>1, CloseTaught
<1>3. ASSUME NEW sym \in Symbols, NEW tf \in TimeFrames, NEW side \in Sides,
             NEW win \in BOOLEAN, TrackExit(sym, tf, side, win)
      PROVE LearnerInv'
  <2>1. PICK p \in Matching(sym, tf, side) : ClosePosition(p, win, None)
    BY <1>3 DEF TrackExit
  <2>2. p \in shadow.pos
    BY DEF Matching
  <2>3. UNCHANGED <<engineVars, booted, now>>
    BY <1>3 DEF TrackExit
  <2> QED BY <2>1, <2>2, <2>3, CloseTaught
<1>4. CASE SaveAfterClose
  BY <1>4 DEF SaveAfterClose, learnerVars, engineVars, LearnerInv
<1>5. CASE OpenReversed
  BY <1>5 DEF OpenReversed, learnerVars, engineVars, LearnerInv
<1>6. ASSUME NEW w \in Workers, Mark(w) \/ FilteredOut(w) PROVE LearnerInv'
  BY <1>6 DEF Mark, FilteredOut, learnerVars, engineVars, LearnerInv
<1>7. ASSUME NEW k \in EngineKey, NEW win \in BOOLEAN,
             EngineTrade(k, win) \/ ImportTrade(k, win)
      PROVE LearnerInv'
  BY <1>7, EngineTaught
<1>8. CASE PeriodicSave
  BY <1>8 DEF PeriodicSave, learnerVars, engineVars, LearnerInv
<1>9. CASE Crash \/ Stop
  BY <1>9, EndTaught
<1>10. CASE Load
  BY <1>10, LoadTaught
<1>11. CASE StartWorkers
  BY <1>11 DEF StartWorkers, learnerVars, engineVars, LearnerInv
<1>12. CASE Tick
  <2>1. now' \in 0 .. MaxTime
    BY <1>12, ShadowAssumption DEF Tick, LearnerInv
  <2> QED BY <1>12, <2>1 DEF Tick, learnerVars, engineVars, LearnerInv
<1>13. CASE Bootstrap
  BY <1>13, BootstrapTaught
<1>14. CASE SaveEngine
  BY <1>14, FileKept DEF SaveEngine, learnerVars, LearnerInv
<1>15. CASE UNCHANGED vars
  BY <1>15 DEF vars, LearnerInv
<1> QED
  BY <1>1, <1>2, <1>3, <1>4, <1>5, <1>6, <1>7, <1>8, <1>9, <1>10, <1>11, <1>12, <1>13, <1>14,
     <1>15
  DEF Next

LEMMA LearnerAlways == Spec => []LearnerInv
BY LearnerInit, LearnerNext, TrackerAlways, PTL DEF Spec

(* The win rates, streaks, market sessions and sliding window that every   *)
(* verdict rests on are those of the trades recorded, also after a reload  *)
(* of a ring that was not full (symbol_learner.hpp:109-266, 672-780).      *)
THEOREM LearnerFaithful == Spec => []LearnerMatchesHistory
<1>1. LearnerInv => LearnerMatchesHistory
  BY FaithfulMatches DEF LearnerInv, Table, LearnerMatchesHistory, Tables
<1> QED BY <1>1, LearnerAlways, PTL

(* A pause lasts as long as the streak of losses asks for, and a blacklist *)
(* is earned and kept by the record (symbol_learner.hpp:566-593).          *)
THEOREM FiltersHold == Spec => []FiltersJustified
<1>1. LearnerInv => CooldownHolds
  <2> SUFFICES ASSUME LearnerInv, NEW k \in LearnKey, NEW session \in Sessions,
                      NEW trend \in {0, 50, 100}, learner[k].streak >= CooldownStreak,
                      now < learner[k].lossAt + Cooldown(learner[k].streak)
               PROVE  Denied(learner[k], session, trend, now)
    BY DEF CooldownHolds
  <2>1. learner[k].until = learner[k].lossAt + Cooldown(learner[k].streak)
    BY DEF LearnerInv, Table, Faithful, Filtered
  <2> QED BY <2>1 DEF Denied
<1>2. LearnerInv => BlacklistJustified
  <2>1. ASSUME LearnerInv, NEW t \in Tables, NEW k \in LearnKey
        PROVE  Faithful(t[k])
    BY <2>1 DEF LearnerInv, Table, Tables
  <2> QED BY <2>1 DEF BlacklistJustified, Faithful, Filtered
<1>3. LearnerInv => FiltersJustified
  BY <1>1, <1>2 DEF FiltersJustified
<1> QED BY <1>3, LearnerAlways, PTL

-----------------------------------------------------------------------------
(* How often a trade is taught *)

(* The trades a start can find in the engine's file, at most; and those    *)
(* of them this run has not come to teach.                                 *)
Restored == AtMost(everTraded, MaxEngineTrades)

Untaught == CASE phase = "up" -> 0
              [] phase = "boot" -> Restored - booted
              [] OTHER -> Restored

Lessons == everClosed + everTraded + crashes * Restored - Untaught

TaughtInv ==
    /\ everClosed \in Nat /\ everTraded \in Nat /\ crashes \in Nat
    /\ phase \in {"up", "boot", "down"}
    /\ phase # "up" => crashes >= 1
    /\ Len(engineFile) <= Restored /\ Len(engineTrades) <= everTraded
    /\ phase = "boot" => booted <= Len(engineTrades) /\ Len(engineTrades) <= Restored
    /\ phase = "down" => booted = 0
    /\ \A t \in Tables : Taught(t) <= Lessons

LEMMA LearnKeyFinite == IsFiniteSet(LearnKey)
<1>1. IsFiniteSet(TimeFrames \cup {"0"})
  BY ShadowAssumption, FS_AddElement
<1>2. IsFiniteSet((TimeFrames \cup {"0"}) \cup {"unknown"})
  BY <1>1, FS_AddElement
<1>3. Tfs \subseteq (TimeFrames \cup {"0"}) \cup {"unknown"}
  BY DEF Tfs, TrackerTf, EngineTf
<1>4. IsFiniteSet(Tfs)
  BY <1>2, <1>3, FS_Subset
<1>5. IsFiniteSet(Symbols \X Tfs)
  BY <1>4, ShadowAssumption, FS_Product
<1> DEFINE f == [k \in LearnKey |-> <<k.sym, k.tf>>]
<1>6. f \in [LearnKey -> Symbols \X Tfs]
  BY DEF LearnKey
<1>7. ASSUME NEW a \in LearnKey, NEW b \in LearnKey, f[a] = f[b] PROVE a = b
  BY <1>7 DEF LearnKey
<1> HIDE DEF f
<1>8. f \in Injection(LearnKey, Symbols \X Tfs)
  BY <1>6, <1>7 DEF Injection, IsInjective
<1> QED BY <1>5, <1>8, FS_Injection

LEMMA TaughtType == ASSUME NEW t \in [LearnKey -> Learned] PROVE Taught(t) \in Int
<1> DEFINE f == [k \in LearnKey |-> t[k].total]
<1>1. \A k \in LearnKey : f[k] \in Int
  BY DEF Learned
<1> HIDE DEF f
<1>2. SumOver(f, LearnKey) \in Int
  BY <1>1, LearnKeyFinite, SumInt
<1> QED BY <1>2 DEF Taught, f

LEMMA NothingTaught == Taught(NoLearning) = 0
<1> DEFINE f == [k \in LearnKey |-> NoLearning[k].total]
<1>1. \A k \in LearnKey : f[k] = 0
  BY DEF NoLearning, Unseen
<1> HIDE DEF f
<1>2. SumOver(f, LearnKey) = 0
  BY <1>1, LearnKeyFinite, SumZero
<1> QED BY <1>2 DEF Taught, f

LEMMA OneMoreTaught ==
    ASSUME NEW t \in [LearnKey -> Learned], NEW k \in LearnKey, NEW d \in Learned,
           d.total = t[k].total + 1
    PROVE  Taught([t EXCEPT ![k] = d]) = Taught(t) + 1
<1> DEFINE u == [t EXCEPT ![k] = d]
           f == [q \in LearnKey |-> t[q].total]
           g == [q \in LearnKey |-> u[q].total]
<1>1. u \in [LearnKey -> Learned] /\ u[k] = d /\ \A q \in LearnKey : q # k => u[q] = t[q]
  OBVIOUS
<1> HIDE DEF u
<1>2. ASSUME NEW q \in LearnKey PROVE f[q] \in Int /\ g[q] \in Int
  <2>1. t[q] \in Learned /\ u[q] \in Learned
    BY <1>1
  <2>2. t[q].total \in Nat /\ u[q].total \in Nat
    BY <2>1 DEF Learned
  <2> QED BY <2>2
<1>3. g[k] = f[k] + 1 /\ \A q \in LearnKey : q # k => f[q] = g[q]
  BY <1>1
<1> HIDE DEF f, g
<1>4. SumOver(g, LearnKey) = SumOver(f, LearnKey) - f[k] + g[k]
  BY <1>2, <1>3, LearnKeyFinite, SumChange
<1>5. SumOver(f, LearnKey) \in Int
  BY <1>2, LearnKeyFinite, SumInt
<1>6. SumOver(g, LearnKey) = SumOver(f, LearnKey) + 1
  BY <1>2, <1>3, <1>4, <1>5
<1> QED BY <1>6 DEF Taught, f, g, u

LEMMA SameTaught ==
    ASSUME NEW t \in [LearnKey -> Learned]
    PROVE  Taught([k \in LearnKey |-> Reloaded(t[k])]) = Taught(t)
<1> DEFINE u == [k \in LearnKey |-> Reloaded(t[k])]
           f == [q \in LearnKey |-> t[q].total]
           g == [q \in LearnKey |-> u[q].total]
<1>1. ASSUME NEW k \in LearnKey PROVE g[k] = f[k]
  <2>1. t[k] \in Learned
    OBVIOUS
  <2> QED BY <2>1 DEF Reloaded, Learned
<1> HIDE DEF f, g
<1>2. SumOver(g, LearnKey) = SumOver(f, LearnKey)
  BY <1>1, LearnKeyFinite, SumSame
<1> QED BY <1>2 DEF Taught, f, g

(* A trade that is taught raises the count of the table by one, and that   *)
(* of the file at most to the same.                                        *)
LEMMA LearnCounts ==
    ASSUME LearnerInv, NEW k \in LearnKey, NEW win \in BOOLEAN, Learn(k, win)
    PROVE  /\ Taught(learner') = Taught(learner) + 1
           /\ \A t \in learnerFile' : t \in learnerFile \/ t = learner'
<1> DEFINE session == SessionAt[now]
           d == RecordTrade(learner[k], win, session, now)
<1>1. /\ learner \in [LearnKey -> Learned] /\ learner[k] \in Learned /\ now \in Nat
      /\ session \in Sessions
  BY SessionNow DEF LearnerInv, Table
<1> HIDE DEF session
<1>2. d \in Learned /\ d.total = learner[k].total + 1
  <2>1. RecordedAs(learner[k], d, win, session, now)
    BY <1>1, Recorded
  <2> HIDE DEF d
  <2> QED BY <2>1 DEF RecordedAs
<1>3. learner' = [learner EXCEPT ![k] = d]
  BY DEF Learn, session
<1>4. \A t \in learnerFile' : t \in learnerFile \/ t = learner'
  BY DEF Learn, SaveLearner
<1> HIDE DEF d
<1> QED BY <1>1, <1>2, <1>3, <1>4, OneMoreTaught

LEMMA LessonsType ==
    ASSUME LearnerInv, TaughtInv
    PROVE  /\ Restored \in Nat /\ Restored <= everTraded /\ crashes * Restored \in Nat
           /\ (crashes + 1) * Restored = crashes * Restored + Restored
           /\ Untaught \in 0 .. Restored /\ Lessons \in Nat
<1>1. /\ everClosed \in Nat /\ everTraded \in Nat /\ crashes \in Nat /\ booted \in Nat
      /\ MaxEngineTrades \in Nat /\ Len(engineTrades) \in Nat
  BY ShadowAssumption, LenProperties DEF LearnerInv, TaughtInv
<1>2. Restored \in Nat /\ Restored <= everTraded
  BY <1>1, AtMostType DEF Restored
<1> DEFINE r == Restored
           m == crashes * r
<1>3. Untaught \in 0 .. r
  BY <1>1, <1>2 DEF TaughtInv, Untaught
<1>4. phase = "up" => Untaught = 0
  BY DEF Untaught
<1>5. Lessons = everClosed + everTraded + m - Untaught
  BY DEF Lessons
<1>6. r \in Nat
  BY <1>2
<1> HIDE DEF r
<1>7. m \in Nat /\ (crashes + 1) * r = m + r
  BY <1>1, <1>6
<1>8. crashes >= 1 => r <= m
  <2>1. CASE crashes >= 1
    <3> DEFINE c == crashes - 1
    <3>1. c \in Nat /\ crashes = c + 1
      BY <1>1, <2>1
    <3> HIDE DEF c
    <3>2. m = c * r + r /\ c * r \in Nat
      BY <1>6, <3>1
    <3> HIDE DEF m
    <3> DEFINE k == c * r
    <3> HIDE DEF k
    <3>3. m = k + r /\ k \in Nat
      BY <3>2 DEF k
    <3> QED BY <1>6, <3>3
  <2> QED BY <2>1
<1> HIDE DEF m
<1>9. Lessons \in Nat
  <2>1. CASE phase = "up"
    BY <1>1, <1>4, <1>5, <1>7, <2>1
  <2>2. CASE phase # "up"
    <3>1. crashes >= 1
      BY <2>2 DEF TaughtInv
    <3>2. r <= m
      BY <1>8, <3>1
    <3> QED BY <1>1, <1>3, <1>5, <1>6, <1>7, <3>2
  <2> QED BY <2>1, <2>2
<1> QED BY <1>2, <1>3, <1>7, <1>9 DEF r, m

LEMMA TaughtMore ==
    ASSUME LearnerInv, TaughtInv, NEW k \in LearnKey, NEW win \in BOOLEAN,
           Learn(k, win), Lessons' \in Int, Lessons + 1 <= Lessons'
    PROVE  \A t \in Tables' : Taught(t) <= Lessons'
<1>1. /\ Taught(learner') = Taught(learner) + 1
      /\ \A t \in learnerFile' : t \in learnerFile \/ t = learner'
  BY LearnCounts
<1>2. Lessons \in Nat
  BY LessonsType
<1>3. \A t \in Tables : Taught(t) <= Lessons /\ Taught(t) \in Int
  BY TaughtType DEF TaughtInv, Tables, LearnerInv, Table
<1> SUFFICES ASSUME NEW t \in Tables' PROVE Taught(t) <= Lessons'
  OBVIOUS
<1>4. t \in Tables \/ t = learner'
  BY <1>1 DEF Tables
<1>5. CASE t \in Tables
  BY <1>2, <1>3, <1>5
<1>6. CASE t = learner'
  <2>1. Taught(learner) <= Lessons /\ Taught(learner) \in Int
    BY <1>3 DEF Tables
  <2> QED BY <1>1, <1>2, <1>6, <2>1
<1> QED BY <1>4, <1>5, <1>6

(* A step that teaches nothing.                                            *)
LEMMA TaughtSame ==
    ASSUME LearnerInv, TaughtInv, Lessons' \in Int, Lessons <= Lessons',
           \A t \in Tables' : t \in Tables \/ Taught(t) = 0 \/ \E u \in Tables : Taught(t) = Taught(u)
    PROVE  \A t \in Tables' : Taught(t) <= Lessons'
<1>1. Lessons \in Nat
  BY LessonsType
<1>2. \A t \in Tables : Taught(t) <= Lessons /\ Taught(t) \in Int
  BY TaughtType DEF TaughtInv, Tables, LearnerInv, Table
<1> SUFFICES ASSUME NEW t \in Tables' PROVE Taught(t) <= Lessons'
  OBVIOUS
<1>3. CASE Taught(t) = 0
  BY <1>1, <1>3
<1>4. CASE t \in Tables
  BY <1>1, <1>2, <1>4
<1>5. ASSUME NEW u \in Tables, Taught(t) = Taught(u) PROVE Taught(t) <= Lessons'
  BY <1>1, <1>2, <1>5
<1> QED BY <1>3, <1>4, <1>5

LEMMA CloseCounted ==
    ASSUME LearnerInv, TrackerInv, TaughtInv, NEW p \in shadow.pos, NEW win \in BOOLEAN,
           NEW then, ClosePosition(p, win, then), Free,
           UNCHANGED <<engineVars, booted, phase, crashes>>
    PROVE  TaughtInv'
<1>1. p \in PosKey
  BY DEF TrackerInv, Sound, Book
<1>2. KeyOf(p) \in LearnKey
  BY <1>1 DEF PosKey, KeyOf, LearnKey
<1>3. Learn(KeyOf(p), win) /\ everClosed' = everClosed + 1
  BY DEF ClosePosition
<1>4. /\ UNCHANGED <<engineTrades, engineFile, everTraded>>
      /\ Restored' = Restored /\ Untaught' = Untaught
  BY DEF engineVars, Restored, Untaught
<1>5. Lessons' = Lessons + 1
  <2> DEFINE m == crashes * Restored
  <2>1. /\ m \in Nat /\ everClosed \in Nat /\ everTraded \in Nat /\ Untaught \in Int
        /\ Lessons = everClosed + everTraded + m - Untaught
    BY LessonsType DEF TaughtInv, Lessons
  <2>2. Lessons' = (everClosed + 1) + everTraded + m - Untaught
    BY <1>3, <1>4 DEF Lessons
  <2> HIDE DEF m
  <2> QED BY <2>1, <2>2
<1>6. \A t \in Tables' : Taught(t) <= Lessons'
  <2>1. Lessons' \in Int /\ Lessons + 1 <= Lessons'
    BY <1>5, LessonsType
  <2> QED BY <1>2, <1>3, <2>1, TaughtMore
<1>7. everClosed' \in Nat
  BY <1>3 DEF TaughtInv
<1> QED BY <1>4, <1>6, <1>7 DEF TaughtInv

(* A trade of the engine is a lesson more, and may be another trade that   *)
(* every start finds in the file.                                          *)
LEMMA EngineCounted ==
    ASSUME LearnerInv, TaughtInv, NEW k \in EngineKey, NEW win \in BOOLEAN,
           EngineTrade(k, win) \/ ImportTrade(k, win)
    PROVE  TaughtInv'
<1>1. /\ phase = "up" /\ k \in LearnKey /\ Learn(k, win) /\ everTraded' = everTraded + 1
      /\ UNCHANGED <<engineFile, phase, booted, crashes, everClosed>>
  BY EngineKeys DEF EngineTrade, ImportTrade, Teach
<1>2. /\ everClosed \in Nat /\ everTraded \in Nat /\ crashes \in Nat
      /\ MaxEngineTrades \in Nat /\ Len(engineTrades) \in Nat /\ Len(engineFile) \in Nat
  BY ShadowAssumption, LenProperties DEF LearnerInv, TaughtInv
<1>3. Restored' \in Nat /\ Restored \in Nat /\ Restored <= Restored'
  BY <1>1, <1>2 DEF Restored, AtMost
<1>4. Untaught = 0 /\ Untaught' = 0
  BY <1>1 DEF Untaught
<1> DEFINE r == Restored
           s == Restored'
           e == s - r
<1>5. /\ Lessons = everClosed + everTraded + crashes * r
      /\ Lessons' = everClosed + (everTraded + 1) + crashes * s
      /\ r \in Nat /\ s \in Nat /\ r <= s
  <2>1. /\ Lessons = everClosed + everTraded + crashes * r - 0
        /\ Lessons' = everClosed + (everTraded + 1) + crashes * s - 0
    BY <1>1, <1>4 DEF Lessons
  <2>2. crashes * r \in Nat /\ crashes * s \in Nat
    <3>1. crashes \in Nat /\ r \in Nat /\ s \in Nat
      BY <1>2, <1>3
    <3> HIDE DEF r, s
    <3> QED BY <3>1
  <2> DEFINE x == crashes * r
             y == crashes * s
  <2> HIDE DEF x, y
  <2>3. /\ Lessons = everClosed + everTraded + x - 0 /\ x \in Nat
        /\ Lessons' = everClosed + (everTraded + 1) + y - 0 /\ y \in Nat
    BY <2>1, <2>2 DEF x, y
  <2>4. Lessons = everClosed + everTraded + x /\ Lessons' = everClosed + (everTraded + 1) + y
    BY <1>2, <2>3
  <2> QED BY <1>3, <2>4 DEF x, y
<1> HIDE DEF r, s
<1>6. e \in Nat /\ s = r + e
  BY <1>5
<1> HIDE DEF e
<1>7. crashes * s = crashes * r + crashes * e /\ crashes * r \in Nat /\ crashes * e \in Nat
  BY <1>2, <1>5, <1>6
<1>8. Lessons' \in Int /\ Lessons + 1 <= Lessons'
  <2> DEFINE m == crashes * r
             d == crashes * e
  <2>1. /\ m \in Nat /\ d \in Nat /\ Lessons = everClosed + everTraded + m
        /\ Lessons' = everClosed + (everTraded + 1) + (m + d)
    BY <1>5, <1>7
  <2> HIDE DEF m, d
  <2> QED BY <1>2, <2>1
<1>9. \A t \in Tables' : Taught(t) <= Lessons'
  BY <1>1, <1>8, TaughtMore
<1>10. Len(engineTrades') <= everTraded'
  <2>1. Len(engineTrades') <= Len(engineTrades) + 1
    BY <1>2, KeptTrades DEF EngineTrade, ImportTrade, AtMost
  <2>2. engineTrades' \in Seq(Trade)
    BY KeptTrades DEF EngineTrade, ImportTrade
  <2>3. Len(engineTrades') \in Nat /\ Len(engineTrades) <= everTraded
    BY <2>2, LenProperties DEF TaughtInv
  <2> QED BY <1>1, <1>2, <2>1, <2>3
<1>11. Len(engineFile') <= Restored'
  BY <1>1, <1>2, <1>3 DEF TaughtInv
<1> QED BY <1>1, <1>2, <1>9, <1>10, <1>11 DEF TaughtInv

(* A step that leaves the counts and the tables of the learner alone.      *)
LEMMA QuietCounted ==
    ASSUME LearnerInv, TaughtInv,
           UNCHANGED <<learner, learnerFile, engineTrades, everTraded, phase, booted,
                       crashes, everClosed>>,
           Len(engineFile') <= Restored
    PROVE  TaughtInv'
<1>1. Restored' = Restored /\ Untaught' = Untaught
  BY DEF Restored, Untaught
<1>2. Lessons' = Lessons
  BY <1>1 DEF Lessons
<1> QED BY <1>1, <1>2 DEF TaughtInv, Tables

(* What the engine saves is no more than its file may hold.                *)
LEMMA FileBounded ==
    ASSUME LearnerInv, TaughtInv
    PROVE  Len(Newest(engineTrades, MaxEngineTrades)) <= Restored
<1>1. /\ Len(engineTrades) \in Nat /\ everTraded \in Nat /\ MaxEngineTrades \in Nat
      /\ Len(engineTrades) <= everTraded
  BY ShadowAssumption, LenProperties DEF LearnerInv, TaughtInv
<1> QED BY <1>1, FileKept DEF Restored, AtMost

LEMMA SaveCounted == ASSUME LearnerInv, TaughtInv, SaveEngine PROVE TaughtInv'
<1>1. Len(engineFile') <= Restored
  BY FileBounded DEF SaveEngine, TaughtInv
<1> QED BY <1>1, QuietCounted DEF SaveEngine, learnerVars

LEMMA BootstrapCounted == ASSUME LearnerInv, TaughtInv, Bootstrap PROVE TaughtInv'
<1> DEFINE t == engineTrades[booted + 1]
<1>1. /\ booted + 1 \in 1 .. Len(engineTrades) /\ booted' = booted + 1 /\ phase = "boot"
      /\ UNCHANGED <<phase, engineTrades, engineFile, everTraded, crashes, everClosed>>
  BY LenProperties DEF LearnerInv, Bootstrap, engineVars
<1>2. t \in Trade
  BY <1>1, ElementOfSeq DEF LearnerInv
<1>3. t.key \in LearnKey /\ t.win \in BOOLEAN
  BY <1>2 DEF Trade
<1>4. Learn(t.key, t.win)
  BY DEF Bootstrap
<1> HIDE DEF t
<1>5. /\ Restored' = Restored /\ Untaught = Restored - booted
      /\ Untaught' = Restored - (booted + 1)
  BY <1>1 DEF Restored, Untaught
<1>6. Lessons' \in Int /\ Lessons + 1 <= Lessons'
  <2> DEFINE m == crashes * Restored
  <2>1. /\ m \in Nat /\ everClosed \in Nat /\ everTraded \in Nat /\ booted \in Nat
        /\ Restored \in Nat /\ Lessons = everClosed + everTraded + m - (Restored - booted)
        /\ Lessons' = everClosed + everTraded + m - (Restored - (booted + 1))
    BY <1>1, <1>5, LessonsType DEF LearnerInv, TaughtInv, Lessons
  <2> HIDE DEF m
  <2> QED BY <2>1
<1>7. \A u \in Tables' : Taught(u) <= Lessons'
  BY <1>3, <1>4, <1>6, TaughtMore
<1> QED BY <1>1, <1>5, <1>7 DEF TaughtInv

LEMMA LoadCounted == ASSUME LearnerInv, TaughtInv, Load PROVE TaughtInv'
<1>1. /\ phase = "down" /\ phase' = "boot" /\ learnerFile' = learnerFile
      /\ engineTrades' = engineFile /\ booted = 0
      /\ UNCHANGED <<engineFile, everTraded, booted, crashes, everClosed>>
  BY DEF Load, TaughtInv
<1>2. /\ Restored \in Nat /\ Restored' = Restored
      /\ Untaught = Restored /\ Untaught' = Restored - 0
  BY <1>1, LessonsType DEF Restored, Untaught
<1>3. Lessons' = Lessons /\ Lessons \in Nat
  BY <1>1, <1>2, LessonsType DEF Lessons
<1>4. Taught(learner') = 0 \/ \E u \in Tables : Taught(learner') = Taught(u)
  <2>1. CASE learnerFile = {}
    BY <2>1, NothingTaught DEF Load
  <2>2. CASE learnerFile # {}
    <3> DEFINE t == CHOOSE t \in learnerFile : TRUE
    <3>1. t \in learnerFile
      BY <2>2
    <3>2. learner' = [k \in LearnKey |-> Reloaded(t[k])]
      BY <2>2 DEF Load
    <3> HIDE DEF t
    <3>3. t \in [LearnKey -> Learned]
      BY <3>1 DEF LearnerInv, Table
    <3>4. Taught(learner') = Taught(t)
      BY <3>2, <3>3, SameTaught
    <3> QED BY <3>1, <3>4 DEF Tables
  <2> QED BY <2>1, <2>2
<1>5. \A u \in Tables' : u \in Tables \/ u = learner'
  BY <1>1 DEF Tables
<1>6. \A u \in Tables' : Taught(u) <= Lessons'
  <2>1. Lessons' \in Int /\ Lessons <= Lessons'
    BY <1>3
  <2> QED BY <1>4, <1>5, <2>1, TaughtSame
<1>7. Len(engineTrades') \in Nat /\ Len(engineTrades') <= Restored /\ everTraded \in Nat
  BY <1>1, LenProperties DEF LearnerInv, TaughtInv
<1>8. Len(engineTrades') <= everTraded /\ 0 <= Len(engineTrades')
  BY <1>2, <1>7, LessonsType
<1> QED BY <1>1, <1>2, <1>6, <1>7, <1>8 DEF TaughtInv

LEMMA EndCounted == ASSUME LearnerInv, TaughtInv, Crash \/ Stop PROVE TaughtInv'
<1>1. /\ crashes' = crashes + 1 /\ phase' = "down" /\ learner' = NoLearning /\ booted' = 0
      /\ engineTrades' = <<>> /\ UNCHANGED <<everClosed, everTraded>>
  BY DEF Crash, Stop, End
<1>2. \A t \in learnerFile' : t \in learnerFile \/ t = learner
  BY DEF Crash, Stop
<1>3. Len(engineFile') <= Restored
  BY FileBounded DEF Crash, Stop, TaughtInv
<1>4. Restored' = Restored /\ Untaught' = Restored
  BY <1>1 DEF Restored, Untaught
<1>5. Lessons' \in Int /\ Lessons <= Lessons'
  <2> DEFINE m == crashes * Restored
             n == (crashes + 1) * Restored
  <2>1. /\ m \in Nat /\ n = m + Restored /\ Restored \in Nat /\ Untaught \in 0 .. Restored
        /\ everClosed \in Nat /\ everTraded \in Nat
        /\ Lessons = everClosed + everTraded + m - Untaught
    BY LessonsType DEF TaughtInv, Lessons
  <2>2. Lessons' = everClosed + everTraded + n - Restored
    BY <1>1, <1>4 DEF Lessons
  <2> HIDE DEF m, n
  <2> QED BY <2>1, <2>2
<1>6. \A t \in Tables' : t \in Tables \/ Taught(t) = 0
  BY <1>1, <1>2, NothingTaught DEF Tables
<1>7. \A t \in Tables' : Taught(t) <= Lessons'
  BY <1>5, <1>6, TaughtSame
<1>8. crashes' \in Nat /\ crashes' >= 1 /\ Len(engineTrades') <= everTraded
  BY <1>1 DEF TaughtInv
<1> QED BY <1>1, <1>3, <1>4, <1>7, <1>8 DEF TaughtInv

LEMMA StartWorkersCounted == ASSUME LearnerInv, TaughtInv, StartWorkers PROVE TaughtInv'
<1>1. /\ phase = "boot" /\ phase' = "up" /\ booted = Len(engineTrades) /\ booted' = 0
      /\ UNCHANGED <<learner, learnerFile, engineTrades, engineFile, everTraded, crashes,
                     everClosed>>
  BY DEF StartWorkers, learnerVars, engineVars
<1>2. Restored' = Restored /\ Untaught' = 0
  BY <1>1 DEF Restored, Untaught
<1>3. Lessons' \in Int /\ Lessons <= Lessons'
  <2> DEFINE m == crashes * Restored
  <2>1. /\ m \in Nat /\ Restored \in Nat /\ Untaught \in 0 .. Restored
        /\ everClosed \in Nat /\ everTraded \in Nat
        /\ Lessons = everClosed + everTraded + m - Untaught
    BY LessonsType DEF TaughtInv, Lessons
  <2>2. Lessons' = everClosed + everTraded + m - 0
    BY <1>1, <1>2 DEF Lessons
  <2> HIDE DEF m
  <2> QED BY <2>1, <2>2
<1>4. \A t \in Tables' : Taught(t) <= Lessons'
  BY <1>1, <1>3, TaughtSame DEF Tables
<1> QED BY <1>1, <1>2, <1>4 DEF TaughtInv

LEMMA TaughtInit == Init => TaughtInv
<1> SUFFICES ASSUME Init PROVE TaughtInv
  OBVIOUS
<1>1. /\ Len(engineTrades) = 0 /\ Len(engineFile) = 0 /\ crashes = 0 /\ everClosed = 0
      /\ everTraded = 0 /\ phase = "up" /\ booted = 0
  BY DEF Init
<1>2. Restored = 0 /\ Untaught = 0
  BY <1>1, ShadowAssumption DEF Restored, Untaught, AtMost
<1>3. Lessons = 0
  BY <1>1, <1>2 DEF Lessons
<1>4. \A t \in Tables : Taught(t) = 0
  BY NothingTaught DEF Init, Tables
<1> QED BY <1>1, <1>2, <1>3, <1>4 DEF TaughtInv

LEMMA TaughtNext == LearnerInv /\ TrackerInv /\ TaughtInv /\ [Next]_vars => TaughtInv'
<1> SUFFICES ASSUME LearnerInv, TrackerInv, TaughtInv, [Next]_vars PROVE TaughtInv'
  OBVIOUS
<1> DEFINE Quiet ==
      UNCHANGED <<learner, learnerFile, engineTrades, engineFile, everTraded, phase, booted,
                  crashes, everClosed>>
<1>1. ASSUME NEW sym \in Symbols, NEW tf \in TimeFrames, NEW side \in Sides,
             NEW w \in Workers, TrackKnown(w, sym, tf, side) \/ TrackEntry(w, sym, tf, side)
      PROVE Quiet
  BY <1>1 DEF TrackKnown, TrackEntry, learnerVars, engineVars
<1>2. ASSUME NEW sym \in Symbols, NEW tf \in TimeFrames, NEW side \in Sides,
             NEW win \in BOOLEAN, NEW w \in Workers, TrackReversal(w, sym, tf, side, win)
      PROVE TaughtInv'
  <2> DEFINE p == Key(sym, TrackerTf(tf), side)
             o == [p EXCEPT !.side = Opposite(side)]
  <2>1. /\ o \in shadow.pos /\ ClosePosition(o, win, p) /\ Free
        /\ UNCHANGED <<engineVars, booted, phase, crashes>>
    BY <1>2 DEF TrackReversal
  <2> HIDE DEF o, p
  <2> QED BY <2>1, CloseCounted
<1>3. ASSUME NEW sym \in Symbols, NEW tf \in TimeFrames, NEW side \in Sides,
             NEW win \in BOOLEAN, TrackExit(sym, tf, side, win)
      PROVE TaughtInv'
  <2>1. PICK p \in Matching(sym, tf, side) : ClosePosition(p, win, None)
    BY <1>3 DEF TrackExit
  <2>2. p \in shadow.pos
    BY DEF Matching
  <2>3. Free /\ UNCHANGED <<engineVars, booted, phase, crashes>>
    BY <1>3 DEF TrackExit
  <2> QED BY <2>1, <2>2, <2>3, CloseCounted
<1>4. CASE SaveAfterClose \/ OpenReversed \/ PeriodicSave \/ Tick \/ UNCHANGED vars
  <2>1. Quiet
    BY <1>4 DEF SaveAfterClose, OpenReversed, PeriodicSave, Tick, vars, learnerVars, engineVars
  <2> QED BY <2>1, QuietCounted DEF TaughtInv
<1>5. ASSUME NEW w \in Workers, Mark(w) \/ FilteredOut(w) PROVE Quiet
  BY <1>5 DEF Mark, FilteredOut, learnerVars, engineVars
<1>6. ASSUME NEW k \in EngineKey, NEW win \in BOOLEAN,
             EngineTrade(k, win) \/ ImportTrade(k, win)
      PROVE TaughtInv'
  BY <1>6, EngineCounted
<1>7. CASE Crash \/ Stop
  BY <1>7, EndCounted
<1>8. CASE Load
  BY <1>8, LoadCounted
<1>9. CASE StartWorkers
  BY <1>9, StartWorkersCounted
<1>10. CASE Bootstrap \/ SaveEngine
  BY <1>10, BootstrapCounted, SaveCounted
<1>11. Quiet => TaughtInv'
  BY QuietCounted DEF TaughtInv
<1> HIDE DEF Quiet
<1> QED BY <1>1, <1>2, <1>3, <1>4, <1>5, <1>6, <1>7, <1>8, <1>9, <1>10, <1>11 DEF Next

(* However often the process ends and teaches its old trades again, and    *)
(* whichever of its two files a crash, a failed write or the cap on the    *)
(* trades kept leaves behind the other: a paper trade is taught once for   *)
(* ever, a trade of the engine once when it is recorded, and at every      *)
(* later start no more than the file keeps (execution_engine.hpp:146-172,  *)
(* trade_recorder.hpp:64-87, 211-218).                                     *)
THEOREM TaughtOncePerRun == Spec => []CountedOncePerRun
<1>1. LearnerInv /\ TaughtInv => CountedOncePerRun
  <2> SUFFICES ASSUME LearnerInv, TaughtInv PROVE CountedOncePerRun
    OBVIOUS
  <2> DEFINE m == crashes * Restored
  <2>1. /\ m \in Nat /\ everClosed \in Nat /\ everTraded \in Nat /\ Untaught \in Nat
        /\ Lessons = everClosed + everTraded + m - Untaught
    BY LessonsType DEF TaughtInv, Lessons
  <2>2. Taught(learner) <= Lessons /\ Taught(learner) \in Int
    BY TaughtType DEF TaughtInv, Tables, LearnerInv, Table
  <2> HIDE DEF m
  <2>3. Taught(learner) <= everClosed + everTraded + m
    BY <2>1, <2>2
  <2> QED BY <2>3 DEF CountedOncePerRun, m, Restored
<1>2. Spec => []TaughtInv
  BY TaughtInit, TaughtNext, TrackerAlways, LearnerAlways, PTL DEF Spec
<1> QED BY <1>1, <1>2, LearnerAlways, PTL
=============================================================================

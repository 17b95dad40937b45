----------------------------- MODULE BoundaryProofs -----------------------------
(* Theorems about the three small components between the engine and the network;
   they share nothing, and each theorem is about the specification of one: RateLimiter, for every rate, burst, number of
   callers and division of a second; WebhookLimiter, for every limit, window and
   set of addresses; and BitgetWS, for every timing. *)
EXTENDS RateLimiter, WebhookLimiter, BitgetWS, SetSumsProofs, SequenceTheorems

(* The size of the bucket is a positive number. *)
LEMMA FullType == Full \in Nat /\ Full >= Second
<1>1. Burst * Second \in Nat /\ Burst * Second >= Second
  BY RateAssumption
<1> QED BY <1>1 DEF Full

(* What is available lies between what was left and a full bucket. *)
LEMMA AvailableType ==
    ASSUME TypeOK
    PROVE  Available \in 0..Full
<1>1. tokens + elapsed * Rate \in Nat
  <2>1. elapsed * Rate \in Nat
    BY RateAssumption DEF TypeOK
  <2> QED BY <2>1, FullType DEF TypeOK
<1> QED BY <1>1, FullType DEF Available, Smaller

(* Ticks are worth a number of units. *)
LEMMA TicksWorth ==
    ASSUME NEW n \in Nat
    PROVE  n * Rate \in Nat
BY RateAssumption

(* So does what is available after a step. *)
LEMMA AvailableAfter ==
    ASSUME TypeOK'
    PROVE  Available' \in 0..Full
<1>1. tokens' + elapsed' * Rate \in Nat /\ tokens' \in 0..Full
  <2>1. elapsed' \in Nat /\ tokens' \in 0..Full
    BY DEF TypeOK, Full
  <2>2. elapsed' * Rate \in Nat
    BY <2>1, TicksWorth
  <2> QED BY <2>1, <2>2, FullType
<1> QED BY <1>1, FullType DEF Available, Smaller, Full

(* A refill that was just made has nothing to add. *)
LEMMA JustRefilled ==
    ASSUME elapsed' = 0, tokens' \in 0..Full
    PROVE  Available' = tokens'
<1>1. elapsed' * Rate = 0
  BY RateAssumption
<1>2. tokens' + elapsed' * Rate = tokens'
  BY <1>1, FullType
<1> QED BY <1>2, FullType DEF Available, Smaller

(* A tick is worth Rate units at most. *)
LEMMA TickWorth ==
    ASSUME TypeOK, Tick
    PROVE  Available' <= Available + Rate
<1>1. tokens' = tokens /\ elapsed' \in {elapsed, elapsed + 1}
  BY DEF Tick
<1>2. CASE elapsed' = elapsed
  BY <1>1, <1>2, AvailableType, FullType, RateAssumption DEF Available
<1>3. CASE elapsed' = elapsed + 1
  <2>1. (elapsed + 1) * Rate = elapsed * Rate + Rate /\ elapsed * Rate \in Nat
    BY RateAssumption DEF TypeOK
  <2>2. DEFINE x == elapsed * Rate
  <2>3. /\ Available = Smaller(Full, tokens + x)
        /\ Available' = Smaller(Full, tokens + (x + Rate))
    BY <1>1, <1>3, <2>1 DEF Available
  <2>4. x \in Nat /\ tokens \in Nat /\ Full \in Nat /\ Rate \in Nat
    BY <2>1, FullType, RateAssumption DEF TypeOK
  <2> HIDE DEF x
  <2> QED BY <2>3, <2>4 DEF Smaller
<1> QED BY <1>1, <1>2, <1>3

(* The initial state satisfies the invariant. *)
LEMMA RateInvInit == Init => RateInv
<1> SUFFICES ASSUME Init PROVE RateInv
  OBVIOUS
<1>1. TypeOK
  BY FullType, RateAssumption DEF Init, TypeOK
<1>2. ASSUME NEW j \in 0..(Second - 1)
      PROVE  granted[j] * Second + Available <= Full + j * Rate
  <2>1. granted[j] * Second = 0 /\ j * Rate \in Nat
    BY RateAssumption DEF Init
  <2> QED BY <2>1, <1>1, AvailableType, FullType
<1> QED BY <1>1, <1>2 DEF RateInv, Conserved

(* Every step keeps the types. *)
LEMMA RateTypeStep ==
    ASSUME TypeOK, [Next]_vars
    PROVE  TypeOK'
<1>1. ASSUME NEW c \in Callers, Call(c) \/ Take(c) \/ Sleep(c)
      PROVE  TypeOK'
  <2>1. CASE Call(c)
    BY <2>1 DEF Call, TypeOK, Full
  <2>2. CASE Take(c)
    <3>1. tokens' \in 0..Full'
      BY <2>2, AvailableType, FullType, RateAssumption DEF Take, Full
    <3>2. granted' \in [0..(Second - 1) -> Nat]
      BY <2>2 DEF Take, TypeOK
    <3> QED BY <2>2, <3>1, <3>2 DEF Take, TypeOK
  <2>3. CASE Sleep(c)
    <3>1. tokens' \in 0..Full'
      BY <2>3, AvailableType DEF Sleep, Full
    <3> QED BY <2>3, <3>1 DEF Sleep, TypeOK
  <2> QED BY <1>1, <2>1, <2>2, <2>3
<1>2. CASE Tick
  <2>1. granted' \in [0..(Second - 1) -> Nat]
    BY <1>2, RateAssumption DEF Tick, TypeOK
  <2>2. pc' \in [Callers -> {"idle", "try", "sleep"}]
    BY <1>2 DEF Tick, TypeOK
  <2> QED BY <1>2, <2>1, <2>2 DEF Tick, TypeOK, Full
<1>3. CASE UNCHANGED vars
  BY <1>3 DEF vars, TypeOK, Full
<1> QED BY <1>1, <1>2, <1>3 DEF Next

(* Every step keeps the balance between tokens given and tokens left. *)
LEMMA ConservedStep ==
    ASSUME TypeOK, TypeOK', Conserved, [Next]_vars
    PROVE  Conserved'
<1> SUFFICES ASSUME NEW j \in 0..(Second - 1)
             PROVE  granted'[j] * Second + Available' <= Full + j * Rate
  BY DEF Conserved, Full
<1>0. /\ granted[j] * Second + Available <= Full + j * Rate
      /\ granted[j] * Second \in Nat /\ j * Rate \in Nat /\ Available \in Nat
  <2>1. granted[j] * Second \in Nat /\ j * Rate \in Nat
    BY RateAssumption DEF TypeOK
  <2> QED BY <2>1, AvailableType, FullType DEF Conserved
<1>1. ASSUME NEW c \in Callers, Call(c)
      PROVE  granted'[j] * Second + Available' <= Full + j * Rate
  BY <1>0, <1>1 DEF Call, Available, Full
<1>2. ASSUME NEW c \in Callers, Take(c)
      PROVE  granted'[j] * Second + Available' <= Full + j * Rate
  <2>1. Available' = Available - Second
    BY <1>2, AvailableType, FullType, RateAssumption, JustRefilled DEF Take
  <2>2. granted'[j] * Second = granted[j] * Second + Second
    BY <1>2, RateAssumption DEF Take, TypeOK
  <2> QED BY <1>0, <2>1, <2>2, FullType, RateAssumption
<1>3. ASSUME NEW c \in Callers, Sleep(c)
      PROVE  granted'[j] * Second + Available' <= Full + j * Rate
  <2>1. Available' = Available
    BY <1>3, AvailableType, JustRefilled DEF Sleep
  <2> QED BY <1>0, <1>3, <2>1 DEF Sleep
<1>4. CASE Tick
  <2>1. CASE j = 0
    <3>1. granted'[j] * Second = 0
      BY <1>4, <2>1, RateAssumption DEF Tick
    <3>2. Available' <= Full /\ Available' \in Nat
      BY AvailableAfter, FullType
    <3> QED BY <1>0, <3>1, <3>2, FullType
  <2>2. CASE j # 0
    <3>1. j - 1 \in 0..(Second - 1) /\ granted'[j] = granted[j - 1]
      BY <1>4, <2>2, RateAssumption DEF Tick
    <3>2. granted[j - 1] * Second + Available <= Full + (j - 1) * Rate
      BY <3>1 DEF Conserved
    <3>3. (j - 1) * Rate + Rate = j * Rate /\ (j - 1) * Rate \in Nat
      BY <3>1, RateAssumption
    <3>4. Available' <= Available + Rate
      BY <1>4, TickWorth
    <3>5. granted[j - 1] * Second \in Nat
      BY <3>1, RateAssumption DEF TypeOK
    <3>6. Available' \in Int
      BY AvailableAfter, FullType
    <3> QED BY <1>0, <3>1, <3>2, <3>3, <3>4, <3>5, <3>6, FullType, RateAssumption
  <2> QED BY <2>1, <2>2
<1>5. CASE UNCHANGED vars
  BY <1>0, <1>5 DEF vars, Available
<1> QED BY <1>1, <1>2, <1>3, <1>4, <1>5 DEF Next

(* Every step keeps the invariant. *)
LEMMA RateInvStep == RateInv /\ [Next]_vars => RateInv'
BY RateTypeStep, ConservedStep DEF RateInv

(* The bucket neither makes nor loses tokens by being refilled lazily (refill,
   try_acquire, acquire). *)
THEOREM RateInvariant == Spec => []RateInv
BY RateInvInit, RateInvStep, PTL DEF Spec

(* Within one second fewer requests pass than the burst and the rate together,
   for every rate; not fewer than the rate, as a full bucket can be spent and
   refilled within the second. *)
THEOREM BurstBounded == Spec => []BurstBound
<1>1. RateInv => BurstBound
  <2> SUFFICES ASSUME RateInv, granted[Second - 1] >= Burst + Rate PROVE FALSE
    BY RateAssumption DEF RateInv, TypeOK, BurstBound
  <2>1. granted[Second - 1] \in Nat /\ Second - 1 \in 0..(Second - 1)
    BY RateAssumption DEF RateInv, TypeOK
  <2>2. granted[Second - 1] * Second >= (Burst + Rate) * Second
    BY <2>1, RateAssumption
  <2>3. /\ (Burst + Rate) * Second = Burst * Second + Rate * Second
        /\ (Second - 1) * Rate = Rate * Second - Rate
        /\ Rate * Second \in Nat
    BY RateAssumption
  <2>4. granted[Second - 1] * Second + Available <= Full + (Second - 1) * Rate
    BY <2>1 DEF RateInv, Conserved
  <2>5. granted[Second - 1] * Second \in Nat /\ Available \in Nat
    BY <2>1, RateAssumption, AvailableType, FullType DEF RateInv
  <2> QED BY <2>2, <2>3, <2>4, <2>5, FullType, RateAssumption DEF Full
<1> QED BY <1>1, RateInvariant, PTL

-----------------------------------------------------------------------------
(* WebhookLimiter *)

Age == 0 .. (Window + 1)

(* The requests of an address are those admitted: as many, the youngest at
   the end, as young as the history says.  Hence they are sorted, and a list
   is never too short for the requests that still count. *)
Counted(list, history) ==
    \A j \in 0 .. Window :
        /\ history[j] <= Len(list)
        /\ \A i \in 1 .. Len(list) : list[i] <= j <=> i > Len(list) - history[j]

WebhookInv ==
    /\ LimiterTypeOK
    /\ \A a \in Addresses :
         /\ Counted(requests[a], admitted[a])
         /\ admitted[a][Window] <= Limit
         /\ a \notin known => requests[a] = <<>>

(* A counted list is sorted by age. *)
LEMMA CountedSorted ==
    ASSUME Window \in Nat, NEW list \in Seq(Age), NEW history \in [0 .. Window -> Nat],
           Counted(list, history),
           NEW i \in 1 .. Len(list), NEW j \in 1 .. Len(list), i < j
    PROVE  list[i] >= list[j]
<1>1. list[i] \in Age /\ list[j] \in Age /\ Len(list) \in Nat
  BY ElementOfSeq, LenProperties
<1>2. CASE list[i] = Window + 1
  BY <1>1, <1>2 DEF Age
<1>3. CASE list[i] \in 0 .. Window
  <2>1. list[i] <= list[i] => i > Len(list) - history[list[i]]
    BY <1>3 DEF Counted
  <2>2. j > Len(list) - history[list[i]] => list[j] <= list[i]
    BY <1>3 DEF Counted
  <2>3. history[list[i]] \in Nat
    BY <1>3
  <2> QED BY <1>1, <1>3, <2>1, <2>2, <2>3 DEF Age
<1> QED BY <1>1, <1>2, <1>3 DEF Age

(* More requests count for a longer time. *)
LEMMA CountedGrows ==
    ASSUME Window \in Nat, NEW list \in Seq(Age), NEW history \in [0 .. Window -> Nat],
           Counted(list, history), NEW j \in 0 .. Window
    PROVE  history[j] <= history[Window]
<1> DEFINE i == Len(list) - history[j] + 1
<1>1. /\ history[j] \in Nat /\ history[Window] \in Nat /\ Len(list) \in Nat
      /\ history[j] <= Len(list)
  BY LenProperties DEF Counted
<1>2. CASE history[j] = 0
  BY <1>1, <1>2
<1>3. CASE history[j] # 0
  <2>1. i \in 1 .. Len(list) /\ i > Len(list) - history[j]
    BY <1>1, <1>3
  <2> HIDE DEF i
  <2>2. list[i] <= j /\ list[i] \in Age
    BY <2>1, ElementOfSeq DEF Counted
  <2>3. list[i] <= Window
    BY <2>2 DEF Age
  <2>4. i > Len(list) - history[Window]
    BY <2>1, <2>3 DEF Counted
  <2> QED BY <1>1, <2>4 DEF i
<1> QED BY <1>2, <1>3

(* Pruning from the front leaves the requests that count, all of them. *)
LEMMA PrunedCounts ==
    ASSUME WebhookInv, NEW a \in Addresses
    PROVE  /\ Pruned(a) \in Seq(Age)
           /\ Len(Pruned(a)) = admitted[a][Window]
           /\ Counted(Pruned(a), admitted[a])
<1> DEFINE list == requests[a]
           history == admitted[a]
           n == Len(list)
           k == n - history[Window]
           gone == {i \in 1 .. n : \A j \in 1 .. i : list[j] \notin 0 .. Window}
           rest == SubSeq(list, k + 1, n)
<1>0. Window \in Nat
  BY LimiterAssumption
<1>1. /\ list \in Seq(Age) /\ history \in [0 .. Window -> Nat] /\ Counted(list, history)
      /\ n \in Nat
  BY LenProperties DEF WebhookInv, LimiterTypeOK, Age
<1> HIDE DEF list, history
<1>2. history[Window] \in Nat /\ history[Window] <= n
  BY <1>0, <1>1 DEF Counted
<1>3. k \in 0 .. n
  BY <1>1, <1>2
<1>4. \A i \in 1 .. n : list[i] \in Age /\ (list[i] \in 0 .. Window <=> i > k)
  <2> SUFFICES ASSUME NEW i \in 1 .. n
               PROVE  list[i] \in Age /\ (list[i] \in 0 .. Window <=> i > k)
    OBVIOUS
  <2>1. list[i] \in Age
    BY <1>1, ElementOfSeq
  <2>2. list[i] <= Window <=> i > k
    BY <1>0, <1>1 DEF Counted
  <2> QED BY <1>0, <2>1, <2>2 DEF Age
<1> HIDE DEF n, k
<1>5. gone = 1 .. k
  <2>1. ASSUME NEW i \in gone PROVE i \in 1 .. k
    <3>1. i \in 1 .. n /\ list[i] \notin 0 .. Window
      BY <1>1
    <3> QED BY <1>1, <1>3, <1>4, <3>1
  <2>2. ASSUME NEW i \in 1 .. k PROVE i \in gone
    BY <1>1, <1>3, <1>4, <2>2
  <2> QED BY <2>1, <2>2
<1>6. Cardinality(gone) = k
  <2>1. k \in Int /\ 1 \in Int /\ (IF 1 > k THEN 0 ELSE k - 1 + 1) = k
    BY <1>3
  <2>2. Cardinality(1 .. k) = k
    BY <2>1, FS_Interval
  <2> QED BY <1>5, <2>2
<1>7. Pruned(a) = rest
  <2>1. Pruned(a) = SubSeq(list, Cardinality(gone) + 1, n)
    BY DEF Pruned, WithoutFirst, Recent, list, n
  <2> HIDE DEF gone
  <2> QED BY <1>6, <2>1
<1>8. /\ rest \in Seq(Age) /\ Len(rest) = n - k
      /\ \A i \in 1 .. n - k : rest[i] = list[k + i]
  <2>1. \A i \in k + 1 .. n : list[i] \in Age
    BY <1>1, <1>3, <1>4
  <2>2. /\ rest \in Seq(Age) /\ Len(rest) = IF k + 1 <= n THEN n - (k + 1) + 1 ELSE 0
        /\ \A i \in 1 .. n - (k + 1) + 1 : rest[i] = list[(k + 1) + i - 1]
    BY <1>1, <1>3, <2>1, SubSeqProperties DEF n
  <2> HIDE DEF rest
  <2>3. Len(rest) = n - k
    BY <1>1, <1>3, <2>2
  <2>4. \A i \in 1 .. n - k : (k + 1) + i - 1 = k + i /\ i \in 1 .. n - (k + 1) + 1
    BY <1>1, <1>3
  <2> QED BY <2>2, <2>3, <2>4
<1> HIDE DEF rest
<1>9. n - k = history[Window]
  BY <1>1, <1>2 DEF k
<1>10. Counted(rest, history)
  <2> SUFFICES ASSUME NEW j \in 0 .. Window
               PROVE  /\ history[j] <= Len(rest)
                      /\ \A i \in 1 .. Len(rest) :
                            rest[i] <= j <=> i > Len(rest) - history[j]
    BY DEF Counted
  <2>1. history[j] <= Len(rest) /\ history[j] \in Nat
    BY <1>0, <1>1, <1>8, <1>9, CountedGrows
  <2>2. ASSUME NEW i \in 1 .. Len(rest)
        PROVE  rest[i] <= j <=> i > Len(rest) - history[j]
    <3>1. k + i \in 1 .. n /\ rest[i] = list[k + i]
      BY <1>1, <1>3, <1>8
    <3>2. list[k + i] <= j <=> k + i > n - history[j]
      BY <1>1, <3>1 DEF Counted, n
    <3> QED BY <1>1, <1>3, <1>8, <2>1, <3>1, <3>2
  <2> QED BY <2>1, <2>2
<1> QED BY <1>7, <1>8, <1>9, <1>10 DEF history

LEMMA WindowPositive == Window \in Nat \ {0} /\ Limit \in Nat /\ Every \in Nat \ {0}
BY LimiterAssumption

LEMMA WebhookInit == ASSUME LimiterInit PROVE WebhookInv
<1>1. <<>> \in Seq(Age) /\ Len(<<>>) = 0
  OBVIOUS
<1>2. LimiterTypeOK
  BY <1>1, WindowPositive DEF LimiterInit, LimiterTypeOK, Age
<1>3. ASSUME NEW a \in Addresses
      PROVE  requests[a] = <<>> /\ \A j \in 0 .. Window : admitted[a][j] = 0
  BY DEF LimiterInit
<1>4. ASSUME NEW a \in Addresses PROVE Counted(requests[a], admitted[a])
  BY <1>1, <1>3 DEF Counted
<1> QED BY <1>2, <1>3, <1>4, WindowPositive DEF WebhookInv

(* A request turned away counts for nothing; the pruning is kept. *)
LEMMA RejectStep ==
    ASSUME WebhookInv, NEW a \in Addresses, Reject(a)
    PROVE  WebhookInv'
<1> DEFINE list == Pruned(a)
<1>1. /\ list \in Seq(Age) /\ Counted(list, admitted[a])
  BY PrunedCounts
<1> HIDE DEF list
<1>2. /\ known' = known \cup {a} /\ requests' = [requests EXCEPT ![a] = list]
      /\ checks' = checks /\ admitted' = admitted
  BY DEF Reject, list
<1>3. LimiterTypeOK'
  BY <1>1, <1>2 DEF WebhookInv, LimiterTypeOK, Age
<1>4. ASSUME NEW b \in Addresses
      PROVE  /\ Counted(requests'[b], admitted'[b])
             /\ admitted'[b][Window] <= Limit
             /\ b \notin known' => requests'[b] = <<>>
  <2>1. requests'[b] = IF b = a THEN list ELSE requests[b]
    BY <1>2 DEF WebhookInv, LimiterTypeOK
  <2> QED BY <1>1, <1>2, <2>1 DEF WebhookInv
<1> QED BY <1>3, <1>4 DEF WebhookInv

(* One let through is the youngest, and counts at every age. *)
LEMMA AdmittedCounts ==
    ASSUME Window \in Nat, NEW list \in Seq(Age), NEW history \in [0 .. Window -> Nat],
           Counted(list, history)
    PROVE  /\ Append(list, 0) \in Seq(Age)
           /\ Counted(Append(list, 0), [j \in 0 .. Window |-> history[j] + 1])
<1> DEFINE more == Append(list, 0)
           now == [j \in 0 .. Window |-> history[j] + 1]
<1>1. /\ more \in Seq(Age) /\ Len(more) = Len(list) + 1 /\ Len(list) \in Nat
      /\ more[Len(list) + 1] = 0 /\ \A i \in 1 .. Len(list) : more[i] = list[i]
  BY AppendProperties, LenProperties DEF Age
<1> HIDE DEF more
<1>2. ASSUME NEW j \in 0 .. Window
      PROVE  /\ now[j] <= Len(more)
             /\ \A i \in 1 .. Len(more) : more[i] <= j <=> i > Len(more) - now[j]
  <2>1. now[j] = history[j] + 1 /\ history[j] \in Nat /\ history[j] <= Len(list)
    BY DEF Counted
  <2>2. ASSUME NEW i \in 1 .. Len(more) PROVE more[i] <= j <=> i > Len(more) - now[j]
    <3>1. CASE i = Len(list) + 1
      BY <1>1, <2>1, <3>1
    <3>2. CASE i \in 1 .. Len(list)
      <4>1. list[i] <= j <=> i > Len(list) - history[j]
        BY <3>2 DEF Counted
      <4> QED BY <1>1, <2>1, <3>2, <4>1
    <3> QED BY <1>1, <3>1, <3>2
  <2> QED BY <1>1, <2>1, <2>2
<1> QED BY <1>1, <1>2 DEF Counted, more

LEMMA AdmitStep ==
    ASSUME WebhookInv, NEW a \in Addresses, Admit(a)
    PROVE  WebhookInv'
<1> DEFINE list == Pruned(a)
           more == Append(list, 0)
           now == [j \in 0 .. Window |-> admitted[a][j] + 1]
<1>1. /\ list \in Seq(Age) /\ Counted(list, admitted[a]) /\ Len(list) = admitted[a][Window]
      /\ Window \in Nat /\ admitted[a] \in [0 .. Window -> Nat]
  BY PrunedCounts, WindowPositive DEF WebhookInv, LimiterTypeOK
<1>2. /\ requests' = [requests EXCEPT ![a] = more] /\ checks' = (checks + 1) % Every
      /\ admitted' = [admitted EXCEPT ![a] = now] /\ Len(list) < Limit
      /\ known' = IF checks' = 0
                  THEN {b \in known \cup {a} : requests'[b] # <<>>}
                  ELSE known \cup {a}
  BY DEF Admit
<1> HIDE DEF list
<1>3. more \in Seq(Age) /\ Counted(more, now)
  BY <1>1, AdmittedCounts
<1>4. now \in [0 .. Window -> Nat] /\ now[Window] <= Limit
  <2>1. \A j \in 0 .. Window : admitted[a][j] + 1 \in Nat
    BY <1>1
  <2>2. now[Window] = admitted[a][Window] + 1 /\ admitted[a][Window] \in Nat
    BY <1>1
  <2> QED BY <1>1, <1>2, <2>1, <2>2, WindowPositive
<1> HIDE DEF more, now
<1>5. checks' \in 0 .. (Every - 1)
  BY <1>2, WindowPositive DEF WebhookInv, LimiterTypeOK
<1>6. known' \subseteq Addresses
  BY <1>2 DEF WebhookInv, LimiterTypeOK
<1>7. LimiterTypeOK'
  BY <1>2, <1>3, <1>4, <1>5, <1>6 DEF WebhookInv, LimiterTypeOK, Age
<1>8. ASSUME NEW b \in Addresses
      PROVE  /\ Counted(requests'[b], admitted'[b])
             /\ admitted'[b][Window] <= Limit
             /\ b \notin known' => requests'[b] = <<>>
  <2>1. /\ requests'[b] = IF b = a THEN more ELSE requests[b]
        /\ admitted'[b] = IF b = a THEN now ELSE admitted[b]
    BY <1>2 DEF WebhookInv, LimiterTypeOK
  <2>2. b \notin known' => requests'[b] = <<>>
    BY <1>2, <2>1 DEF WebhookInv
  <2> QED BY <1>3, <1>4, <2>1, <2>2 DEF WebhookInv
<1> QED BY <1>7, <1>8 DEF WebhookInv

(* A tick makes every request older, and the history with them. *)
LEMMA AgedCounts ==
    ASSUME Window \in Nat \ {0}, NEW list \in Seq(Age), NEW history \in [0 .. Window -> Nat],
           Counted(list, history)
    PROVE  /\ [i \in 1 .. Len(list) |-> Older(list[i])] \in Seq(Age)
           /\ Len([i \in 1 .. Len(list) |-> Older(list[i])]) = Len(list)
           /\ Counted([i \in 1 .. Len(list) |-> Older(list[i])],
                      [j \in 0 .. Window |-> IF j = 0 THEN 0 ELSE history[j - 1]])
<1> DEFINE older == [i \in 1 .. Len(list) |-> Older(list[i])]
           now == [j \in 0 .. Window |-> IF j = 0 THEN 0 ELSE history[j - 1]]
<1>1. Len(list) \in Nat /\ \A i \in 1 .. Len(list) : list[i] \in Age
  BY LenProperties, ElementOfSeq
<1>2. \A i \in 1 .. Len(list) :
        /\ older[i] \in Age /\ ~(older[i] <= 0)
        /\ \A j \in 1 .. Window : older[i] <= j <=> list[i] <= j - 1
  BY <1>1 DEF Older, Age
<1>3. older \in Seq(Age) /\ Len(older) = Len(list)
  <2> DEFINE n == Len(list)
  <2>1. older = [i \in 1 .. n |-> older[i]]
    OBVIOUS
  <2> HIDE DEF older
  <2>2. older \in [1 .. n -> Age]
    BY <1>2, <2>1
  <2>3. older \in Seq(Age) /\ DOMAIN older = 1 .. n
    <3>1. n \in Nat
      BY <1>1
    <3>2. [1 .. n -> Age] \subseteq Seq(Age)
      BY ONLY <3>1, SeqDef
    <3>3. DOMAIN older = 1 .. n
      BY ONLY <2>2
    <3> QED BY ONLY <2>2, <3>2, <3>3
  <2> QED BY <1>1, <2>3, LenProperties
<1> HIDE DEF older
<1>4. ASSUME NEW j \in 0 .. Window
      PROVE  /\ now[j] <= Len(older)
             /\ \A i \in 1 .. Len(older) : older[i] <= j <=> i > Len(older) - now[j]
  <2>1. CASE j = 0
    BY <1>1, <1>2, <1>3, <2>1
  <2>2. CASE j # 0
    <3>1. now[j] = history[j - 1] /\ j - 1 \in 0 .. Window /\ j \in 1 .. Window
      BY <2>2
    <3>2. /\ history[j - 1] <= Len(list) /\ history[j - 1] \in Nat
          /\ \A i \in 1 .. Len(list) : list[i] <= j - 1 <=> i > Len(list) - history[j - 1]
      BY <3>1 DEF Counted
    <3> QED BY <1>2, <1>3, <3>1, <3>2
  <2> QED BY <2>1, <2>2
<1> QED BY <1>3, <1>4 DEF Counted, older

LEMMA WebhookTick ==
    ASSUME WebhookInv, LimiterTick
    PROVE  WebhookInv'
<1>1. ASSUME NEW a \in Addresses
      PROVE  /\ requests[a] \in Seq(Age) /\ admitted[a] \in [0 .. Window -> Nat]
             /\ Counted(requests[a], admitted[a]) /\ admitted[a][Window] <= Limit
             /\ requests'[a] = [i \in 1 .. Len(requests[a]) |-> Older(requests[a][i])]
             /\ admitted'[a] = [j \in 0 .. Window |-> IF j = 0 THEN 0 ELSE admitted[a][j - 1]]
  BY DEF WebhookInv, LimiterTypeOK, LimiterTick, Age
<1>2. ASSUME NEW a \in Addresses
      PROVE  /\ requests'[a] \in Seq(Age) /\ Counted(requests'[a], admitted'[a])
             /\ Len(requests'[a]) = Len(requests[a])
  <2> DEFINE list == requests[a]
             history == admitted[a]
             older == [i \in 1 .. Len(list) |-> Older(list[i])]
             now == [j \in 0 .. Window |-> IF j = 0 THEN 0 ELSE history[j - 1]]
  <2>1. /\ list \in Seq(Age) /\ history \in [0 .. Window -> Nat] /\ Counted(list, history)
        /\ requests'[a] = older /\ admitted'[a] = now
    BY <1>1
  <2> HIDE DEF list, history
  <2>2. older \in Seq(Age) /\ Len(older) = Len(list) /\ Counted(older, now)
    BY <2>1, AgedCounts, WindowPositive
  <2> HIDE DEF older, now
  <2>3. requests'[a] \in Seq(Age) /\ Counted(requests'[a], admitted'[a])
        /\ Len(requests'[a]) = Len(list)
    BY <2>1, <2>2
  <2> QED BY <2>3 DEF list
<1>3. ASSUME NEW a \in Addresses
      PROVE  admitted'[a] \in [0 .. Window -> Nat] /\ admitted'[a][Window] <= Limit
  <2> DEFINE history == admitted[a]
             now == [j \in 0 .. Window |-> IF j = 0 THEN 0 ELSE history[j - 1]]
  <2>1. /\ history \in [0 .. Window -> Nat] /\ Counted(requests[a], history)
        /\ history[Window] <= Limit /\ admitted'[a] = now /\ requests[a] \in Seq(Age)
    BY <1>1
  <2> HIDE DEF history
  <2>2. \A j \in 0 .. Window : j # 0 => j - 1 \in 0 .. Window
    BY WindowPositive
  <2>3. \A j \in 0 .. Window : (IF j = 0 THEN 0 ELSE history[j - 1]) \in Nat
    BY <2>1, <2>2
  <2>4. now \in [0 .. Window -> Nat] /\ now[Window] = history[Window - 1]
    BY <2>3, WindowPositive
  <2>5. Window - 1 \in 0 .. Window /\ Window \in 0 .. Window /\ Window \in Nat
    BY WindowPositive
  <2>6. history[Window - 1] <= history[Window]
    BY <2>1, <2>5, CountedGrows
  <2>7. history[Window - 1] \in Nat /\ history[Window] \in Nat
    BY <2>1, <2>5
  <2> QED BY <2>1, <2>4, <2>6, <2>7, WindowPositive
<1>4. ASSUME NEW a \in Addresses, a \notin known' PROVE requests'[a] = <<>>
  <2>1. requests[a] = <<>>
    BY <1>4 DEF WebhookInv, LimiterTick
  <2>2. Len(requests'[a]) = 0
    BY <1>2, <2>1
  <2> QED BY <1>2, <2>2, EmptySeq
<1>5. LimiterTypeOK'
  <2>1. /\ requests' \in [Addresses -> Seq(Age)]
        /\ admitted' \in [Addresses -> [0 .. Window -> Nat]]
    BY <1>2, <1>3 DEF LimiterTick
  <2> QED BY <2>1 DEF WebhookInv, LimiterTypeOK, LimiterTick, Age
<1> QED BY <1>2, <1>3, <1>4, <1>5 DEF WebhookInv

LEMMA WebhookAlways == LimiterSpec => []WebhookInv
<1>1. LimiterInit => WebhookInv
  BY WebhookInit
<1>2. WebhookInv /\ [LimiterNext]_limiterVars => WebhookInv'
  <2> SUFFICES ASSUME WebhookInv, [LimiterNext]_limiterVars PROVE WebhookInv'
    OBVIOUS
  <2>1. CASE UNCHANGED limiterVars
    BY <2>1 DEF limiterVars, WebhookInv, LimiterTypeOK
  <2>2. CASE LimiterNext
    BY <2>2, AdmitStep, RejectStep, WebhookTick DEF LimiterNext
  <2> QED BY <2>1, <2>2
<1> QED BY <1>1, <1>2, PTL DEF LimiterSpec

(* However the requests of an address come, are pruned and erased, at most
   Limit of them pass in a window, and its list is sorted by age. *)
THEOREM WindowHolds == LimiterSpec => []LimiterInv
<1>1. WebhookInv => LimiterInv
  <2> SUFFICES ASSUME WebhookInv, NEW a \in Addresses
               PROVE  /\ admitted[a][Window] <= Limit
                      /\ \A i, j \in 1 .. Len(requests[a]) :
                            i < j => requests[a][i] >= requests[a][j]
                      /\ a \notin known => requests[a] = <<>>
    BY DEF LimiterInv, WindowLimit, InWindow, WebhookInv
  <2>1. /\ requests[a] \in Seq(Age) /\ admitted[a] \in [0 .. Window -> Nat]
        /\ Counted(requests[a], admitted[a]) /\ Window \in Nat
    BY WindowPositive DEF WebhookInv, LimiterTypeOK, Age
  <2> QED BY <2>1, CountedSorted DEF WebhookInv
<1> QED BY <1>1, WebhookAlways, PTL

(* And none is turned away as long as its address has not used them up. *)
THEOREM OnlyExcessRejected == LimiterSpec => []RejectJustified
<1>1. WebhookInv => RejectJustified
  <2> SUFFICES ASSUME WebhookInv, NEW a \in Addresses, Len(Pruned(a)) >= Limit
               PROVE  admitted[a][Window] = Limit
    BY DEF RejectJustified, InWindow
  <2>1. Len(Pruned(a)) = admitted[a][Window] /\ admitted[a][Window] <= Limit
    BY PrunedCounts DEF WebhookInv
  <2>2. admitted[a][Window] \in Nat
    BY WindowPositive DEF WebhookInv, LimiterTypeOK
  <2> QED BY <2>1, <2>2, WindowPositive
<1> QED BY <1>1, WebhookAlways, PTL

-----------------------------------------------------------------------------
(* BitgetWS *)

Message == {"loggedIn", "refused", "ack", "error", "pong", "push", "odd"}

Link == [state : {"none", "open", "closed", "silent"}, user : BOOLEAN, channels : BOOLEAN,
         asked : SUBSET {"login", "subscribe", "ping"}]

Away == {"top", "connect", "wait", "done"}

(* A word of a login that succeeded is only on a connection with a user, and
   the thread is past the login only on such a one. *)
ClientInv ==
    /\ inbox \in Seq(Message) /\ link \in Link
    /\ running \in BOOLEAN /\ connected \in BOOLEAN
    /\ at \in Away \cup {"login", "ack", "loop", "read"}
    /\ at \in Away => link = NoLink /\ inbox = <<>>
    /\ \A i \in 1 .. Len(inbox) : inbox[i] = "loggedIn" => link.user
    /\ at \in {"ack", "loop", "read"} => link.user
    /\ at \in {"loop", "read"} => connected
    /\ connected => at \in {"loop", "read"} \/ ~running

LEMMA NoLinkType == NoLink \in Link
BY DEF NoLink, Link

LEMMA EmptyInbox == <<>> \in Seq(Message) /\ Len(<<>>) = 0
OBVIOUS

LEMMA ClientStarts == ClientInit => ClientInv
<1> SUFFICES ASSUME ClientInit PROVE ClientInv
  OBVIOUS
<1>1. /\ running = TRUE /\ connected = FALSE /\ at = "top" /\ link = NoLink
      /\ inbox = <<>>
  BY DEF ClientInit
<1>2. inbox \in Seq(Message) /\ 1 .. Len(inbox) = {} /\ link \in Link
  BY <1>1, NoLinkType, EmptyInbox
<1> QED BY <1>1, <1>2 DEF ClientInv, Away

LEMMA ThrowStep == ASSUME ClientInv, Throw PROVE ClientInv'
<1>1. /\ connected' = FALSE /\ link' = NoLink /\ inbox' = <<>> /\ at' \in {"wait", "done"}
      /\ running' = running
  BY DEF Throw
<1>2. inbox' \in Seq(Message) /\ 1 .. Len(inbox') = {} /\ link' \in Link
  BY <1>1, NoLinkType, EmptyInbox
<1> QED BY <1>1, <1>2 DEF ClientInv, Away

(* The first message is taken off the inbox. *)
LEMMA InboxTail ==
    ASSUME ClientInv, inbox # <<>>
    PROVE  /\ Tail(inbox) \in Seq(Message) /\ Head(inbox) \in Message
           /\ Head(inbox) = "loggedIn" => link.user
           /\ \A i \in 1 .. Len(Tail(inbox)) : Tail(inbox)[i] = "loggedIn" => link.user
<1>1. /\ inbox \in Seq(Message) /\ Len(inbox) \in Nat /\ Len(inbox) # 0
      /\ Tail(inbox) \in Seq(Message) /\ Len(Tail(inbox)) = Len(inbox) - 1
      /\ \A i \in 1 .. Len(Tail(inbox)) : Tail(inbox)[i] = inbox[i + 1]
      /\ Head(inbox) = inbox[1] /\ Head(inbox) \in Message
  BY HeadTailProperties, LenProperties, EmptySeq DEF ClientInv
<1>2. \A i \in 1 .. Len(Tail(inbox)) : i + 1 \in 1 .. Len(inbox)
  BY <1>1
<1>3. 1 \in 1 .. Len(inbox)
  BY <1>1
<1> QED BY <1>1, <1>2, <1>3 DEF ClientInv

(* What is asked and answered changes no user. *)
LEMMA LinkAsked ==
    ASSUME NEW l \in Link, NEW asked \in SUBSET {"login", "subscribe", "ping"}
    PROVE  /\ [l EXCEPT !.asked = asked] \in Link
           /\ [l EXCEPT !.asked = asked].user = l.user
BY DEF Link

LEMMA ThreadStep == ASSUME ClientInv, Thread PROVE ClientInv'
<1>1. CASE Top
  BY <1>1 DEF Top, linkVars, ClientInv, Away
<1>2. CASE SleepSecond \/ Retry
  BY <1>2 DEF SleepSecond, Retry, linkVars, ClientInv, Away
<1>3. CASE Connect
  <2>1. CASE net = "down"
    BY <1>3, <2>1, ThrowStep DEF Connect
  <2>2. CASE net # "down"
    <3>1. /\ at = "connect" /\ link' = [NoLink EXCEPT !.state = "open", !.asked = {"login"}]
          /\ at' = "login" /\ running' = running /\ connected' = connected /\ inbox' = inbox
      BY <1>3, <2>2 DEF Connect
    <3>2. link' \in Link
      BY <3>1 DEF NoLink, Link
    <3> QED BY <3>1, <3>2 DEF ClientInv, Away
  <2> QED BY <2>1, <2>2
<1>4. CASE ReadLogin
  <2>1. CASE Head(inbox) # "loggedIn"
    BY <1>4, <2>1, ThrowStep DEF ReadLogin
  <2>2. CASE Head(inbox) = "loggedIn"
    <3>1. /\ at = "login" /\ inbox # <<>> /\ at' = "ack" /\ inbox' = Tail(inbox)
          /\ link' = [link EXCEPT !.asked = link.asked \cup {"subscribe"}]
          /\ running' = running /\ connected' = connected
      BY <1>4, <2>2 DEF ReadLogin
    <3>2. link.asked \cup {"subscribe"} \in SUBSET {"login", "subscribe", "ping"}
      BY DEF ClientInv, Link
    <3>3. link' \in Link /\ link'.user = link.user
      BY <3>1, <3>2, LinkAsked DEF ClientInv
    <3> QED BY <2>2, <3>1, <3>3, InboxTail DEF ClientInv, Away
  <2> QED BY <2>1, <2>2
<1>5. CASE ReadAck
  <2>1. /\ at = "ack" /\ inbox # <<>> /\ at' = "loop" /\ inbox' = Tail(inbox)
        /\ connected' = TRUE /\ running' = running /\ link' = link
    BY <1>5 DEF ReadAck
  <2> QED BY <2>1, InboxTail DEF ClientInv, Away
<1>6. CASE Loop
  <2>1. CASE ~running
    <3>1. /\ at' = "top" /\ link' = NoLink /\ inbox' = <<>> /\ running' = running
          /\ connected' = connected
      BY <1>6, <2>1 DEF Loop, LoopEnds
    <3> QED BY <2>1, <3>1, NoLinkType DEF ClientInv, Away
  <2>2. CASE Throw
    BY <2>2, ThrowStep
  <2>3. CASE /\ at' = "read" /\ link' = [link EXCEPT !.asked = @ \cup {"ping"}]
             /\ running' = running /\ connected' = connected /\ inbox' = inbox
    <3>1. link' = [link EXCEPT !.asked = link.asked \cup {"ping"}]
      BY <2>3
    <3>2. link.asked \cup {"ping"} \in SUBSET {"login", "subscribe", "ping"}
      BY DEF ClientInv, Link
    <3>3. link' \in Link /\ link'.user = link.user
      BY <3>1, <3>2, LinkAsked DEF ClientInv
    <3> QED BY <1>6, <2>3, <3>3 DEF ClientInv, Away, Loop
  <2>4. CASE at' = "read" /\ UNCHANGED <<running, connected, link, inbox>>
    BY <1>6, <2>4 DEF ClientInv, Away, Loop
  <2> QED BY <1>6, <2>1, <2>2, <2>3, <2>4 DEF Loop, LoopEnds, linkVars
<1>7. CASE Read
  <2>1. CASE Head(inbox) = "odd"
    BY <1>7, <2>1, ThrowStep DEF Read
  <2>2. CASE Head(inbox) # "odd"
    <3>1. /\ at = "read" /\ inbox # <<>> /\ at' = "loop" /\ inbox' = Tail(inbox)
          /\ connected' = connected /\ running' = running /\ link' = link
      BY <1>7, <2>2 DEF Read
    <3> QED BY <3>1, InboxTail DEF ClientInv, Away
  <2> QED BY <2>1, <2>2
<1>8. CASE ReadFails
  BY <1>8, ThrowStep DEF ReadFails
<1> QED BY <1>1, <1>2, <1>3, <1>4, <1>5, <1>6, <1>7, <1>8 DEF Thread

(* A message more, about a login only if it was accepted. *)
LEMMA InboxSent ==
    ASSUME ClientInv, NEW message \in Message, Send(message),
           link' \in Link, link.user => link'.user, message = "loggedIn" => link'.user
    PROVE  /\ inbox' \in Seq(Message)
           /\ \A i \in 1 .. Len(inbox') : inbox'[i] = "loggedIn" => link'.user
<1>1. /\ inbox' = Append(inbox, message) /\ inbox \in Seq(Message)
      /\ link \in Link /\ link.user \in BOOLEAN
  BY DEF Send, ClientInv, Link
<1>2. /\ inbox' \in Seq(Message) /\ Len(inbox') = Len(inbox) + 1 /\ Len(inbox) \in Nat
      /\ inbox'[Len(inbox) + 1] = message
      /\ \A i \in 1 .. Len(inbox) : inbox'[i] = inbox[i]
  BY <1>1, AppendProperties, LenProperties
<1>3. \A i \in 1 .. Len(inbox') : i = Len(inbox) + 1 \/ i \in 1 .. Len(inbox)
  BY <1>2
<1> QED BY <1>2, <1>3 DEF ClientInv

LEMMA ExchangeStep == ASSUME ClientInv, Exchange PROVE ClientInv'
<1>0. link \in Link
  BY DEF ClientInv
<1>1. ASSUME NEW request \in {"login", "subscribe", "ping"}, Reply(request)
      PROVE  ClientInv'
  <2>1. at \notin Away /\ UNCHANGED <<running, connected, at>>
    BY <1>1 DEF Reply, NoLink, ClientInv
  <2>2. PICK message \in {"loggedIn", "refused", "ack", "error", "pong"} :
          /\ Send(message)
          /\ link' \in Link
          /\ link.user => link'.user
          /\ message = "loggedIn" => link'.user
    <3>1. link.asked \ {request} \in SUBSET {"login", "subscribe", "ping"}
      BY <1>0 DEF Link
    <3>2. CASE /\ Send("loggedIn")
               /\ link' = [link EXCEPT !.user = TRUE, !.asked = @ \ {request}]
      BY <1>0, <3>1, <3>2 DEF Link
    <3>3. CASE Send("refused") /\ link' = [link EXCEPT !.asked = @ \ {request}]
      BY <1>0, <3>1, <3>3 DEF Link
    <3>4. CASE /\ Send("ack")
               /\ link' = [link EXCEPT !.channels = link.user, !.asked = @ \ {request}]
      BY <1>0, <3>1, <3>4 DEF Link
    <3>5. CASE Send("pong") /\ link' = [link EXCEPT !.asked = @ \ {request}]
      BY <1>0, <3>1, <3>5 DEF Link
    <3>6. CASE Send("error") /\ link' = [link EXCEPT !.asked = @ \ {request}]
      BY <1>0, <3>1, <3>6 DEF Link
    <3> QED BY <1>1, <3>2, <3>3, <3>4, <3>5, <3>6 DEF Reply
  <2>3. message \in Message
    BY DEF Message
  <2>4. /\ inbox' \in Seq(Message)
        /\ \A i \in 1 .. Len(inbox') : inbox'[i] = "loggedIn" => link'.user
    BY <2>2, <2>3, InboxSent
  <2> QED BY <2>1, <2>2, <2>4 DEF ClientInv
<1>2. ASSUME NEW message \in {"push", "odd"}, Push(message) PROVE ClientInv'
  <2>1. at \notin Away /\ UNCHANGED <<running, connected, at, link>> /\ Send(message)
    BY <1>2 DEF Push, NoLink, ClientInv
  <2>2. /\ inbox' \in Seq(Message)
        /\ \A i \in 1 .. Len(inbox') : inbox'[i] = "loggedIn" => link'.user
    BY <1>0, <2>1, InboxSent DEF Message
  <2> QED BY <2>1, <2>2 DEF ClientInv
<1>3. ASSUME NEW state \in {"closed", "silent"}, link.state = "open", Becomes(state)
      PROVE  ClientInv'
  <2>1. at \notin Away /\ UNCHANGED <<running, connected, at, inbox>>
    BY <1>3 DEF Becomes, NoLink, ClientInv
  <2>2. link' \in Link /\ link'.user = link.user
    BY <1>0, <1>3 DEF Becomes, Link
  <2> QED BY <2>1, <2>2 DEF ClientInv
<1>4. CASE Network
  BY <1>4 DEF Network, linkVars, ClientInv
<1> QED BY <1>1, <1>2, <1>3, <1>4
        DEF Exchange, Close, CloseIdle, FallSilent

LEMMA ClientKept == ClientInv /\ [ClientNext]_clientVars => ClientInv'
<1> SUFFICES ASSUME ClientInv, [ClientNext]_clientVars PROVE ClientInv'
  OBVIOUS
<1>1. CASE Stop \/ SecondPasses
  BY <1>1 DEF Stop, SecondPasses, linkVars, ClientInv
<1>2. CASE UNCHANGED clientVars
  BY <1>2 DEF clientVars, ClientInv
<1> QED BY <1>1, <1>2, ThreadStep, ExchangeStep DEF ClientNext

(* The thread handles pushes, and the client says it is connected, only after
   the exchange has taken its login: the answer it reads first can only be the
   one to the login, for the inbox starts empty with each connection. *)
THEOREM LoggedIn == ClientSpec => []ConnectedMeansLoggedIn
<1>1. ClientInv => ConnectedMeansLoggedIn
  BY DEF ClientInv, ConnectedMeansLoggedIn
<1> QED BY <1>1, ClientStarts, ClientKept, PTL DEF ClientSpec

(* Waits.  Doubled is defined by recursion: h gives its first values. *)
Doubling(h, n) == h = [i \in 0 .. n |-> IF i = 0 THEN BackoffInitial ELSE 2 * h[i - 1]]

LEMMA DoublingExists == \A n \in Nat : \E h : Doubling(h, n)
<1> DEFINE N == {n \in Nat : ~ \E h : Doubling(h, n)}
<1>1. SUFFICES ASSUME N # {} PROVE FALSE
  OBVIOUS
<1>2. PICK m \in N : \A n \in N : m <= n
  BY <1>1, LeastNat
<1>3. CASE m = 0
  <2> DEFINE h == [i \in 0 .. 0 |-> BackoffInitial]
  <2>1. h = [i \in 0 .. 0 |-> IF i = 0 THEN BackoffInitial ELSE 2 * h[i - 1]]
    OBVIOUS
  <2> QED BY <1>3, <2>1 DEF Doubling
<1>4. CASE m # 0
  <2>1. m - 1 \in Nat /\ m - 1 \notin N
    BY <1>2, <1>4
  <2>2. PICK h : Doubling(h, m - 1)
    BY <2>1
  <2> DEFINE g == [i \in 0 .. m |-> IF i = 0 THEN BackoffInitial ELSE 2 * h[i - 1]]
  <2>3. \A i \in 0 .. m - 1 : g[i] = h[i]
    BY <2>1, <2>2 DEF Doubling
  <2>4. \A i \in 0 .. m : i # 0 => i - 1 \in 0 .. m - 1
    BY <2>1
  <2>5. g = [i \in 0 .. m |-> IF i = 0 THEN BackoffInitial ELSE 2 * g[i - 1]]
    <3> DEFINE k == [i \in 0 .. m |-> IF i = 0 THEN BackoffInitial ELSE 2 * g[i - 1]]
    <3>1. \A i \in 0 .. m : g[i] = k[i]
      BY <2>3, <2>4
    <3> QED BY <3>1
  <2> QED BY <2>5 DEF Doubling
<1> QED BY <1>3, <1>4

LEMMA DoublingAgree ==
    ASSUME NEW m \in Nat, NEW n \in Nat, NEW g, Doubling(g, m), NEW h, Doubling(h, n),
           NEW j \in Nat, j <= m, j <= n
    PROVE  g[j] = h[j]
<1> DEFINE N == {i \in 0 .. j : g[i] # h[i]}
<1>1. SUFFICES ASSUME N # {} PROVE FALSE
  OBVIOUS
<1> N \in SUBSET Nat
  OBVIOUS
<1>2. PICK i \in N : \A k \in N : i <= k
  <2> HIDE DEF N
  <2> QED BY <1>1, LeastNat
<1>3. /\ i \in 0 .. m /\ i \in 0 .. n
      /\ g[i] = IF i = 0 THEN BackoffInitial ELSE 2 * g[i - 1]
      /\ h[i] = IF i = 0 THEN BackoffInitial ELSE 2 * h[i - 1]
  BY DEF Doubling
<1>4. i # 0 => g[i - 1] = h[i - 1]
  BY <1>2
<1> QED BY <1>3, <1>4

LEMMA DoubledTwice ==
    /\ Doubled[0] = BackoffInitial
    /\ \A n \in Nat : Doubled[n + 1] = 2 * Doubled[n]
<1> DEFINE H(n) == CHOOSE h : Doubling(h, n)
           d == [n \in Nat |-> H(n)[n]]
           R(f) == f = [n \in Nat |-> IF n = 0 THEN BackoffInitial ELSE 2 * f[n - 1]]
<1>1. ASSUME NEW n \in Nat PROVE Doubling(H(n), n)
  BY DoublingExists
<1>2. ASSUME NEW n \in Nat PROVE d[n] = IF n = 0 THEN BackoffInitial ELSE 2 * d[n - 1]
  <2>1. n \in 0 .. n /\ Doubling(H(n), n)
    BY <1>1
  <2> HIDE DEF H
  <2>2. H(n)[n] = IF n = 0 THEN BackoffInitial ELSE 2 * H(n)[n - 1]
    BY <2>1 DEF Doubling
  <2>3. CASE n = 0
    BY <2>2, <2>3
  <2>4. CASE n # 0
    <3>1. n - 1 \in Nat /\ n - 1 <= n
      BY <2>4
    <3>2. H(n)[n - 1] = H(n - 1)[n - 1]
      BY <1>1, <2>1, <3>1, DoublingAgree
    <3> QED BY <2>2, <2>4, <3>1, <3>2
  <2> QED BY <2>3, <2>4
<1> HIDE DEF H
<1>3. R(d)
  <2> DEFINE k == [n \in Nat |-> IF n = 0 THEN BackoffInitial ELSE 2 * d[n - 1]]
  <2>1. d = [n \in Nat |-> d[n]] /\ k = [n \in Nat |-> k[n]]
    OBVIOUS
  <2>2. \A n \in Nat : d[n] = k[n]
    BY <1>2
  <2> HIDE DEF d
  <2>3. d = k
    BY <2>1, <2>2
  <2> QED BY <2>3
<1> HIDE DEF d
<1>4. Doubled = CHOOSE f : R(f)
  BY DEF Doubled
<1> HIDE DEF R
<1>5. R(Doubled)
  BY <1>3, <1>4
<1>6. Doubled = [n \in Nat |-> IF n = 0 THEN BackoffInitial
                                      ELSE 2 * Doubled[n - 1]]
  BY <1>5 DEF R
<1>7. ASSUME NEW n \in Nat PROVE Doubled[n + 1] = 2 * Doubled[n]
  <2>1. n + 1 \in Nat /\ n + 1 # 0 /\ (n + 1) - 1 = n
    OBVIOUS
  <2> QED BY <1>6, <2>1
<1>8. Doubled[0] = BackoffInitial
  BY <1>6
<1> QED BY <1>7, <1>8

(* Doubled as often as the longest wait has seconds, the shortest has passed
   it: failures need not be counted further. *)
LEMMA DoubledGrows ==
    \A n \in Nat : Doubled[n] \in Nat /\ Doubled[n] >= n + 1
<1> DEFINE N == {n \in Nat : ~(Doubled[n] \in Nat /\ Doubled[n] >= n + 1)}
<1>1. SUFFICES ASSUME N # {} PROVE FALSE
  OBVIOUS
<1>2. PICK n \in N : \A m \in N : n <= m
  BY <1>1, LeastNat
<1>3. CASE n = 0
  BY <1>3, DoubledTwice, WSAssumption
<1>4. CASE n # 0
  <2>1. n - 1 \in Nat /\ n - 1 \notin N /\ (n - 1) + 1 = n
    BY <1>2, <1>4
  <2>2. Doubled[n - 1] \in Nat /\ Doubled[n - 1] >= n
    BY <2>1
  <2>3. Doubled[n] = 2 * Doubled[n - 1]
    BY <2>1, DoubledTwice
  <2> QED BY <2>1, <2>2, <2>3
<1> QED BY <1>3, <1>4

(* The wait after n failures in a row. *)
WaitAfter(n) == Capped(Doubled[n])

LEMMA WaitAfterType ==
    ASSUME NEW n \in Nat
    PROVE  /\ WaitAfter(n) \in Nat /\ WaitAfter(n) <= BackoffMax
           /\ WaitAfter(0) = BackoffInitial
           /\ Capped(2 * WaitAfter(n)) = WaitAfter(n + 1)
           /\ n + 1 >= BackoffMax => WaitAfter(n) = BackoffMax
<1> DEFINE d == Doubled[n]
           e == Doubled[n + 1]
<1>1. /\ BackoffInitial \in Nat \ {0} /\ BackoffMax \in Nat /\ BackoffInitial <= BackoffMax
      /\ Doubled[0] = BackoffInitial /\ d \in Nat /\ d >= n + 1 /\ e = 2 * d
  BY DoubledTwice, DoubledGrows, WSAssumption
<1> HIDE DEF d, e
<1>2. WaitAfter(n) = Capped(d) /\ WaitAfter(n + 1) = Capped(e)
  BY DEF WaitAfter, d, e
<1>3. WaitAfter(0) = BackoffInitial
  BY <1>1 DEF WaitAfter, Capped
<1> QED BY <1>1, <1>2, <1>3 DEF Capped

(* The backoff is the wait that the next failure gets, and during a wait the
   one that the last one got. *)
BackoffInv ==
    /\ failures \in 0 .. BackoffMax
    /\ at = "wait" => failures > 0 /\ backoff = WaitAfter(failures - 1)
    /\ at # "wait" => backoff = WaitAfter(failures)

LEMMA BackoffInit == ASSUME ClientInit PROVE BackoffInv
<1>1. at = "top" /\ failures = 0 /\ backoff = BackoffInitial /\ BackoffMax \in Nat
  BY WSAssumption DEF ClientInit
<1> QED BY <1>1, WaitAfterType DEF BackoffInv

(* A failure: the first after a connection that worked, or one more. *)
LEMMA BackoffThrow ==
    ASSUME ClientInv, BackoffInv, at # "wait", Throw
    PROVE  BackoffInv'
<1>1. backoff = WaitAfter(failures) /\ failures \in 0 .. BackoffMax
  BY DEF BackoffInv
<1>2. BackoffMax \in Nat /\ 1 <= BackoffMax
  BY WSAssumption
<1>3. CASE running = TRUE /\ connected = TRUE
  <2>1. at' = "wait" /\ backoff' = BackoffInitial /\ failures' = Capped(1)
    BY <1>3 DEF Throw, Backoff
  <2>2. failures' = 1
    BY <1>2, <2>1 DEF Capped
  <2> QED BY <1>2, <2>1, <2>2, WaitAfterType DEF BackoffInv, WaitAfter
<1>4. CASE running = TRUE /\ ~connected
  <2>1. at' = "wait" /\ backoff' = backoff /\ failures' = Capped(failures + 1)
    BY <1>4 DEF Throw, Backoff
  <2>2. CASE failures + 1 <= BackoffMax
    <3>1. failures' = failures + 1 /\ failures' - 1 = failures
      BY <1>1, <1>2, <2>1, <2>2 DEF Capped
    <3> QED BY <1>1, <1>2, <2>1, <2>2, <3>1 DEF BackoffInv, WaitAfter
  <2>3. CASE failures = BackoffMax
    <3>1. failures' = BackoffMax /\ BackoffMax - 1 \in Nat /\ (BackoffMax - 1) + 1 = BackoffMax
      BY <1>2, <2>1, <2>3 DEF Capped
    <3>2. WaitAfter(BackoffMax) = BackoffMax /\ WaitAfter(BackoffMax - 1) = BackoffMax
      BY <1>2, <3>1, WaitAfterType
    <3> QED BY <1>1, <1>2, <2>1, <2>3, <3>1, <3>2 DEF BackoffInv, WaitAfter
  <2> QED BY <1>1, <1>2, <2>2, <2>3
<1>5. CASE ~running
  <2>1. at' = "done" /\ UNCHANGED <<backoff, failures>>
    BY <1>5 DEF Throw, retryVars
  <2> QED BY <1>1, <2>1 DEF BackoffInv, WaitAfter
<1>6. running \in BOOLEAN /\ connected \in BOOLEAN
  BY DEF ClientInv
<1> QED BY <1>3, <1>4, <1>5, <1>6

LEMMA BackoffThread ==
    ASSUME ClientInv, BackoffInv, Thread
    PROVE  BackoffInv'
<1>0. UNCHANGED <<backoff, failures>> /\ at # "wait" /\ at' # "wait" => BackoffInv'
  BY DEF BackoffInv, WaitAfter
<1>1. CASE Top
  BY <1>0, <1>1 DEF Top, retryVars
<1>2. CASE SleepSecond
  BY <1>2 DEF SleepSecond, BackoffInv, WaitAfter
<1>3. CASE Retry
  <2>1. /\ at = "wait" /\ at' = "top" /\ backoff' = Capped(2 * backoff)
        /\ failures' = failures
    BY <1>3 DEF Retry
  <2>2. failures - 1 \in Nat /\ backoff = WaitAfter(failures - 1) /\ (failures - 1) + 1 = failures
    BY <2>1 DEF BackoffInv
  <2>3. backoff' = WaitAfter(failures)
    BY <2>1, <2>2, WaitAfterType
  <2> QED BY <2>1, <2>3 DEF BackoffInv, WaitAfter
<1>4. CASE Connect
  BY <1>0, <1>4, BackoffThrow DEF Connect, retryVars
<1>5. CASE ReadLogin
  BY <1>0, <1>5, BackoffThrow DEF ReadLogin, retryVars
<1>6. CASE ReadAck
  BY <1>0, <1>6 DEF ReadAck, retryVars
<1>7. CASE Loop
  <2>1. CASE at' = "top" /\ failures' = 0 /\ backoff' = BackoffInitial
    <3>1. BackoffMax \in Nat /\ backoff' = WaitAfter(0)
      BY <2>1, WaitAfterType, WSAssumption
    <3> QED BY <2>1, <3>1 DEF BackoffInv, WaitAfter
  <2>2. CASE Throw
    BY <1>7, <2>2, BackoffThrow DEF Loop
  <2>3. CASE at' = "read" /\ UNCHANGED <<backoff, failures>>
    BY <1>0, <1>7, <2>3 DEF Loop
  <2> QED BY <1>7, <2>1, <2>2, <2>3 DEF Loop, retryVars
<1>8. CASE Read
  BY <1>0, <1>8, BackoffThrow DEF Read, retryVars
<1>9. CASE ReadFails
  BY <1>9, BackoffThrow DEF ReadFails
<1> QED BY <1>1, <1>2, <1>3, <1>4, <1>5, <1>6, <1>7, <1>8, <1>9 DEF Thread

LEMMA BackoffNext ==
    ClientInv /\ BackoffInv /\ [ClientNext]_clientVars => BackoffInv'
<1> SUFFICES ASSUME ClientInv, BackoffInv, [ClientNext]_clientVars PROVE BackoffInv'
  OBVIOUS
<1>1. ASSUME UNCHANGED <<at, backoff, failures>> PROVE BackoffInv'
  BY <1>1 DEF BackoffInv, WaitAfter
<1>2. CASE Exchange
  <2>1. UNCHANGED <<at, backoff, failures>>
    BY <1>2 DEF Exchange, Reply, Push, Close, CloseIdle,
                FallSilent, Becomes, Network, retryVars
  <2> QED BY <1>1, <2>1
<1>3. CASE Stop \/ SecondPasses
  BY <1>1, <1>3 DEF Stop, SecondPasses, retryVars
<1>4. CASE UNCHANGED clientVars
  BY <1>1, <1>4 DEF clientVars
<1> QED BY <1>2, <1>3, <1>4, BackoffThread DEF ClientNext

(* Each wait is the shortest one, doubled for every failure in a row but the
   first, and never more than the longest. *)
THEOREM WaitsFollowFailures == ClientSpec => []BackoffFollowsFailures
<1>1. ClientInit => ClientInv /\ BackoffInv
  BY ClientStarts, BackoffInit
<1>2. ClientInv /\ BackoffInv /\ [ClientNext]_clientVars => (ClientInv /\ BackoffInv)'
  BY ClientKept, BackoffNext
<1>3. ClientInv /\ BackoffInv => BackoffFollowsFailures
  BY DEF BackoffInv, WaitAfter, BackoffFollowsFailures
<1> QED BY <1>1, <1>2, <1>3, PTL DEF ClientSpec
=============================================================================

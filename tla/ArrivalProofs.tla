----------------------------- MODULE ArrivalProofs -----------------------------
(***************************************************************************)
(* Proofs about Arrival and Detector: the choice among detectors finds the *)
(* best match; a PiP gives the focus back, once, and the focus does come   *)
(* back; a managed window has the profile a restarted daemon finds for it. *)
(*                                                                         *)
(* All of it rests on what the queue may hold (QueueInv) and on what the   *)
(* engine knows of a window (KnownInv): a known open window will stay      *)
(* known.  That the focus comes back needs in addition which focus the     *)
(* events on their way tell of (FocusHeard), and what is under way to give *)
(* it back (OweInv): a description, an entry among the candidates, or a    *)
(* request.                                                                *)
(***************************************************************************)
EXTENDS Arrival, WellFoundedInduction, TLAPS

-------------------------------------------------------------------------------
(* The choice among detectors *)

\* A nonempty set of numbers has a least one.
LEMMA Least ==
    ASSUME NEW T \in SUBSET Nat, T # {}
    PROVE  \E x \in T : \A y \in T : x <= y
<1> DEFINE L == OpToRel(<, Nat)
<1>1. IsWellFoundedOn(L, Nat)
  BY NatLessThanWellFounded
<1>2. \A x, y \in Nat : <<y, x>> \in L <=> y < x
  BY DEF OpToRel
<1> HIDE DEF L
<1>3. PICK x \in T : \A y \in T : ~ (<<y, x>> \in L)
  <2>1. \E x \in T : \A y \in T : ~ (<<y, x>> \in L)
    BY <1>1, WFMin
  <2> QED  BY <2>1
<1>4. \A y \in T : ~(y < x)
  BY <1>2, <1>3
<1> QED  BY <1>4

\* Induction over a set of numbers.
LEMMA Induct ==
    ASSUME NEW S \in SUBSET Nat, 0 \in S, \A n \in S : n + 1 \in S
    PROVE  S = Nat
<1> SUFFICES ASSUME Nat \ S # {} PROVE FALSE
  OBVIOUS
<1>1. PICK x \in Nat \ S : \A y \in Nat \ S : x <= y
  BY Least, Nat \ S \in SUBSET Nat
<1>2. x # 0 /\ x - 1 \in Nat
  BY <1>1
<1>3. x - 1 \in S
  BY <1>1, <1>2
<1>4. (x - 1) + 1 \in S
  BY <1>3
<1> QED  BY <1>1, <1>2, <1>4

\* Of finitely many numbers there is a highest, and of those a last.
LEMMA LastBest ==
    ASSUME NEW n \in Nat, NEW M \in SUBSET (1 .. n), M # {}, NEW f, \A i \in M : f[i] \in Int
    PROVE  \E i \in M : \A j \in M : f[i] > f[j] \/ (f[i] = f[j] /\ i >= j)
<1> DEFINE Best(i, k) == \A j \in M : j <= k => (f[i] > f[j] \/ (f[i] = f[j] /\ i >= j))
           S == {k \in Nat : (\E i \in M : i <= k) => \E i \in M : i <= k /\ Best(i, k)}
<1>1. 0 \in S
  OBVIOUS
<1>2. ASSUME NEW k \in S PROVE k + 1 \in S
  <2> SUFFICES ASSUME NEW a \in M, a <= k + 1
               PROVE  \E i \in M : i <= k + 1 /\ Best(i, k + 1)
    OBVIOUS
  <2>0. k \in Nat
    OBVIOUS
  <2>1. CASE ~ \E i \in M : i <= k
    <3>1. a = k + 1 /\ \A j \in M : j <= k + 1 => j = k + 1
      BY <2>0, <2>1
    <3>2. Best(a, k + 1)
      BY <3>1
    <3> QED  BY <3>1, <3>2, <2>0
  <2>2. CASE \E i \in M : i <= k
    <3>1. PICK b \in M : b <= k /\ Best(b, k)
      BY <2>2
    <3>2. CASE k + 1 \in M /\ f[k + 1] >= f[b]
      <4>1. Best(k + 1, k + 1)
        BY <3>1, <3>2, <2>0
      <4> QED  BY <4>1, <3>2, <2>0
    <3>3. CASE ~(k + 1 \in M /\ f[k + 1] >= f[b])
      <4>1. Best(b, k + 1)
        BY <3>1, <3>3, <2>0
      <4> QED  BY <4>1, <3>1, <2>0
    <3> QED  BY <3>2, <3>3
  <2> QED  BY <2>1, <2>2
<1>3. S = Nat
  <2> HIDE DEF S
  <2>1. S \in SUBSET Nat
    BY DEF S
  <2> QED  BY <1>1, <1>2, <2>1, Induct
<1>4. n \in S
  BY <1>3
<1>5. PICK i \in M : Best(i, n)
  BY <1>4
<1> QED  BY <1>5

\* The detectors that a window passes.
Passes(ds, browsers, threshold, w, isNew, i) ==
    /\ i \in DOMAIN ds
    /\ BuiltinEnabled(ds[i].name, browsers)
    /\ Eligible(ds[i], w)
    /\ Score(ds[i], w, isNew) >= threshold

\* detect finds nothing when the window passes no detector, and otherwise the detector
\* with the highest score among those it passes, the last one of equals.
THEOREM DetectFindsTheBest ==
    ASSUME NEW ds \in Seq(DetectorConfig), NEW browsers, NEW threshold \in Int, NEW w,
           NEW isNew
    PROVE  \/ /\ Detect(ds, browsers, threshold, w, isNew) = NoMatch
              /\ \A i : ~Passes(ds, browsers, threshold, w, isNew, i)
           \/ \E i \in DOMAIN ds :
                /\ Passes(ds, browsers, threshold, w, isNew, i)
                /\ Detect(ds, browsers, threshold, w, isNew)
                     = [name |-> ds[i].name, action |-> ds[i].action]
                /\ \A j : Passes(ds, browsers, threshold, w, isNew, j) =>
                     \/ Score(ds[i], w, isNew) > Score(ds[j], w, isNew)
                     \/ Score(ds[i], w, isNew) = Score(ds[j], w, isNew) /\ i >= j
<1> DEFINE M == {i \in DOMAIN ds : /\ BuiltinEnabled(ds[i].name, browsers)
                                   /\ Eligible(ds[i], w)
                                   /\ Score(ds[i], w, isNew) >= threshold}
           f == [i \in DOMAIN ds |-> Score(ds[i], w, isNew)]
           Better(i, j) == \/ Score(ds[i], w, isNew) > Score(ds[j], w, isNew)
                           \/ Score(ds[i], w, isNew) = Score(ds[j], w, isNew) /\ i >= j
           best == CHOOSE i \in M : \A j \in M : Better(i, j)
<1>1. \A i : i \in M <=> Passes(ds, browsers, threshold, w, isNew, i)
  BY DEF Passes
<1>2. CASE M = {}
  <2>1. Detect(ds, browsers, threshold, w, isNew) = NoMatch
    BY <1>2 DEF Detect
  <2> QED  BY <1>1, <1>2, <2>1
<1>3. CASE M # {}
  <2>1. M \in SUBSET (1 .. Len(ds)) /\ Len(ds) \in Nat
    OBVIOUS
  <2>2. \A i \in DOMAIN ds : Score(ds[i], w, isNew) \in Int
    <3> SUFFICES ASSUME NEW i \in DOMAIN ds PROVE Score(ds[i], w, isNew) \in Int
      OBVIOUS
    <3>1. ds[i] \in DetectorConfig
      OBVIOUS
    <3>2. /\ ds[i].score \in Int /\ ds[i].compact \in Int /\ ds[i].aspect \in Int
          /\ ds[i].emptyApp \in Int /\ ds[i].pid \in Int /\ ds[i].new \in Int
      BY <3>1 DEF DetectorConfig
    <3> DEFINE a == IF Compact(w) THEN ds[i].compact ELSE 0
               b == IF Wide(w) THEN ds[i].aspect ELSE 0
               c == IF w.app = "" THEN ds[i].emptyApp ELSE 0
               d == IF w.pid THEN ds[i].pid ELSE 0
               e == IF isNew THEN ds[i].new ELSE 0
    <3>3. a \in Int /\ b \in Int /\ c \in Int /\ d \in Int /\ e \in Int
      <4> DEFINE If(B, x) == IF B THEN x ELSE 0
      <4>1. \A B, x : x \in Int => If(B, x) \in Int
        OBVIOUS
      <4> QED  BY <3>2, <4>1, Zenon
    <3>4. Score(ds[i], w, isNew) = ds[i].score + a + b + c + d + e
      BY Zenon DEF Score
    <3> HIDE DEF a, b, c, d, e
    <3> QED  BY <3>2, <3>3, <3>4
  <2>3. \A i \in M : f[i] = Score(ds[i], w, isNew) /\ f[i] \in Int
    BY <2>2
  <2>4. \E i \in M : \A j \in M : f[i] > f[j] \/ (f[i] = f[j] /\ i >= j)
    <3> HIDE DEF M, f
    <3> QED  BY <1>3, <2>1, <2>3, LastBest
  <2>5. \E i \in M : \A j \in M : Better(i, j)
    BY <2>3, <2>4
  <2>6. best \in M /\ \A j \in M : Better(best, j)
    <3> HIDE DEF M, Better
    <3> QED  BY <2>5
  <2>7. Detect(ds, browsers, threshold, w, isNew)
          = [name |-> ds[best].name, action |-> ds[best].action]
    BY <1>3 DEF Detect
  <2> HIDE DEF M, best
  <2> QED  BY <1>1, <2>6, <2>7 DEF Passes
<1> QED  BY <1>2, <1>3

-------------------------------------------------------------------------------
(* Types *)

\* What a detector finds is one of the names, and never the one that stands for none.
LEMMA MatchNames ==
    ASSUME NEW w, NEW s, NEW isNew
    PROVE  LET m == Match(w, s, isNew) IN
           /\ m.action \in {"none", "pip", "ignore"}
           /\ m.action # "none" => m.name \in Names /\ m.name # "none"
<1> DEFINE m == Match(w, s, isNew)
<1>1. Detectors \in Seq(DetectorConfig) /\ Threshold \in Int
  BY ArrivalAssumption DEF ArrivalAssumption
<1>2. \/ m = NoMatch
      \/ \E i \in DOMAIN Detectors :
            m = [name |-> Detectors[i].name, action |-> Detectors[i].action]
  BY <1>1, DetectFindsTheBest DEF Match
<1>3. CASE m = NoMatch
  BY <1>3 DEF NoMatch
<1>4. CASE \E i \in DOMAIN Detectors :
              m = [name |-> Detectors[i].name, action |-> Detectors[i].action]
  <2>1. PICK i \in DOMAIN Detectors :
              m = [name |-> Detectors[i].name, action |-> Detectors[i].action]
    BY <1>4
  <2>2. Detectors[i] \in DetectorConfig
    BY <1>1, <2>1
  <2>3. Detectors[i].action \in {"pip", "ignore"} /\ Detectors[i].name # "none"
    BY <2>2 DEF DetectorConfig
  <2>4. m.action = Detectors[i].action /\ m.name = Detectors[i].name
    <3> HIDE DEF m
    <3> QED  BY <2>1
  <2>5. Detectors[i].name \in Names
    BY DEF Names
  <2> QED  BY <2>3, <2>4, <2>5
<1> QED  BY <1>2, <1>3, <1>4

LEMMA ClassifyTypes ==
    ASSUME TypeOK, NEW ws \in SUBSET Windows, NEW c \in [Windows -> Numbers], NEW isNew,
           Classify(ws, c, isNew)
    PROVE  /\ tracked' \in [Windows -> Names] /\ ignored' \subseteq Windows
           /\ looked' \subseteq Windows /\ texts' \in [Windows -> Numbers]
<1> DEFINE found(w) == IF w \in Candidates(ws) THEN Match(w, c[w], isNew) ELSE NoMatch
<1>1. \A w : found(w).action = "pip" => found(w).name \in Names
  <2>1. \A w : Match(w, c[w], isNew).action = "pip" => Match(w, c[w], isNew).name \in Names
    BY MatchNames
  <2>2. NoMatch.action # "pip"
    BY DEF NoMatch
  <2> QED  BY <2>1, <2>2
<1>2. /\ tracked' = [w \in Windows |-> IF found(w).action = "pip" THEN found(w).name
                                       ELSE IF c[w] = 0 THEN "none" ELSE tracked[w]]
      /\ ignored' = {w \in ignored : c[w] > 0}
                       \cup {w \in Windows : found(w).action = "ignore"}
      /\ texts' = [w \in Windows |-> IF found(w).action = "pip" THEN c[w] ELSE texts[w]]
      /\ looked' = (looked \cup {w \in ws : tracked[w] = "none"}) \cap Known(c)
  BY DEF Classify
<1>3. "none" \in Names
  BY DEF Names
<1> HIDE DEF found
<1> QED  BY <1>1, <1>2, <1>3 DEF TypeOK, Known

\* An event that is taken is an event, and so are those that remain.
LEMMA ReceiveTypes ==
    ASSUME TypeOK, NEW type, Receive(type)
    PROVE  /\ Head(queue) \in Event /\ Head(queue).type = type
           /\ queue' \in Seq(Event) /\ Len(queue) > 0
           /\ UNCHANGED <<stage, focus, link, settings, before, budget, happenings>>
  BY DEF Receive, TypeOK, world

\* What Niri emits are events.
LEMMA EmitTypes ==
    ASSUME TypeOK, NEW events \in Seq(Event), Emit(events)
    PROVE  queue' \in Seq(Event)
  BY DEF Emit, TypeOK

LEMMA EventTypes ==
    /\ \A w \in Windows, n \in Numbers, b \in BOOLEAN : Changed(w, n, b) \in Event
    /\ \A w \in Windows : Closed(w) \in Event
    /\ \A w \in Windows \cup {NoWin} : Focused(w) \in Event
  BY DEF Changed, Closed, Focused, Event

\* A request to give the focus back is for a window.
LEMMA RestoreTypes ==
    ASSUME NEW id \in Windows, NEW o, NEW c, NEW ws \in SUBSET Windows
    PROVE  RestoreFor(id, o, c, ws) \in Seq(Windows)
  BY DEF RestoreFor

LEMMA PlanTypes ==
    ASSUME TypeOK, NEW id \in Windows, NEW plan \in Seq(Windows), Plan(id, plan)
    PROVE  loop' \in Seq(Windows) /\ returned' \in [Windows -> Nat]
<1>1. CASE plan = <<>>
  BY <1>1 DEF Plan, TypeOK
<1>2. CASE plan # <<>>
  BY <1>2, SMTT(30) DEF Plan, TypeOK
<1> QED  BY <1>1, <1>2

LEMMA ForgetTypes ==
    ASSUME TypeOK, NEW ws, Forget(ws)
    PROVE  /\ opened' \in [Windows -> {"no", "recent", "late"}]
           /\ candidate' \in [Windows -> Windows \cup {NoWin}]
  BY DEF Forget, TypeOK

LEMMA TypeInit == Init => TypeOK
<1> SUFFICES ASSUME Init PROVE TypeOK
  OBVIOUS
<1>1. PICK there \in Beginnings :
          /\ stage = [w \in Windows |-> IF w \in there THEN 1 ELSE 0]
          /\ focus \in IF there = {} THEN {NoWin} ELSE there
  BY DEF Init
<1>2. there \subseteq Windows /\ Families \in Browsers
  BY ArrivalAssumption DEF ArrivalAssumption
<1>3. stage \in [Windows -> -1 .. Most] /\ focus \in Windows \cup {NoWin}
  BY <1>1, <1>2 DEF Most
<1>4. settings \in [browsers : Browsers, enabled : BOOLEAN] /\ "none" \in Names
  BY <1>2 DEF Init, Names
<1> QED  BY <1>3, <1>4 DEF Init, TypeOK, Nothing, Numbers, Most

-------------------------------------------------------------------------------
\* A change takes a window to a description it has.
LEMMA ChangesTo ==
    ASSUME TypeOK, NEW w \in Windows, Changes(w)
    PROVE  /\ stage' = [stage EXCEPT ![w] = stage[w] + 1] /\ stage[w] > 0
           /\ stage[w] \in Int /\ stage[w] + 1 \in Numbers /\ stage[w] + 1 \in -1 .. Most
<1> DEFINE n == Len(Stages[w])
           k == stage[w]
<1>1. n \in 1 .. 8
  BY ArrivalAssumption DEF ArrivalAssumption, Most
<1>2. k \in -1 .. 8 /\ k > 0 /\ k < n
  BY DEF Changes, IsOpen, TypeOK, Most
<1> HIDE DEF n, k
<1>3. k \in Int /\ k > 0 /\ k + 1 \in 0 .. 8 /\ k + 1 \in -1 .. 8
  BY <1>1, <1>2
<1>4. stage' = [stage EXCEPT ![w] = stage[w] + 1]
  BY DEF Changes
<1> QED  BY <1>3, <1>4 DEF k, Numbers, Most

LEMMA TypeNiri ==
    ASSUME TypeOK, NEW w \in Windows, Opens(w) \/ Changes(w) \/ Closes(w) \/ GetsLate(w)
    PROVE  TypeOK'
<1> USE DEF Most, Numbers
<1>1. CASE Opens(w)
  <2>1. stage' \in [Windows -> -1 .. Most]
    BY <1>1 DEF Opens, TypeOK
  <2>2. focus' \in Windows \cup {NoWin} /\ before' \in [Windows -> Windows \cup {NoWin}]
    <3>1. CASE UNCHANGED <<focus, before>>
      BY <3>1 DEF TypeOK
    <3>2. CASE /\ focus' = w
               /\ before' = [Nothing(NoWin) EXCEPT ![w] =
                     IF \E v \in Windows : v = focus /\ cache[v] > 0 /\ opened[v] = "no"
                     THEN focus ELSE NoWin]
      BY <3>2 DEF TypeOK, Nothing
    <3> QED  BY <1>1, <3>1, <3>2 DEF Opens
  <2>3. queue' \in Seq(Event)
    <3>1. /\ Changed(w, 1, TRUE) \in Event /\ Changed(w, 1, FALSE) \in Event
          /\ Focused(w) \in Event
      <4>1. 1 \in Numbers /\ TRUE \in BOOLEAN /\ FALSE \in BOOLEAN
        OBVIOUS
      <4> QED  BY <4>1, EventTypes, Zenon
    <3>2. \/ Emit(<<Changed(w, 1, TRUE)>>) \/ Emit(<<Changed(w, 1, FALSE)>>)
          \/ Emit(<<Changed(w, 1, TRUE), Focused(w)>>)
      BY <1>1 DEF Opens
    <3>3. \A d, e \in Event : <<d>> \in Seq(Event) /\ <<d, e>> \in Seq(Event)
      OBVIOUS
    <3> QED  BY <3>1, <3>2, <3>3, EmitTypes, Zenon
  <2> QED  BY <1>1, <2>1, <2>2, <2>3 DEF Opens, TypeOK, engine
<1>2. CASE Changes(w)
  <2>1. stage[w] + 1 \in Numbers /\ stage' \in [Windows -> -1 .. Most]
    <3>1. stage[w] + 1 \in Numbers /\ stage' = [stage EXCEPT ![w] = stage[w] + 1]
      BY <1>2, ChangesTo
    <3>2. Numbers \subseteq -1 .. Most /\ stage \in [Windows -> -1 .. Most]
      BY DEF TypeOK, Numbers, Most
    <3> QED  BY <3>1, <3>2
  <2>2. queue' \in Seq(Event)
    <3>1. Changed(w, stage[w] + 1, focus = w) \in Event
      BY <2>1, EventTypes
    <3>2. <<Changed(w, stage[w] + 1, focus = w)>> \in Seq(Event)
      BY <3>1
    <3> QED  BY <1>2, <3>2, EmitTypes DEF Changes
  <2> QED  BY <1>2, <2>1, <2>2 DEF Changes, TypeOK, engine, ghosts
<1>3. CASE Closes(w)
  <2>1. stage' \in [Windows -> -1 .. Most]
    BY <1>3 DEF Closes, TypeOK
  <2>2. focus' \in Windows \cup {NoWin} /\ queue' \in Seq(Event)
    <3>1. CASE focus = w
      <4>1. PICK v \in {v \in Windows : IsOpen(v)} \cup {NoWin} :
               v # w /\ focus' = v /\ Emit(<<Closed(w), Focused(v)>>)
        BY <1>3, <3>1 DEF Closes
      <4>2. <<Closed(w), Focused(v)>> \in Seq(Event)
        BY EventTypes
      <4> QED  BY <4>1, <4>2, EmitTypes
    <3>2. CASE focus # w
      <4>1. <<Closed(w)>> \in Seq(Event)
        BY EventTypes
      <4> QED  BY <1>3, <3>2, <4>1, EmitTypes DEF Closes, TypeOK
    <3> QED  BY <3>1, <3>2
  <2>3. before' \in [Windows -> Windows \cup {NoWin}]
    BY <1>3 DEF Closes, Settles, TypeOK
  <2> QED  BY <1>3, <2>1, <2>2, <2>3 DEF Closes, TypeOK, engine
<1>4. CASE GetsLate(w)
  BY <1>4 DEF GetsLate, TypeOK
<1> QED  BY <1>1, <1>2, <1>3, <1>4

LEMMA FocusOnTypes ==
    ASSUME TypeOK, NEW w \in Windows \cup {NoWin}, FocusOn(w)
    PROVE  focus' \in Windows \cup {NoWin} /\ queue' \in Seq(Event)
<1>1. (IF w = focus THEN <<>> ELSE <<Focused(w)>>) \in Seq(Event)
  BY EventTypes
<1> QED  BY <1>1, EmitTypes DEF FocusOn

LEMMA TypeUser ==
    ASSUME TypeOK, NEW w \in Windows \cup {NoWin}, UserFocuses(w)
    PROVE  TypeOK'
<1>1. focus' \in Windows \cup {NoWin} /\ queue' \in Seq(Event)
  BY FocusOnTypes DEF UserFocuses
<1> QED  BY <1>1, SMTT(30) DEF UserFocuses, TypeOK, engine, Nothing

LEMMA TypeExecute ==
    ASSUME TypeOK, Execute
    PROVE  TypeOK'
<1>1. Head(loop) \in Windows /\ loop' \in Seq(Windows)
  BY DEF Execute, TypeOK
<1>2. focus' \in Windows \cup {NoWin} /\ queue' \in Seq(Event)
  BY <1>1, FocusOnTypes DEF Execute, TypeOK
<1>3. before' \in [Windows -> Windows \cup {NoWin}]
  BY DEF Execute, TypeOK, Nothing
<1>4. UNCHANGED <<stage, link, settings, engine, returned, looked, texts, world>>
  BY DEF Execute
<1> QED  BY <1>1, <1>2, <1>3, <1>4, SMTT(60) DEF TypeOK, engine, world

LEMMA TypeFails ==
    ASSUME TypeOK, ExecuteFails
    PROVE  TypeOK'
<1>1. loop' \in Seq(Windows)
  BY DEF ExecuteFails, TypeOK
<1> QED  BY <1>1, SMTT(30) DEF ExecuteFails, TypeOK, engine, Nothing

LEMMA TypeHandleChanged ==
    ASSUME TypeOK, HandleChanged
    PROVE  TypeOK'
<1> DEFINE e     == Head(queue)
           id    == Head(queue).win
           isNew == cache[id] = 0
           o == [w \in Windows |-> IF w = id /\ isNew THEN "recent"
                                   ELSE IF w \in Pruned THEN "no" ELSE opened[w]]
           c == [w \in Windows |-> IF w = id /\ isNew THEN FocusBefore(id)
                                   ELSE IF w \in Pruned THEN NoWin ELSE candidate[w]]
<1>1. Receive("changed")
  BY DEF HandleChanged
<1>2. e \in Event /\ id \in Windows /\ e.stage \in Numbers
  BY <1>1, ReceiveTypes DEF Event
<1>3. cache' \in [Windows -> Numbers]
  BY <1>2 DEF HandleChanged, TypeOK
<1>4. previous' \in Windows \cup {NoWin} /\ focused' \in Windows \cup {NoWin}
  BY <1>2 DEF HandleChanged, TypeOK
<1>5. /\ tracked' \in [Windows -> Names] /\ ignored' \subseteq Windows
      /\ looked' \subseteq Windows /\ texts' \in [Windows -> Numbers]
  BY <1>2, <1>3, ClassifyTypes DEF HandleChanged
<1>6. /\ o \in [Windows -> {"no", "recent", "late"}]
      /\ c \in [Windows -> Windows \cup {NoWin}]
  BY DEF TypeOK, FocusBefore
<1>7. /\ loop' \in Seq(Windows) /\ returned' \in [Windows -> Nat]
      /\ opened' \in [Windows -> {"no", "recent", "late"}]
      /\ candidate' \in [Windows -> Windows \cup {NoWin}]
  <2> DEFINE plan == RestoreFor(id, o, c, Known(cache'))
  <2>1. CASE tracked[id] = "none" /\ tracked'[id] # "none" /\ Head(queue).focused
    <3>1. /\ Plan(id, plan) /\ opened' = [o EXCEPT ![id] = "no"]
          /\ candidate' = [c EXCEPT ![id] = NoWin]
      BY <2>1 DEF HandleChanged
    <3>2. plan \in Seq(Windows)
      BY <1>2, RestoreTypes DEF Known
    <3> HIDE DEF plan, o, c, id
    <3> QED  BY <1>2, <1>6, <3>1, <3>2, PlanTypes
  <2>2. CASE ~(tracked[id] = "none" /\ tracked'[id] # "none" /\ Head(queue).focused)
    <3>1. Plan(id, <<>>) /\ opened' = o /\ candidate' = c
      BY <2>2 DEF HandleChanged
    <3>2. <<>> \in Seq(Windows)
      OBVIOUS
    <3> HIDE DEF o, c, id
    <3> QED  BY <1>2, <1>6, <3>1, <3>2, PlanTypes
  <2> QED  BY <2>1, <2>2
<1> QED  BY <1>1, <1>3, <1>4, <1>5, <1>7, ReceiveTypes, SMTT(30) DEF TypeOK

LEMMA TypeHandleFocus ==
    ASSUME TypeOK, HandleFocus
    PROVE  TypeOK'
<1> DEFINE id == Head(queue).win
<1>1. Receive("focus")
  BY DEF HandleFocus
<1>2. id \in Windows \cup {NoWin}
  BY <1>1, ReceiveTypes DEF Event
<1>3. /\ opened' \in [Windows -> {"no", "recent", "late"}]
      /\ candidate' \in [Windows -> Windows \cup {NoWin}]
  BY ForgetTypes DEF HandleFocus
<1>4. loop' \in Seq(Windows) /\ returned' \in [Windows -> Nat]
  <2>1. CASE id # NoWin /\ tracked[id] # "none"
    <3>1. Plan(id, RestoreFor(id, opened, candidate, Known(cache)))
      BY <2>1 DEF HandleFocus
    <3>2. RestoreFor(id, opened, candidate, Known(cache)) \in Seq(Windows)
      BY <1>2, <2>1, RestoreTypes DEF Known
    <3> QED  BY <1>2, <2>1, <3>1, <3>2, PlanTypes
  <2>2. CASE ~(id # NoWin /\ tracked[id] # "none")
    BY <2>2 DEF HandleFocus, TypeOK
  <2> QED  BY <2>1, <2>2
<1>5. previous' \in Windows \cup {NoWin} /\ focused' \in Windows \cup {NoWin}
  BY <1>2 DEF HandleFocus, TypeOK
<1>6. UNCHANGED <<cache, tracked, ignored, looked, texts>>
  BY DEF HandleFocus
<1> QED  BY <1>1, <1>3, <1>4, <1>5, <1>6, ReceiveTypes, ZenonT(60) DEF TypeOK

LEMMA TypeHandleClosed ==
    ASSUME TypeOK, HandleClosed
    PROVE  TypeOK'
<1>1. Receive("closed")
  BY DEF HandleClosed
<1>2. /\ opened' \in [Windows -> {"no", "recent", "late"}]
      /\ candidate' \in [Windows -> Windows \cup {NoWin}]
  BY ForgetTypes DEF HandleClosed
<1>3. "none" \in Names /\ 0 \in Numbers
  BY DEF Names, Numbers, Most
<1>4. /\ cache' \in [Windows -> Numbers] /\ tracked' \in [Windows -> Names]
      /\ ignored' \subseteq Windows /\ looked' \subseteq Windows
      /\ previous' \in Windows \cup {NoWin} /\ focused' \in Windows \cup {NoWin}
      /\ UNCHANGED <<loop, returned, texts>>
  BY <1>3 DEF HandleClosed, TypeOK
<1> QED  BY <1>1, <1>2, <1>4, ReceiveTypes DEF TypeOK

LEMMA TypeHandleAll ==
    ASSUME TypeOK, HandleAll
    PROVE  TypeOK'
<1>1. Receive("all")
  BY DEF HandleAll
<1>2. cache' \in [Windows -> Numbers] /\ focused' \in Windows \cup {NoWin}
  BY <1>1, ReceiveTypes DEF HandleAll, Event
<1>3. /\ opened' \in [Windows -> {"no", "recent", "late"}]
      /\ candidate' \in [Windows -> Windows \cup {NoWin}]
  BY ForgetTypes DEF HandleAll
<1>4. /\ tracked' \in [Windows -> Names] /\ ignored' \subseteq Windows
      /\ looked' \subseteq Windows /\ texts' \in [Windows -> Numbers]
  <2>1. Known(cache') \in SUBSET Windows /\ Classify(Known(cache'), cache', FALSE)
    BY DEF HandleAll, Known
  <2> QED  BY <1>2, <2>1, ClassifyTypes
<1>5. UNCHANGED <<previous, loop, returned>>
  BY DEF HandleAll
<1> QED  BY <1>1, <1>2, <1>3, <1>4, <1>5, ReceiveTypes, SMTT(30) DEF TypeOK

LEMMA TypeStream ==
    ASSUME TypeOK, Connect \/ Break \/ StreamEnded \/ Restart \/ Reload
    PROVE  TypeOK'
<1>1. CASE Connect
  <2>1. [type |-> "all", win |-> focus,
         stages |-> [w \in Windows |-> IF IsOpen(w) THEN stage[w] ELSE 0]] \in Event
    BY DEF TypeOK, Event, IsOpen, Numbers, Most
  <2>2. queue' \in Seq(Event)
    BY <1>1, <2>1 DEF Connect
  <2> QED  BY <1>1, <2>2 DEF Connect, TypeOK, engine, world, Nothing
<1>2. CASE Break
  BY <1>2 DEF Break, TypeOK, engine, ghosts
<1>3. CASE StreamEnded
  BY <1>3 DEF StreamEnded, TypeOK, engine, ghosts, world
<1>4. CASE Restart
  <2>1. "none" \in Names /\ 0 \in Numbers
    BY DEF Names, Numbers, Most
  <2> QED  BY <1>4, <2>1 DEF Restart, TypeOK, Nothing
<1>5. CASE Reload
  BY <1>5 DEF Reload, TypeOK, engine, Nothing
<1> QED  BY <1>1, <1>2, <1>3, <1>4, <1>5

LEMMA TypeNext == TypeOK /\ [Next]_vars => TypeOK'
<1> SUFFICES ASSUME TypeOK, [Next]_vars PROVE TypeOK'
  OBVIOUS
<1>1. CASE Next
  BY <1>1, TypeNiri, TypeUser, TypeExecute, TypeFails, TypeHandleChanged, TypeHandleFocus,
     TypeHandleClosed, TypeHandleAll, TypeStream DEF Next, Handle
<1>2. CASE UNCHANGED vars
  BY <1>2 DEF vars, TypeOK
<1> QED  BY <1>1, <1>2

\* The types of everything that the arrival of windows changes.
THEOREM TypeCorrect == Spec => []TypeOK
<1> QED  BY TypeInit, TypeNext, PTL DEF Spec

-------------------------------------------------------------------------------
(* The queue *)

\* An event says who has the focus.
SaysFocus(e) == e.type \in {"focus", "all"} \/ (e.type = "changed" /\ e.focused)

Says(i, type, w) == queue[i].type = type /\ queue[i].win = w

\* The snapshot of the stream is still to be handled.
Whole == queue # <<>> /\ queue[1].type = "all"

\* The engine knows w when it comes to the events that follow the snapshot.
Hears(w) == IF Whole THEN queue[1].stages[w] > 0 ELSE cache[w] > 0

\* After the first n events the engine takes x for the focused window.
Heard(n, x) ==
    \E j \in 0 .. n :
       /\ IF j = 0 THEN focused = x ELSE SaysFocus(queue[j]) /\ queue[j].win = x
       /\ \A i \in j + 1 .. n : ~SaysFocus(queue[i])

\* Events come in order: the snapshot first, nothing about a window before it opens and
\* no description after it has closed.
QueueInv ==
    \A i \in DOMAIN queue :
       /\ queue[i].type = "all" => i = 1
       /\ queue[i].type = "closed" => stage[queue[i].win] = -1
       /\ queue[i].type = "changed" =>
            /\ queue[i].stage > 0 /\ stage[queue[i].win] # 0
            /\ \A j \in 1 .. i - 1 : ~Says(j, "closed", queue[i].win)

\* Nothing is known of a window that is not open yet, and nothing kept of one that is
\* not known; a known window that is open is in the snapshot, too.
KnownInv ==
    \A w \in Windows :
       /\ stage[w] = 0 => cache[w] = 0 /\ returned[w] = 0 /\ (Whole => queue[1].stages[w] = 0)
       /\ cache[w] = 0 => opened[w] = "no" /\ tracked[w] = "none"
       /\ link = "on" /\ cache[w] > 0 /\ stage[w] > 0 => Hears(w)

\* A window whose focus was given back stays known as long as it is open, so that no
\* event of it makes a candidate of it again.
OnceInv ==
    \A w \in Windows :
       /\ returned[w] <= 1
       /\ opened[w] # "no" => returned[w] = 0
       /\ returned[w] > 0 =>
            /\ \A i \in DOMAIN queue : Says(i, "changed", w) => Hears(w)
            /\ link = "on" /\ stage[w] > 0 => Hears(w)

\* The focus Niri's events tell of is the focus.
FocusHeard ==
    /\ focus # NoWin => stage[focus] > 0
    /\ link = "on" => Heard(Len(queue), focus)

\* What it takes for PiP w, which took the focus from v, to give it back.
\* Its first description is pending: v has the focus when the engine comes to it.
Pending(w, v) ==
    \E k \in DOMAIN queue :
       /\ Says(k, "changed", w) /\ queue[k].focused /\ Heard(k - 1, v)
       /\ \A i \in 1 .. k - 1 : ~Says(i, "changed", w)
       /\ \A i \in k + 1 .. Len(queue) : SaysFocus(queue[i]) => queue[i].win \in {v, w}
       /\ Whole => queue[1].stages[w] = 0
\* It is known: it is a candidate, or the request is made, or the focus is back.
Noted(w, v) ==
    /\ ~Whole
    /\ \A i \in DOMAIN queue : SaysFocus(queue[i]) => queue[i].win \in {v, w}
    /\ loop \in {<<>>, <<v>>}
    /\ opened[w] = "recent" => candidate[w] = v
    /\ focus = w => IF tracked[w] = "none" THEN opened[w] = "recent" ELSE loop = <<v>>

Owes(w, v) ==
    /\ \A u \in Windows \ {w} : before[u] = NoWin
    /\ v \in Windows /\ v # w /\ stage[v] > 0 /\ stage[w] > 0 /\ focus \in {v, w}
    /\ cache[v] > 0 /\ opened[v] = "no"
    /\ IF cache[w] = 0 THEN Pending(w, v) ELSE Noted(w, v)
    /\ focus = w => \A i \in DOMAIN queue : Says(i, "changed", w) => queue[i].focused
OweInv == link = "on" => \A w \in Windows : before[w] # NoWin => Owes(w, before[w])

\* What emitting does to the queue.
LEMMA Emitted ==
    ASSUME TypeOK, NEW events \in Seq(Event), Emit(events)
    PROVE  /\ queue \in Seq(Event) /\ queue' \in Seq(Event)
           /\ Len(queue) \in Nat /\ Len(queue') \in Nat /\ Len(queue) <= Len(queue')
           /\ DOMAIN queue = 1 .. Len(queue) /\ DOMAIN queue' = 1 .. Len(queue')
           /\ \A i \in 1 .. Len(queue) : queue'[i] = queue[i]
           /\ \A i \in 1 .. Len(queue') : i > Len(queue) =>
                 i - Len(queue) \in 1 .. Len(events) /\ queue'[i] = events[i - Len(queue)]
           /\ link = "on" => Len(queue') = Len(queue) + Len(events)
           /\ link # "on" => queue' = queue
<1>1. queue \in Seq(Event)
  BY DEF TypeOK
<1>2. CASE link = "on"
  <2>1. queue' = queue \o events
    BY <1>2 DEF Emit
  <2> QED  BY <1>1, <1>2, <2>1
<1>3. CASE link # "on"
  <2>1. queue' = queue
    BY <1>3 DEF Emit
  <2> QED  BY <1>1, <1>3, <2>1
<1> QED  BY <1>2, <1>3

\* What taking an event does to it.
LEMMA Taken ==
    ASSUME TypeOK, NEW type, Receive(type)
    PROVE  /\ queue \in Seq(Event) /\ queue' \in Seq(Event)
           /\ Len(queue) \in Nat \ {0} /\ Len(queue') = Len(queue) - 1
           /\ DOMAIN queue = 1 .. Len(queue) /\ DOMAIN queue' = 1 .. Len(queue')
           /\ \A i \in 1 .. Len(queue') : queue'[i] = queue[i + 1]
           /\ Head(queue) = queue[1] /\ queue[1].type = type /\ queue[1] \in Event
           /\ UNCHANGED <<stage, focus, link, settings, before, budget, happenings>>
           /\ loop = <<>> /\ link # "off"
<1>1. queue \in Seq(Event) /\ queue # <<>> /\ queue' = Tail(queue)
  BY DEF TypeOK, Receive
<1>2. Head(queue).type = type /\ loop = <<>> /\ link # "off"
      /\ UNCHANGED <<stage, focus, link, settings, before, budget, happenings>>
  BY DEF Receive, world
<1> QED  BY <1>1, <1>2

\* The kinds of events, told by their types.
LEMMA Kinds ==
    ASSUME NEW e \in Event
    PROVE  /\ e.type \in {"changed", "closed", "focus", "all"}
           /\ e.win \in Windows \cup {NoWin}
           /\ e.type \in {"changed", "closed"} => e.win \in Windows
           /\ e.type = "changed" => e.stage \in Numbers /\ e.focused \in BOOLEAN
           /\ e.type = "all" => e.stages \in [Windows -> Numbers]
  BY DEF Event

LEMMA Contents ==
    /\ \A w, n, b : /\ Changed(w, n, b).type = "changed" /\ Changed(w, n, b).win = w
                    /\ Changed(w, n, b).stage = n /\ Changed(w, n, b).focused = b
    /\ \A w : Closed(w).type = "closed" /\ Closed(w).win = w
    /\ \A w : Focused(w).type = "focus" /\ Focused(w).win = w
  BY DEF Changed, Closed, Focused

\* A window never becomes one that has not opened, and a closed one stays closed.
Ages == \A w \in Windows : /\ stage[w] # 0 => stage'[w] # 0
                           /\ stage[w] = -1 => stage'[w] = -1

\* What Niri may emit: never a snapshot, the end of a closed window, and a description
\* of one that was not closed before.
Fits(events) ==
    \A k \in 1 .. Len(events) :
       /\ events[k].type # "all"
       /\ events[k].type = "closed" => stage'[events[k].win] = -1
       /\ events[k].type = "changed" =>
            /\ events[k].stage > 0
            /\ stage[events[k].win] # -1 /\ stage'[events[k].win] # 0
            /\ \A j \in 1 .. Len(events) : events[j].type # "closed"

LEMMA QueueEmit ==
    ASSUME TypeOK, QueueInv, NEW events \in Seq(Event), Emit(events), Ages, Fits(events)
    PROVE  QueueInv'
<1>1. /\ Len(queue) \in Nat /\ Len(queue') \in Nat /\ Len(queue) <= Len(queue')
      /\ DOMAIN queue = 1 .. Len(queue) /\ DOMAIN queue' = 1 .. Len(queue')
      /\ queue \in Seq(Event) /\ queue' \in Seq(Event)
      /\ \A i \in 1 .. Len(queue) : queue'[i] = queue[i]
      /\ \A i \in 1 .. Len(queue') : i > Len(queue) =>
            i - Len(queue) \in 1 .. Len(events) /\ queue'[i] = events[i - Len(queue)]
  BY Emitted
<1> SUFFICES ASSUME NEW i \in 1 .. Len(queue')
             PROVE  /\ queue'[i].type = "all" => i = 1
                    /\ queue'[i].type = "closed" => stage'[queue'[i].win] = -1
                    /\ queue'[i].type = "changed" =>
                         /\ queue'[i].stage > 0 /\ stage'[queue'[i].win] # 0
                         /\ \A j \in 1 .. i - 1 :
                               ~(queue'[j].type = "closed" /\ queue'[j].win = queue'[i].win)
  BY <1>1 DEF QueueInv, Says
<1>2. /\ queue'[i].type = "closed" => queue'[i].win \in Windows
      /\ queue'[i].type = "changed" => queue'[i].win \in Windows
  BY <1>1, Kinds
<1>3. CASE i <= Len(queue)
  <2>1. i \in 1 .. Len(queue) /\ queue'[i] = queue[i]
    BY <1>1, <1>3
  <2>2. \A j \in 1 .. i - 1 : queue'[j] = queue[j]
    BY <1>1, <1>3
  <2>3. CASE queue[i].type = "changed"
    <3>1. queue[i].stage > 0 /\ stage[queue[i].win] # 0 /\ queue[i].win \in Windows
      BY <1>1, <1>2, <2>1, <2>3 DEF QueueInv
    <3>2. \A j \in 1 .. i - 1 : ~(queue[j].type = "closed" /\ queue[j].win = queue[i].win)
      BY <1>1, <2>1, <2>3 DEF QueueInv, Says
    <3> QED  BY <2>1, <2>2, <2>3, <3>1, <3>2 DEF Ages
  <2>4. CASE queue[i].type = "closed"
    BY <1>1, <1>2, <2>1, <2>4 DEF QueueInv, Ages
  <2>5. CASE queue[i].type \notin {"changed", "closed"}
    BY <1>1, <2>1, <2>5 DEF QueueInv
  <2> QED  BY <2>3, <2>4, <2>5
<1>4. CASE i > Len(queue)
  <2>1. PICK k \in 1 .. Len(events) : k = i - Len(queue) /\ queue'[i] = events[k]
    BY <1>1, <1>4
  <2>2. ASSUME queue'[i].type = "changed", NEW j \in 1 .. i - 1, queue'[j].type = "closed",
               queue'[j].win = queue'[i].win
        PROVE  FALSE
    <3>1. stage[queue'[i].win] # -1 /\ \A m \in 1 .. Len(events) : events[m].type # "closed"
      BY <2>1, <2>2 DEF Fits
    <3>2. j \in 1 .. Len(queue) /\ queue[j].type = "closed" /\ queue[j].win = queue'[i].win
      <4>1. j \in Int /\ 1 <= j /\ j \in 1 .. Len(queue')
        BY <1>1
      <4>2. CASE j > Len(queue)
        <5>1. j - Len(queue) \in 1 .. Len(events) /\ queue'[j] = events[j - Len(queue)]
          BY <1>1, <4>1, <4>2
        <5> QED  BY <2>2, <3>1, <5>1
      <4>3. CASE j <= Len(queue)
        BY <1>1, <2>2, <4>1, <4>3
      <4> QED  BY <1>1, <4>1, <4>2, <4>3
    <3> QED  BY <1>1, <3>1, <3>2 DEF QueueInv
  <2> QED  BY <2>1, <2>2 DEF Fits
<1> QED  BY <1>1, <1>3, <1>4

LEMMA QueueTake ==
    ASSUME TypeOK, QueueInv, NEW type, Receive(type)
    PROVE  QueueInv' /\ ~Whole'
<1>1. /\ Len(queue) \in Nat \ {0} /\ Len(queue') = Len(queue) - 1
      /\ DOMAIN queue = 1 .. Len(queue) /\ DOMAIN queue' = 1 .. Len(queue')
      /\ \A i \in 1 .. Len(queue') : queue'[i] = queue[i + 1]
      /\ queue' \in Seq(Event) /\ stage' = stage
  BY Taken
<1>2. \A i \in 1 .. Len(queue') : i + 1 \in DOMAIN queue /\ i + 1 # 1
  BY <1>1
<1>3. \A i \in 1 .. Len(queue') : \A j \in 1 .. i - 1 :
         j \in 1 .. Len(queue') /\ j + 1 \in 1 .. (i + 1) - 1
  BY <1>1
<1>4. QueueInv'
  BY <1>1, <1>2, <1>3, SMTT(30) DEF QueueInv, Says
<1>5. ~Whole'
  BY <1>1, <1>2 DEF QueueInv, Whole
<1> QED  BY <1>4, <1>5

LEMMA QueueNext ==
    ASSUME TypeOK, QueueInv, [Next]_vars
    PROVE  QueueInv'
<1>1. ASSUME NEW w \in Windows, Opens(w) PROVE QueueInv'
  <2>1. stage' = [stage EXCEPT ![w] = 1] /\ stage[w] = 0
    BY <1>1 DEF Opens
  <2>2. Ages /\ stage'[w] = 1
    BY <2>1 DEF Ages, TypeOK
  <2>3. PICK events \in {<<Changed(w, 1, TRUE)>>, <<Changed(w, 1, TRUE), Focused(w)>>,
                         <<Changed(w, 1, FALSE)>>} : Emit(events)
    BY <1>1 DEF Opens
  <2>4. Changed(w, 1, TRUE) \in Event /\ Changed(w, 1, FALSE) \in Event /\ Focused(w) \in Event
    <3>1. 1 \in Numbers /\ TRUE \in BOOLEAN /\ FALSE \in BOOLEAN
      BY DEF Numbers, Most
    <3> QED  BY <3>1, EventTypes, Zenon
  <2>5. events \in Seq(Event) /\ Fits(events)
    <3> DEFINE a == Changed(w, 1, TRUE)
               b == Changed(w, 1, FALSE)
               d == Focused(w)
    <3>1. /\ a \in Event /\ a.type = "changed" /\ a.win = w /\ a.stage = 1
          /\ b \in Event /\ b.type = "changed" /\ b.win = w /\ b.stage = 1
          /\ d \in Event /\ d.type = "focus"
      BY <2>4 DEF Changed, Focused
    <3> HIDE DEF a, b, d
    <3>2. <<a>> \in Seq(Event) /\ <<a, d>> \in Seq(Event) /\ <<b>> \in Seq(Event)
      BY <3>1
    <3>3. Fits(<<a>>) /\ Fits(<<b>>)
      BY <2>1, <2>2, <3>1 DEF Fits
    <3>4. Fits(<<a, d>>)
      BY <2>1, <2>2, <3>1 DEF Fits
    <3>5. events \in {<<a>>, <<a, d>>, <<b>>}
      BY <2>3 DEF a, b, d
    <3> QED  BY <3>2, <3>3, <3>4, <3>5
  <2> QED  BY <2>2, <2>3, <2>5, QueueEmit
<1>2. ASSUME NEW w \in Windows, Changes(w) PROVE QueueInv'
  <2>1. stage' = [stage EXCEPT ![w] = stage[w] + 1] /\ stage[w] > 0
        /\ stage[w] \in Int /\ stage[w] + 1 \in Numbers
    BY <1>2, ChangesTo
  <2>2. Ages /\ stage'[w] > 0
    BY <2>1 DEF Ages, TypeOK
  <2> DEFINE e == Changed(w, stage[w] + 1, focus = w)
  <2>3. e \in Event /\ e.type = "changed" /\ e.win = w /\ e.stage = stage[w] + 1
    <3>1. (focus = w) \in BOOLEAN
      OBVIOUS
    <3>2. e \in Event
      BY <2>1, <3>1, EventTypes, Zenon
    <3> QED  BY <3>2 DEF Changed
  <2> HIDE DEF e
  <2>4. <<e>> \in Seq(Event) /\ Fits(<<e>>)
    BY <2>1, <2>2, <2>3 DEF Fits
  <2>5. Emit(<<e>>)
    BY <1>2 DEF Changes, e
  <2> QED  BY <2>2, <2>4, <2>5, QueueEmit
<1>3. ASSUME NEW w \in Windows, Closes(w) PROVE QueueInv'
  <2>1. stage' = [stage EXCEPT ![w] = -1] /\ stage[w] > 0
    BY <1>3 DEF Closes, IsOpen
  <2>2. Ages /\ stage'[w] = -1
    BY <2>1 DEF Ages, TypeOK
  <2>3. PICK v \in Windows \cup {NoWin} :
           Emit(<<Closed(w), Focused(v)>>) \/ Emit(<<Closed(w)>>)
    BY <1>3 DEF Closes
  <2>4. Closed(w) \in Event /\ Focused(v) \in Event
    BY EventTypes
  <2>5. /\ <<Closed(w), Focused(v)>> \in Seq(Event) /\ Fits(<<Closed(w), Focused(v)>>)
        /\ <<Closed(w)>> \in Seq(Event) /\ Fits(<<Closed(w)>>)
    BY <2>2, <2>4, Contents DEF Fits
  <2> QED  BY <2>2, <2>3, <2>5, QueueEmit
<1>4. ASSUME NEW w \in Windows \cup {NoWin}, FocusOn(w), stage' = stage PROVE QueueInv'
  <2>1. PICK events \in {<<>>, <<Focused(w)>>} : Emit(events)
    BY <1>4 DEF FocusOn
  <2>2. Ages
    BY <1>4 DEF Ages
  <2>3. events \in Seq(Event) /\ Fits(events)
    <3> DEFINE d == Focused(w)
    <3>1. d \in Event /\ d.type = "focus"
      BY EventTypes, Contents
    <3>2. events \in {<<>>, <<d>>}
      BY <2>1
    <3> HIDE DEF d
    <3>3. Fits(<<d>>) /\ Fits(<<>>) /\ <<d>> \in Seq(Event) /\ <<>> \in Seq(Event)
      BY <3>1 DEF Fits
    <3> QED  BY <3>2, <3>3
  <2> QED  BY <2>1, <2>2, <2>3, QueueEmit
<1>5. ASSUME NEW w \in Windows \cup {NoWin}, UserFocuses(w) PROVE QueueInv'
  BY <1>4, <1>5 DEF UserFocuses
<1>6. CASE Execute
  <2>1. CASE IsOpen(Head(loop))
    <3>1. Head(loop) \in Windows
      BY <1>6 DEF Execute, TypeOK
    <3> QED  BY <1>4, <1>6, <2>1, <3>1 DEF Execute
  <2>2. CASE ~IsOpen(Head(loop))
    BY <1>6, <2>2 DEF Execute, QueueInv, Says
  <2> QED  BY <2>1, <2>2
<1>7. CASE Handle
  BY <1>7, QueueTake DEF Handle, HandleChanged, HandleFocus, HandleClosed, HandleAll
<1>8. CASE Connect
  BY <1>8 DEF Connect, QueueInv, Says
<1>9. CASE Restart
  BY <1>9 DEF Restart, QueueInv, Says
<1>10. CASE ExecuteFails \/ Break \/ StreamEnded \/ Reload \/ (\E w \in Windows : GetsLate(w))
            \/ UNCHANGED vars
  BY <1>10 DEF ExecuteFails, Break, StreamEnded, Reload, GetsLate, vars, QueueInv, Says
<1> QED  BY <1>1, <1>2, <1>3, <1>5, <1>6, <1>7, <1>8, <1>9, <1>10 DEF Next

-------------------------------------------------------------------------------
(* What the handlers do *)

\* What the opening and the candidate of a described window are before it is restored.
OpenedThen(w) == IF cache[w] = 0 THEN "recent" ELSE IF opened[w] = "late" THEN "no" ELSE opened[w]
CandidateThen(w) ==
    IF cache[w] = 0 THEN FocusBefore(w) ELSE IF opened[w] = "late" THEN NoWin ELSE candidate[w]

\* A window that is not classified keeps its detector while it is known.
LEMMA ClassifyOthers ==
    ASSUME TypeOK, NEW ws, NEW c, NEW isNew, Classify(ws, c, isNew), NEW w \in Windows \ ws
    PROVE  tracked'[w] = IF c[w] = 0 THEN "none" ELSE tracked[w]
<1> DEFINE found(x) == IF x \in Candidates(ws) THEN Match(x, c[x], isNew) ELSE NoMatch
<1>1. tracked' = [x \in Windows |-> IF found(x).action = "pip" THEN found(x).name
                                    ELSE IF c[x] = 0 THEN "none" ELSE tracked[x]]
  BY DEF Classify
<1>2. found(w).action # "pip"
  BY DEF Candidates, NoMatch
<1> HIDE DEF found
<1> QED  BY <1>1, <1>2

\* Nobody's detector is taken from him by classifying.
LEMMA ClassifyKeeps ==
    ASSUME TypeOK, NEW ws, NEW c, NEW isNew, Classify(ws, c, isNew), NEW w \in Windows,
           c[w] # 0, tracked[w] # "none"
    PROVE  tracked'[w] # "none"
<1> DEFINE found(x) == IF x \in Candidates(ws) THEN Match(x, c[x], isNew) ELSE NoMatch
<1>1. tracked' = [x \in Windows |-> IF found(x).action = "pip" THEN found(x).name
                                    ELSE IF c[x] = 0 THEN "none" ELSE tracked[x]]
  BY DEF Classify
<1>2. found(w).action # "pip"
  BY DEF Candidates, NoMatch
<1> HIDE DEF found
<1> QED  BY <1>1, <1>2

\* The plan of a restore, and what it counts.
LEMMA PlanCounts ==
    ASSUME TypeOK, NEW id \in Windows, NEW o, NEW c, NEW ws, Plan(id, RestoreFor(id, o, c, ws))
    PROVE  IF o[id] = "recent" /\ c[id] \in ws \ {id}
           THEN loop' = <<c[id]>> /\ returned' = [returned EXCEPT ![id] = returned[id] + 1]
           ELSE loop' = <<>> /\ returned' = returned
<1>1. CASE o[id] = "recent" /\ c[id] \in ws \ {id}
  <2>1. RestoreFor(id, o, c, ws) = <<c[id]>> /\ <<c[id]>> # <<>>
    BY <1>1 DEF RestoreFor
  <2> QED  BY <1>1, <2>1 DEF Plan
<1>2. CASE ~(o[id] = "recent" /\ c[id] \in ws \ {id})
  BY <1>2 DEF Plan, RestoreFor
<1> QED  BY <1>1, <1>2

LEMMA ChangedDoes ==
    ASSUME TypeOK, QueueInv, HandleChanged, NEW id, id = queue[1].win
    PROVE  /\ id \in Windows /\ queue[1].stage > 0 /\ stage[id] # 0
           /\ cache' = [cache EXCEPT ![id] = queue[1].stage]
           /\ \A w \in Windows \ {id} :
                /\ tracked'[w] = IF cache[w] = 0 THEN "none" ELSE tracked[w]
                /\ opened'[w] = IF opened[w] = "late" THEN "no" ELSE opened[w]
                /\ candidate'[w] = IF opened[w] = "late" THEN NoWin ELSE candidate[w]
                /\ returned'[w] = returned[w]
           /\ tracked[id] # "none" => tracked'[id] # "none"
           /\ focused' = IF queue[1].focused THEN id ELSE focused
           /\ IF tracked[id] = "none" /\ tracked'[id] # "none" /\ queue[1].focused
              THEN /\ opened'[id] = "no"
                   /\ IF /\ OpenedThen(id) = "recent"
                         /\ CandidateThen(id) # id /\ CandidateThen(id) \in Known(cache')
                      THEN loop' = <<CandidateThen(id)>> /\ returned'[id] = returned[id] + 1
                      ELSE loop' = <<>> /\ returned' = returned
              ELSE /\ opened'[id] = OpenedThen(id) /\ candidate'[id] = CandidateThen(id)
                   /\ loop' = <<>> /\ returned' = returned
<1> DEFINE isNew == cache[id] = 0
           o == [w \in Windows |-> IF w = id /\ isNew THEN "recent"
                                   ELSE IF w \in Pruned THEN "no" ELSE opened[w]]
           c == [w \in Windows |-> IF w = id /\ isNew THEN FocusBefore(id)
                                   ELSE IF w \in Pruned THEN NoWin ELSE candidate[w]]
           now == tracked[id] = "none" /\ tracked'[id] # "none" /\ queue[1].focused
<1>1. /\ Head(queue) = queue[1] /\ queue[1] \in Event /\ queue[1].type = "changed"
      /\ 1 \in DOMAIN queue
  BY Taken DEF HandleChanged
<1>2. id \in Windows /\ queue[1].stage \in Numbers /\ queue[1].focused \in BOOLEAN
  BY <1>1, Kinds
<1>3. queue[1].stage > 0 /\ stage[id] # 0
  BY <1>1 DEF QueueInv
<1>4. /\ cache' = [cache EXCEPT ![id] = queue[1].stage]
      /\ focused' = IF queue[1].focused THEN id ELSE focused
      /\ Classify({id}, cache', isNew)
      /\ IF now
         THEN /\ Plan(id, RestoreFor(id, o, c, Known(cache')))
              /\ opened' = [o EXCEPT ![id] = "no"] /\ candidate' = [c EXCEPT ![id] = NoWin]
         ELSE Plan(id, <<>>) /\ opened' = o /\ candidate' = c
  BY <1>1 DEF HandleChanged
<1>5. /\ \A w \in Windows \ {id} :
           /\ o[w] = IF opened[w] = "late" THEN "no" ELSE opened[w]
           /\ c[w] = IF opened[w] = "late" THEN NoWin ELSE candidate[w]
      /\ o[id] = OpenedThen(id) /\ c[id] = CandidateThen(id)
  BY <1>2 DEF Pruned, OpenedThen, CandidateThen
<1>6. DOMAIN o = Windows /\ DOMAIN c = Windows
  OBVIOUS
<1>7. \A w \in Windows \ {id} : tracked'[w] = IF cache[w] = 0 THEN "none" ELSE tracked[w]
  <2>1. \A w \in Windows \ {id} : cache'[w] = cache[w]
    BY <1>4 DEF TypeOK
  <2>2. \A w \in Windows \ {id} : tracked'[w] = IF cache'[w] = 0 THEN "none" ELSE tracked[w]
    <3>1. PICK ws, b : ws = {id} /\ Classify(ws, cache', b)
      BY <1>4
    <3>2. \A w \in Windows \ ws : tracked'[w] = IF cache'[w] = 0 THEN "none" ELSE tracked[w]
      BY <3>1, ClassifyOthers
    <3> QED  BY <3>1, <3>2
  <2> QED  BY <2>1, <2>2
<1>8. tracked[id] # "none" => tracked'[id] # "none"
  <2>1. cache'[id] # 0
    BY <1>2, <1>3, <1>4 DEF TypeOK
  <2>2. PICK ws, b : ws = {id} /\ Classify(ws, cache', b)
    BY <1>4
  <2> QED  BY <1>2, <2>1, <2>2, ClassifyKeeps
<1> HIDE DEF o, c
<1>9. CASE now
  <2>1. IF o[id] = "recent" /\ c[id] \in Known(cache') \ {id}
        THEN loop' = <<c[id]>> /\ returned' = [returned EXCEPT ![id] = returned[id] + 1]
        ELSE loop' = <<>> /\ returned' = returned
    BY <1>2, <1>4, <1>9, PlanCounts
  <2>2. opened'[id] = "no" /\ \A w \in Windows \ {id} : opened'[w] = o[w] /\ candidate'[w] = c[w]
    BY <1>2, <1>4, <1>6, <1>9
  <2>3. returned \in [Windows -> Nat]
    BY DEF TypeOK
  <2>4. CASE o[id] = "recent" /\ c[id] \in Known(cache') \ {id}
    BY <1>2, <1>3, <1>4, <1>5, <1>7, <1>8, <1>9, <2>1, <2>2, <2>3, <2>4
  <2>5. CASE ~(o[id] = "recent" /\ c[id] \in Known(cache') \ {id})
    BY <1>2, <1>3, <1>4, <1>5, <1>7, <1>8, <1>9, <2>1, <2>2, <2>3, <2>5
  <2> QED  BY <2>4, <2>5
<1>10. CASE ~now
  <2>1. loop' = <<>> /\ returned' = returned /\ opened' = o /\ candidate' = c
    BY <1>4, <1>10 DEF Plan
  <2> QED  BY <1>2, <1>3, <1>4, <1>5, <1>7, <1>8, <1>10, <2>1
<1> QED  BY <1>9, <1>10

LEMMA FocusDoes ==
    ASSUME TypeOK, HandleFocus, NEW id, id = queue[1].win
    PROVE  /\ id \in Windows \cup {NoWin} /\ focused' = id
           /\ UNCHANGED <<cache, tracked, ignored, looked, texts>>
           /\ IF id \in Windows /\ tracked[id] # "none"
              THEN /\ opened'[id] = "no"
                   /\ \A w \in Windows \ {id} : returned'[w] = returned[w]
                   /\ IF /\ opened[id] = "recent"
                         /\ candidate[id] # id /\ candidate[id] \in Known(cache)
                      THEN loop' = <<candidate[id]>> /\ returned'[id] = returned[id] + 1
                      ELSE loop' = <<>> /\ returned' = returned
              ELSE loop' = <<>> /\ returned' = returned
           /\ \A w \in Windows : ~(w = id /\ tracked[w] # "none") =>
                /\ opened'[w] = IF opened[w] = "late" THEN "no" ELSE opened[w]
                /\ candidate'[w] = IF opened[w] = "late" THEN NoWin ELSE candidate[w]
<1> DEFINE isPip == id # NoWin /\ tracked[id] # "none"
<1>1. /\ Head(queue) = queue[1] /\ queue[1] \in Event /\ queue[1].type = "focus"
      /\ loop = <<>>
  BY Taken DEF HandleFocus
<1>2. id \in Windows \cup {NoWin} /\ NoWin \notin Windows
  BY <1>1, Kinds, ArrivalAssumption DEF ArrivalAssumption
<1>3. /\ IF isPip THEN Forget(Consumed(id)) ELSE Forget(Pruned)
      /\ IF isPip THEN Plan(id, RestoreFor(id, opened, candidate, Known(cache)))
                  ELSE UNCHANGED <<loop, returned>>
      /\ focused' = id
      /\ UNCHANGED <<cache, tracked, ignored, looked, texts>>
  BY <1>1 DEF HandleFocus
<1>4. CASE isPip
  <2>1. IF opened[id] = "recent" /\ candidate[id] \in Known(cache) \ {id}
        THEN loop' = <<candidate[id]>> /\ returned' = [returned EXCEPT ![id] = returned[id] + 1]
        ELSE loop' = <<>> /\ returned' = returned
    BY <1>2, <1>3, <1>4, PlanCounts
  <2>2. /\ opened'[id] = "no"
        /\ \A w \in Windows \ {id} :
              /\ opened'[w] = IF opened[w] = "late" THEN "no" ELSE opened[w]
              /\ candidate'[w] = IF opened[w] = "late" THEN NoWin ELSE candidate[w]
    BY <1>2, <1>3, <1>4 DEF Forget, Consumed, Pruned
  <2>3. returned \in [Windows -> Nat] /\ id \in Windows
    BY <1>2, <1>4 DEF TypeOK
  <2>4. CASE opened[id] = "recent" /\ candidate[id] \in Known(cache) \ {id}
    BY <1>2, <1>3, <1>4, <2>1, <2>2, <2>3, <2>4
  <2>5. CASE ~(opened[id] = "recent" /\ candidate[id] \in Known(cache) \ {id})
    BY <1>2, <1>3, <1>4, <2>1, <2>2, <2>3, <2>5
  <2> QED  BY <2>4, <2>5
<1>5. CASE ~isPip
  <2>1. \A w \in Windows : /\ opened'[w] = IF opened[w] = "late" THEN "no" ELSE opened[w]
                           /\ candidate'[w] = IF opened[w] = "late" THEN NoWin ELSE candidate[w]
    BY <1>3, <1>5 DEF Forget, Pruned
  <2> QED  BY <1>1, <1>2, <1>3, <1>5, <2>1
<1> QED  BY <1>4, <1>5

LEMMA ClosedDoes ==
    ASSUME TypeOK, QueueInv, HandleClosed, NEW id, id = queue[1].win
    PROVE  /\ id \in Windows /\ stage[id] = -1
           /\ cache' = [cache EXCEPT ![id] = 0] /\ tracked' = [tracked EXCEPT ![id] = "none"]
           /\ opened'[id] = "no"
           /\ \A w \in Windows \ {id} :
                /\ opened'[w] = IF opened[w] = "late" THEN "no" ELSE opened[w]
                /\ candidate'[w] = IF opened[w] = "late" THEN NoWin ELSE candidate[w]
           /\ focused' = IF focused = id THEN NoWin ELSE focused
           /\ UNCHANGED <<loop, returned>>
<1>1. /\ Head(queue) = queue[1] /\ queue[1] \in Event /\ queue[1].type = "closed"
      /\ 1 \in DOMAIN queue
  BY Taken DEF HandleClosed
<1>2. id \in Windows /\ stage[id] = -1
  BY <1>1, Kinds DEF QueueInv
<1>3. /\ cache' = [cache EXCEPT ![id] = 0] /\ tracked' = [tracked EXCEPT ![id] = "none"]
      /\ Forget(Pruned \cup {id}) /\ focused' = IF focused = id THEN NoWin ELSE focused
      /\ UNCHANGED <<loop, returned>>
  BY <1>1 DEF HandleClosed
<1> QED  BY <1>2, <1>3 DEF Forget, Pruned

LEMMA AllDoes ==
    ASSUME TypeOK, HandleAll
    PROVE  /\ cache' = queue[1].stages /\ focused' = queue[1].win
           /\ cache' \in [Windows -> Numbers]
           /\ \A w \in Windows :
                /\ cache'[w] = 0 => tracked'[w] = "none" /\ opened'[w] = "no"
                /\ opened'[w] \in {"no", opened[w]}
           /\ UNCHANGED <<loop, returned>>
<1>1. Head(queue) = queue[1] /\ queue[1] \in Event /\ queue[1].type = "all"
  BY Taken DEF HandleAll
<1>2. /\ cache' = queue[1].stages /\ focused' = queue[1].win
      /\ Forget(Pruned \cup {w \in Windows : cache'[w] = 0})
      /\ Classify(Known(cache'), cache', FALSE)
      /\ UNCHANGED <<loop, returned>>
  BY <1>1 DEF HandleAll
<1>3. cache' \in [Windows -> Numbers]
  BY <1>1, <1>2, Kinds
<1>4. \A w \in Windows : cache'[w] = 0 => tracked'[w] = "none"
  <2>1. \A w \in Windows \ Known(cache') :
           tracked'[w] = IF cache'[w] = 0 THEN "none" ELSE tracked[w]
    BY <1>2, ClassifyOthers, ZenonT(30)
  <2>2. \A w \in Windows : cache'[w] = 0 => w \notin Known(cache')
    BY DEF Known
  <2> QED  BY <2>1, <2>2
<1>5. \A w \in Windows : opened'[w] = IF w \in Pruned \/ cache'[w] = 0 THEN "no" ELSE opened[w]
  BY <1>2 DEF Forget
<1> QED  BY <1>1, <1>2, <1>3, <1>4, <1>5

-------------------------------------------------------------------------------
(* What Niri's steps add to the queue *)

\* The queue has grown by events of `new`, if the stream is up.
Grown(new) ==
    /\ Len(queue) \in Nat /\ Len(queue') \in Nat /\ Len(queue) <= Len(queue')
    /\ DOMAIN queue = 1 .. Len(queue) /\ DOMAIN queue' = 1 .. Len(queue')
    /\ \A i \in 1 .. Len(queue) : queue'[i] = queue[i]
    /\ \A i \in 1 .. Len(queue') : i > Len(queue) => link = "on" /\ queue'[i] \in new
    /\ (Whole' <=> Whole) /\ (Whole => queue'[1] = queue[1])

LEMMA Grows ==
    ASSUME TypeOK, NEW new \in SUBSET Event, \A e \in new : e.type # "all",
           NEW events \in Seq(new), Emit(events)
    PROVE  Grown(new)
<1>1. events \in Seq(Event)
  OBVIOUS
<1>2. /\ queue \in Seq(Event) /\ queue' \in Seq(Event)
      /\ Len(queue) \in Nat /\ Len(queue') \in Nat /\ Len(queue) <= Len(queue')
      /\ DOMAIN queue = 1 .. Len(queue) /\ DOMAIN queue' = 1 .. Len(queue')
      /\ \A i \in 1 .. Len(queue) : queue'[i] = queue[i]
      /\ \A i \in 1 .. Len(queue') : i > Len(queue) =>
            i - Len(queue) \in 1 .. Len(events) /\ queue'[i] = events[i - Len(queue)]
      /\ link # "on" => queue' = queue
  BY <1>1, Emitted
<1>3. \A k \in 1 .. Len(events) : events[k] \in new
  OBVIOUS
<1>4. \A i \in 1 .. Len(queue') : i > Len(queue) => queue'[i] \in new /\ link = "on"
  BY <1>2, <1>3
<1>5. (Whole' <=> Whole) /\ (Whole => queue'[1] = queue[1])
  <2>1. CASE queue = <<>>
    <3>1. ~Whole /\ Len(queue) = 0
      BY <2>1 DEF Whole
    <3>2. queue' # <<>> => 1 \in 1 .. Len(queue') /\ 1 > Len(queue)
      BY <1>2, <3>1
    <3>3. ~Whole'
      BY <1>4, <3>2 DEF Whole
    <3> QED  BY <3>1, <3>3
  <2>2. CASE queue # <<>>
    <3>1. 1 \in 1 .. Len(queue)
      BY <1>2, <2>2
    <3>2. queue'[1] = queue[1] /\ queue' # <<>>
      BY <1>2, <3>1
    <3> QED  BY <2>2, <3>2 DEF Whole
  <2> QED  BY <2>1, <2>2
<1> QED  BY <1>2, <1>4, <1>5 DEF Grown

\* Niri's steps, and what each emits.
LEMMA OpensGrows ==
    ASSUME TypeOK, NEW w \in Windows, Opens(w)
    PROVE  /\ stage' = [stage EXCEPT ![w] = 1] /\ stage[w] = 0
           /\ UNCHANGED <<link, settings, engine, loop, returned>>
           /\ \/ /\ focus' = w /\ Grown({Changed(w, 1, TRUE), Focused(w)})
                 /\ link = "on" => /\ Len(queue') > Len(queue)
                                   /\ queue'[Len(queue) + 1] = Changed(w, 1, TRUE)
                 /\ before' = [Nothing(NoWin) EXCEPT ![w] =
                        IF \E v \in Windows : v = focus /\ cache[v] > 0 /\ opened[v] = "no"
                        THEN focus ELSE NoWin]
              \/ Grown({Changed(w, 1, FALSE)}) /\ UNCHANGED <<focus, before>>
<1> DEFINE a == Changed(w, 1, TRUE)
           b == Changed(w, 1, FALSE)
           d == Focused(w)
<1>1. /\ a \in Event /\ a.type # "all" /\ b \in Event /\ b.type # "all"
      /\ d \in Event /\ d.type # "all"
  <2>1. 1 \in Numbers /\ TRUE \in BOOLEAN /\ FALSE \in BOOLEAN
    BY DEF Numbers, Most
  <2>2. a \in Event /\ b \in Event /\ d \in Event
    BY <2>1, EventTypes, Zenon
  <2> QED  BY <2>2 DEF Changed, Focused
<1>2. \/ /\ focus' = w
         /\ Emit(<<a>>) \/ Emit(<<a, d>>)
         /\ before' = [Nothing(NoWin) EXCEPT ![w] =
                IF \E v \in Windows : v = focus /\ cache[v] > 0 /\ opened[v] = "no"
                THEN focus ELSE NoWin]
      \/ Emit(<<b>>) /\ UNCHANGED <<focus, before>>
  BY DEF Opens
<1>3. /\ stage' = [stage EXCEPT ![w] = 1] /\ stage[w] = 0
      /\ UNCHANGED <<link, settings, engine, loop, returned>>
  BY DEF Opens
<1> HIDE DEF a, b, d
<1>4. ASSUME NEW events \in {<<a>>, <<a, d>>}, Emit(events)
      PROVE  /\ Grown({a, d})
             /\ link = "on" => Len(queue') > Len(queue) /\ queue'[Len(queue) + 1] = a
  <2>1. events \in Seq({a, d}) /\ {a, d} \in SUBSET Event /\ events \in Seq(Event)
    <3>1. <<a>> \in Seq({a, d}) /\ <<a, d>> \in Seq({a, d})
      OBVIOUS
    <3>2. <<a>> \in Seq(Event) /\ <<a, d>> \in Seq(Event)
      BY <1>1
    <3> QED  BY <1>1, <3>1, <3>2
  <2>2. Grown({a, d})
    BY <1>1, <1>4, <2>1, Grows
  <2>3. Len(events) > 0 /\ events[1] = a
    BY <1>4
  <2>4. /\ Len(queue) \in Nat /\ Len(queue') \in Nat
        /\ \A i \in 1 .. Len(queue') : i > Len(queue) => queue'[i] = events[i - Len(queue)]
        /\ link = "on" => Len(queue') = Len(queue) + Len(events)
    BY <1>4, <2>1, Emitted
  <2>5. ASSUME link = "on" PROVE Len(queue') > Len(queue) /\ queue'[Len(queue) + 1] = a
    <3>1. Len(queue') = Len(queue) + Len(events) /\ Len(events) \in Nat
      BY <2>1, <2>4, <2>5
    <3>2. Len(queue) + 1 \in 1 .. Len(queue') /\ (Len(queue) + 1) - Len(queue) = 1
      BY <2>3, <2>4, <3>1
    <3> QED  BY <2>3, <2>4, <3>1, <3>2
  <2> QED  BY <2>2, <2>5
<1>5. ASSUME Emit(<<b>>) PROVE Grown({b})
  <2>1. <<b>> \in Seq({b}) /\ {b} \in SUBSET Event
    BY <1>1
  <2> QED  BY <1>1, <1>5, <2>1, Grows
<1>6. CASE /\ focus' = w
           /\ Emit(<<a>>) \/ Emit(<<a, d>>)
           /\ before' = [Nothing(NoWin) EXCEPT ![w] =
                  IF \E v \in Windows : v = focus /\ cache[v] > 0 /\ opened[v] = "no"
                  THEN focus ELSE NoWin]
  BY <1>3, <1>4, <1>6 DEF a, b, d
<1>7. CASE Emit(<<b>>) /\ UNCHANGED <<focus, before>>
  BY <1>3, <1>5, <1>7 DEF a, b, d
<1> QED  BY <1>2, <1>6, <1>7

LEMMA ChangesGrows ==
    ASSUME TypeOK, NEW w \in Windows, Changes(w)
    PROVE  /\ stage' = [stage EXCEPT ![w] = stage[w] + 1] /\ stage[w] > 0
           /\ UNCHANGED <<focus, link, settings, engine, loop, ghosts>>
           /\ Grown({Changed(w, stage[w] + 1, focus = w)})
<1> DEFINE e == Changed(w, stage[w] + 1, focus = w)
<1>1. e \in Event /\ e.type # "all"
  <2>1. (focus = w) \in BOOLEAN /\ stage[w] + 1 \in Numbers
    BY ChangesTo
  <2>2. e \in Event
    BY <2>1, EventTypes, Zenon
  <2> QED  BY <2>2 DEF Changed
<1>2. /\ stage' = [stage EXCEPT ![w] = stage[w] + 1] /\ stage[w] > 0 /\ Emit(<<e>>)
      /\ UNCHANGED <<focus, link, settings, engine, loop, ghosts>>
  BY ChangesTo DEF Changes
<1>3. Grown({e})
  <2> HIDE DEF e
  <2>1. <<e>> \in Seq({e}) /\ {e} \in SUBSET Event
    BY <1>1
  <2> QED  BY <1>1, <1>2, <2>1, Grows
<1> QED  BY <1>2, <1>3

LEMMA ClosesGrows ==
    ASSUME TypeOK, NEW w \in Windows, Closes(w)
    PROVE  /\ stage' = [stage EXCEPT ![w] = -1] /\ stage[w] > 0
           /\ UNCHANGED <<link, settings, engine, loop, returned>>
           /\ before' = Settles({w, focus})
           /\ \/ /\ focus = w /\ focus' # w
                 /\ focus' \in {v \in Windows : IsOpen(v)} \cup {NoWin}
                 /\ Grown({Closed(w), Focused(focus')})
                 /\ link = "on" => /\ Len(queue') > 0
                                   /\ queue'[Len(queue')] = Focused(focus')
              \/ focus # w /\ focus' = focus /\ Grown({Closed(w)})
<1>1. /\ stage' = [stage EXCEPT ![w] = -1] /\ stage[w] > 0
      /\ UNCHANGED <<link, settings, engine, loop, returned>>
      /\ before' = Settles({w, focus})
  BY DEF Closes, IsOpen
<1> DEFINE a == Closed(w)
<1>2. a \in Event /\ a.type # "all"
  <2>1. a \in Event
    BY EventTypes
  <2> QED  BY <2>1 DEF Closed
<1>3. CASE focus = w
  <2>1. PICK v \in {v \in Windows : IsOpen(v)} \cup {NoWin} :
           v # w /\ focus' = v /\ Emit(<<a, Focused(v)>>)
    BY <1>3 DEF Closes
  <2> DEFINE d == Focused(v)
  <2>2. d \in Event /\ d.type # "all"
    <3>1. d \in Event
      BY EventTypes
    <3> QED  BY <3>1 DEF Focused
  <2>3. Emit(<<a, d>>) /\ d = Focused(focus')
    BY <2>1
  <2> HIDE DEF a, d
  <2>4. <<a, d>> \in Seq({a, d}) /\ {a, d} \in SUBSET Event /\ <<a, d>> \in Seq(Event)
    BY <1>2, <2>2
  <2>5. Grown({a, d})
    BY <1>2, <2>2, <2>3, <2>4, Grows
  <2>6. Len(<<a, d>>) = 2 /\ <<a, d>>[2] = d
    OBVIOUS
  <2>7. /\ Len(queue) \in Nat /\ Len(queue') \in Nat
        /\ \A i \in 1 .. Len(queue') : i > Len(queue) => queue'[i] = <<a, d>>[i - Len(queue)]
        /\ link = "on" => Len(queue') = Len(queue) + Len(<<a, d>>)
    BY <2>3, <2>4, Emitted
  <2>8. ASSUME link = "on" PROVE Len(queue') > 0 /\ queue'[Len(queue')] = d
    <3>1. Len(queue') = Len(queue) + 2
      BY <2>6, <2>7, <2>8
    <3>2. /\ Len(queue') \in 1 .. Len(queue') /\ Len(queue') > Len(queue)
          /\ Len(queue') - Len(queue) = 2
      BY <2>7, <3>1
    <3> QED  BY <2>6, <2>7, <3>2
  <2> QED  BY <1>1, <1>3, <2>1, <2>3, <2>5, <2>8 DEF a
<1>4. CASE focus # w
  <2>1. Emit(<<a>>) /\ focus' = focus
    BY <1>4 DEF Closes
  <2>2. Grown({a})
    <3> HIDE DEF a
    <3>1. <<a>> \in Seq({a}) /\ {a} \in SUBSET Event
      BY <1>2
    <3> QED  BY <1>2, <2>1, <3>1, Grows
  <2> QED  BY <1>1, <1>4, <2>1, <2>2
<1> QED  BY <1>3, <1>4

LEMMA FocusOnGrows ==
    ASSUME TypeOK, NEW w \in Windows \cup {NoWin}, FocusOn(w)
    PROVE  /\ focus' = w /\ Grown({Focused(w)})
           /\ w = focus => queue' = queue
           /\ w # focus /\ link = "on" => /\ Len(queue') > 0
                                          /\ queue'[Len(queue')] = Focused(w)
<1> DEFINE d == Focused(w)
<1>1. d \in Event /\ d.type # "all"
  <2>1. d \in Event
    BY EventTypes
  <2> QED  BY <2>1 DEF Focused
<1>2. focus' = w /\ IF w = focus THEN Emit(<<>>) ELSE Emit(<<d>>)
  BY DEF FocusOn
<1> HIDE DEF d
<1>3. <<>> \in Seq({d}) /\ <<d>> \in Seq({d}) /\ {d} \in SUBSET Event /\ <<d>> \in Seq(Event)
  BY <1>1
<1>4. Grown({d})
  BY <1>1, <1>2, <1>3, Grows
<1>5. ASSUME w = focus PROVE queue' = queue
  BY <1>2, <1>5 DEF Emit, TypeOK
<1>6. ASSUME w # focus, link = "on" PROVE Len(queue') > 0 /\ queue'[Len(queue')] = d
  <2>1. /\ Len(queue) \in Nat /\ Len(queue') \in Nat
        /\ \A i \in 1 .. Len(queue') : i > Len(queue) => queue'[i] = <<d>>[i - Len(queue)]
        /\ Len(queue') = Len(queue) + Len(<<d>>)
    BY <1>2, <1>3, <1>6, Emitted
  <2>2. /\ Len(queue') = Len(queue) + 1 /\ Len(queue') \in 1 .. Len(queue')
        /\ Len(queue') > Len(queue) /\ Len(queue') - Len(queue) = 1
    BY <2>1
  <2> QED  BY <2>1, <2>2
<1> QED  BY <1>2, <1>4, <1>5, <1>6 DEF d

-------------------------------------------------------------------------------
(* Known windows *)

LEMMA KnownStays ==
    ASSUME TypeOK, KnownInv, Whole' <=> Whole, Whole => queue'[1] = queue[1],
           UNCHANGED <<cache, tracked, returned>>, link' = "on" => link = "on",
           \A w \in Windows : /\ opened[w] = "no" => opened'[w] = "no"
                              /\ stage'[w] = 0 => stage[w] = 0
                              /\ stage'[w] > 0 => stage[w] > 0 \/ stage[w] = 0
    PROVE  KnownInv'
  BY DEF KnownInv, Hears

LEMMA KnownHandle ==
    ASSUME TypeOK, QueueInv, KnownInv, Handle
    PROVE  KnownInv'
<1>1. \E type : Receive(type)
  BY DEF Handle, HandleChanged, HandleFocus, HandleClosed, HandleAll
<1>2. ~Whole' /\ stage' = stage
  BY <1>1, QueueTake, Taken
<1> SUFFICES ASSUME NEW w \in Windows
             PROVE  /\ stage[w] = 0 => cache'[w] = 0 /\ returned'[w] = 0
                    /\ cache'[w] = 0 => opened'[w] = "no" /\ tracked'[w] = "none"
  BY <1>2 DEF KnownInv, Hears
<1> DEFINE id == queue[1].win
<1>3. /\ stage[w] = 0 => cache[w] = 0 /\ returned[w] = 0
      /\ cache[w] = 0 => opened[w] = "no" /\ tracked[w] = "none"
      /\ stage[w] = 0 /\ Whole => queue[1].stages[w] = 0
  BY DEF KnownInv
<1>4. cache \in [Windows -> Numbers] /\ tracked \in [Windows -> Names]
  BY DEF TypeOK
<1>5. CASE HandleChanged
  <2>1. /\ id \in Windows /\ queue[1].stage > 0 /\ stage[id] # 0
        /\ cache' = [cache EXCEPT ![id] = queue[1].stage]
        /\ w # id => /\ tracked'[w] = IF cache[w] = 0 THEN "none" ELSE tracked[w]
                     /\ opened'[w] = IF opened[w] = "late" THEN "no" ELSE opened[w]
                     /\ returned'[w] = returned[w]
    BY <1>5, ChangedDoes
  <2>2. CASE w = id
    BY <1>4, <2>1, <2>2
  <2>3. CASE w # id
    BY <1>3, <1>4, <2>1, <2>3
  <2> QED  BY <2>2, <2>3
<1>6. CASE HandleFocus
  <2>1. UNCHANGED <<cache, tracked>>
    BY <1>6, FocusDoes
  <2>2. returned'[w] = returned[w] \/ opened[w] = "recent"
    BY <1>6, FocusDoes
  <2>3. opened'[w] = "no" \/ opened'[w] = opened[w]
    BY <1>6, FocusDoes
  <2> QED  BY <1>3, <2>1, <2>2, <2>3
<1>7. CASE HandleClosed
  BY <1>3, <1>4, <1>7, ClosedDoes
<1>8. CASE HandleAll
  <2>1. Whole
    <3>1. Receive("all")
      BY <1>8 DEF HandleAll
    <3> QED  BY <3>1, Taken DEF Whole
  <2> QED  BY <1>3, <1>8, <2>1, AllDoes
<1> QED  BY <1>5, <1>6, <1>7, <1>8 DEF Handle

LEMMA KnownNext ==
    ASSUME TypeOK, QueueInv, KnownInv, [Next]_vars
    PROVE  KnownInv'
<1>1. ASSUME NEW w \in Windows, Opens(w) PROVE KnownInv'
  <2>1. /\ stage' = [stage EXCEPT ![w] = 1] /\ stage[w] = 0
        /\ (Whole' <=> Whole) /\ (Whole => queue'[1] = queue[1])
        /\ UNCHANGED <<link, cache, opened, tracked, returned>>
    BY <1>1, OpensGrows DEF Grown, engine
  <2> QED  BY <2>1, KnownStays DEF TypeOK
<1>2. ASSUME NEW w \in Windows, Changes(w) PROVE KnownInv'
  <2>1. /\ stage' = [stage EXCEPT ![w] = stage[w] + 1] /\ stage[w] > 0
        /\ (Whole' <=> Whole) /\ (Whole => queue'[1] = queue[1])
        /\ UNCHANGED <<link, cache, opened, tracked, returned>>
    BY <1>2, ChangesGrows DEF Grown, engine, ghosts
  <2> QED  BY <2>1, KnownStays DEF TypeOK
<1>3. ASSUME NEW w \in Windows, Closes(w) PROVE KnownInv'
  <2>1. /\ stage' = [stage EXCEPT ![w] = -1] /\ stage[w] > 0
        /\ (Whole' <=> Whole) /\ (Whole => queue'[1] = queue[1])
        /\ UNCHANGED <<link, cache, opened, tracked, returned>>
    BY <1>3, ClosesGrows DEF Grown, engine
  <2> QED  BY <2>1, KnownStays DEF TypeOK
<1>4. ASSUME UNCHANGED <<stage, cache, opened, tracked, returned, link>>,
             Whole' <=> Whole, Whole => queue'[1] = queue[1]
      PROVE  KnownInv'
  BY <1>4, KnownStays
<1>5. ASSUME NEW w \in Windows \cup {NoWin}, UserFocuses(w) PROVE KnownInv'
  BY <1>4, <1>5, FocusOnGrows DEF UserFocuses, Grown, engine
<1>6. CASE Execute
  <2>1. CASE IsOpen(Head(loop))
    <3>1. Head(loop) \in Windows
      BY <1>6 DEF Execute, TypeOK
    <3> QED  BY <1>4, <1>6, <2>1, <3>1, FocusOnGrows DEF Execute, Grown, engine
  <2>2. CASE ~IsOpen(Head(loop))
    BY <1>4, <1>6, <2>2 DEF Execute, Whole, engine
  <2> QED  BY <2>1, <2>2
<1>7. CASE Handle
  BY <1>7, KnownHandle
<1>8. CASE Connect
  <2>1. /\ queue' = <<[type |-> "all", win |-> focus,
                       stages |-> [w \in Windows |-> IF IsOpen(w) THEN stage[w] ELSE 0]]>>
        /\ UNCHANGED <<stage, cache, opened, tracked, returned>>
    BY <1>8 DEF Connect, engine
  <2>2. /\ Whole'
        /\ queue'[1].stages = [w \in Windows |-> IF IsOpen(w) THEN stage[w] ELSE 0]
    BY <2>1 DEF Whole
  <2>3. \A w \in Windows :
           /\ stage[w] = 0 => queue'[1].stages[w] = 0
           /\ stage[w] > 0 => queue'[1].stages[w] > 0
    BY <2>2 DEF IsOpen
  <2> QED  BY <2>1, <2>2, <2>3 DEF KnownInv, Hears
<1>9. CASE Restart
  BY <1>9 DEF Restart, KnownInv, Whole, Nothing
<1>10. CASE ExecuteFails \/ Break \/ StreamEnded \/ Reload \/ UNCHANGED vars
  <2>1. /\ UNCHANGED <<stage, queue, cache, opened, tracked, returned>>
        /\ link' = "on" => link = "on"
    BY <1>10 DEF ExecuteFails, Break, StreamEnded, Reload, vars, engine, ghosts
  <2>2. (Whole' <=> Whole) /\ (Whole => queue'[1] = queue[1])
    BY <2>1 DEF Whole
  <2> QED  BY <2>1, <2>2, KnownStays
<1>11. ASSUME NEW w \in Windows, GetsLate(w) PROVE KnownInv'
  <2>1. /\ UNCHANGED <<stage, queue, cache, tracked, returned, link>>
        /\ opened' = [opened EXCEPT ![w] = "late"] /\ opened[w] = "recent"
    BY <1>11 DEF GetsLate
  <2>2. (Whole' <=> Whole) /\ (Whole => queue'[1] = queue[1])
    BY <2>1 DEF Whole
  <2> QED  BY <2>1, <2>2, KnownStays DEF TypeOK
<1> QED  BY <1>1, <1>2, <1>3, <1>5, <1>6, <1>7, <1>8, <1>9, <1>10, <1>11 DEF Next

-------------------------------------------------------------------------------
(* The focus is given back once *)

LEMMA OnceStays ==
    ASSUME TypeOK, KnownInv, OnceInv, NEW new, Grown(new),
           \A e \in new : e.type = "changed" =>
              e.win \in Windows /\ (returned[e.win] = 0 \/ stage[e.win] > 0),
           UNCHANGED <<cache, opened, returned, link>>,
           \A w \in Windows : stage'[w] > 0 => stage[w] > 0 \/ stage[w] = 0
    PROVE  OnceInv'
<1> SUFFICES ASSUME NEW w \in Windows, returned[w] > 0
             PROVE  /\ \A i \in DOMAIN queue' :
                          queue'[i].type = "changed" /\ queue'[i].win = w => Hears(w)
                    /\ link = "on" /\ stage'[w] > 0 => Hears(w)
  <2>1. \A w \in Windows : Hears(w)' <=> Hears(w)
    BY DEF Hears, Grown
  <2>2. \A w \in Windows : returned[w] \in Nat
    BY DEF TypeOK
  <2> QED  BY <2>1, <2>2 DEF OnceInv, Says
<1>1. /\ \A i \in DOMAIN queue : queue[i].type = "changed" /\ queue[i].win = w => Hears(w)
      /\ link = "on" /\ stage[w] > 0 => Hears(w)
      /\ returned[w] # 0 /\ stage[w] # 0
  BY DEF OnceInv, Says, KnownInv, TypeOK
<1>2. ASSUME NEW i \in DOMAIN queue', queue'[i].type = "changed", queue'[i].win = w
      PROVE  Hears(w)
  <2>1. i \in 1 .. Len(queue') /\ Len(queue) \in Nat /\ Len(queue') \in Nat
    BY <1>2 DEF Grown
  <2>2. CASE i <= Len(queue)
    <3>1. i \in 1 .. Len(queue)
      BY <2>1, <2>2
    <3>2. i \in DOMAIN queue /\ queue'[i] = queue[i]
      BY <3>1 DEF Grown
    <3> QED  BY <1>1, <1>2, <3>2
  <2>3. CASE i > Len(queue)
    <3>1. link = "on" /\ queue'[i] \in new
      BY <2>1, <2>3 DEF Grown
    <3> QED  BY <1>1, <1>2, <3>1
  <2> QED  BY <2>1, <2>2, <2>3
<1> QED  BY <1>1, <1>2

LEMMA OnceHandle ==
    ASSUME TypeOK, QueueInv, KnownInv, OnceInv, Handle
    PROVE  OnceInv'
<1>1. PICK type : Receive(type)
  BY DEF Handle, HandleChanged, HandleFocus, HandleClosed, HandleAll
<1>2. ~Whole' /\ stage' = stage /\ link' = link /\ link # "off"
  BY <1>1, QueueTake, Taken
<1>3. /\ Len(queue) \in Nat \ {0} /\ Len(queue') = Len(queue) - 1
      /\ DOMAIN queue = 1 .. Len(queue) /\ DOMAIN queue' = 1 .. Len(queue')
      /\ \A i \in 1 .. Len(queue') : queue'[i] = queue[i + 1]
      /\ queue[1].type = type /\ 1 \in DOMAIN queue /\ queue # <<>>
  BY <1>1, Taken DEF Receive
<1>4. \A i \in DOMAIN queue' : i + 1 \in DOMAIN queue /\ queue'[i] = queue[i + 1] /\ i > 0
  BY <1>3
<1> SUFFICES ASSUME NEW w \in Windows
             PROVE  /\ returned'[w] <= 1
                    /\ opened'[w] # "no" => returned'[w] = 0
                    /\ returned'[w] > 0 =>
                          /\ \A i \in DOMAIN queue :
                                i > 1 /\ Says(i, "changed", w) => cache'[w] > 0
                          /\ link = "on" /\ stage[w] > 0 => cache'[w] > 0
  <2>1. \A i \in DOMAIN queue' : i + 1 > 1
    BY <1>3
  <2> QED  BY <1>2, <1>4, <2>1 DEF OnceInv, Hears, Says
<1> DEFINE id == queue[1].win
<1>5. /\ returned[w] <= 1 /\ (opened[w] # "no" => returned[w] = 0)
      /\ returned[w] > 0 =>
            /\ \A i \in DOMAIN queue : Says(i, "changed", w) => Hears(w)
            /\ link = "on" /\ stage[w] > 0 => Hears(w)
      /\ cache[w] = 0 => opened[w] = "no"
      /\ returned[w] \in Nat /\ cache[w] \in Nat
  <2>1. returned[w] \in Nat /\ cache[w] \in Nat
    <3>1. returned[w] \in Nat /\ cache[w] \in Numbers
      BY DEF TypeOK
    <3> QED  BY <3>1 DEF Numbers, Most
  <2>2. cache[w] = 0 => opened[w] = "no"
    BY DEF KnownInv
  <2> QED  BY <2>1, <2>2 DEF OnceInv
<1>6. type # "all" => (Hears(w) <=> cache[w] > 0)
  BY <1>3 DEF Hears, Whole
<1>7. CASE HandleChanged
  <2>1. /\ id \in Windows /\ queue[1].stage > 0
        /\ cache' = [cache EXCEPT ![id] = queue[1].stage]
        /\ w # id => /\ opened'[w] = IF opened[w] = "late" THEN "no" ELSE opened[w]
                     /\ returned'[w] = returned[w]
    BY <1>7, ChangedDoes
  <2>2. queue[1].type = "changed"
    BY <1>7, Taken DEF HandleChanged
  <2>3. CASE w = id
    <3>1. cache'[w] > 0
      BY <2>1, <2>3 DEF TypeOK
    <3>2. returned[w] > 0 => cache[w] > 0
      BY <1>3, <1>5, <1>6, <2>2, <2>3 DEF Says
    <3>3. \/ opened'[w] = OpenedThen(w) /\ returned'[w] = returned[w]
          \/ opened'[w] = "no" /\ returned'[w] = returned[w]
          \/ /\ opened'[w] = "no" /\ OpenedThen(w) = "recent"
             /\ returned'[w] = returned[w] + 1
      BY <1>7, <2>3, ChangedDoes
    <3>4. returned[w] > 0 => OpenedThen(w) = "no"
      BY <1>5, <3>2 DEF OpenedThen
    <3> QED  BY <1>5, <3>1, <3>3, <3>4
  <2>4. CASE w # id
    <3>1. cache'[w] = cache[w]
      BY <2>1, <2>4 DEF TypeOK
    <3> QED  BY <1>3, <1>5, <1>6, <2>1, <2>2, <2>4, <3>1
  <2> QED  BY <2>3, <2>4
<1>8. CASE HandleFocus
  <2>1. queue[1].type = "focus"
    BY <1>8, Taken DEF HandleFocus
  <2>2. cache' = cache
    BY <1>8, FocusDoes
  <2>3. CASE w = id /\ tracked[w] # "none"
    <3>1. /\ opened'[w] = "no"
          /\ \/ returned'[w] = returned[w]
             \/ opened[w] = "recent" /\ returned'[w] = returned[w] + 1
      BY <1>8, <2>3, FocusDoes
    <3> QED  BY <1>3, <1>5, <1>6, <2>1, <2>2, <3>1
  <2>4. CASE ~(w = id /\ tracked[w] # "none")
    <3>1. opened'[w] = IF opened[w] = "late" THEN "no" ELSE opened[w]
      BY <1>8, <2>4, FocusDoes
    <3>2. returned'[w] = returned[w]
      BY <1>8, <2>4, FocusDoes
    <3> QED  BY <1>3, <1>5, <1>6, <2>1, <2>2, <3>1, <3>2
  <2> QED  BY <2>3, <2>4
<1>9. CASE HandleClosed
  <2>1. queue[1].type = "closed"
    BY <1>9, Taken DEF HandleClosed
  <2>2. /\ id \in Windows /\ stage[id] = -1 /\ cache' = [cache EXCEPT ![id] = 0]
        /\ opened'[id] = "no" /\ returned' = returned
        /\ w # id => opened'[w] = IF opened[w] = "late" THEN "no" ELSE opened[w]
    BY <1>9, ClosedDoes
  <2>3. CASE w = id
    <3>1. ASSUME NEW i \in DOMAIN queue, i > 1, Says(i, "changed", w) PROVE FALSE
      <4>1. 1 \in 1 .. i - 1
        BY <1>3, <3>1
      <4> QED  BY <2>1, <2>3, <3>1, <4>1 DEF QueueInv, Says
    <3> QED  BY <1>5, <2>2, <2>3, <3>1
  <2>4. CASE w # id
    <3>1. cache'[w] = cache[w]
      BY <2>2, <2>4 DEF TypeOK
    <3> QED  BY <1>3, <1>5, <1>6, <2>1, <2>2, <2>4, <3>1
  <2> QED  BY <2>3, <2>4
<1>10. CASE HandleAll
  <2>1. queue[1].type = "all"
    BY <1>10, Taken DEF HandleAll
  <2>2. /\ cache' = queue[1].stages /\ returned' = returned
        /\ opened'[w] \in {"no", opened[w]}
    BY <1>10, AllDoes
  <2>3. Hears(w) <=> cache'[w] > 0
    BY <1>3, <2>1, <2>2 DEF Hears, Whole
  <2> QED  BY <1>5, <2>2, <2>3
<1> QED  BY <1>7, <1>8, <1>9, <1>10 DEF Handle

LEMMA OnceNext ==
    ASSUME TypeOK, QueueInv, KnownInv, OnceInv, [Next]_vars
    PROVE  OnceInv'
<1>1. ASSUME NEW w \in Windows, Opens(w) PROVE OnceInv'
  <2>1. /\ stage' = [stage EXCEPT ![w] = 1] /\ stage[w] = 0
        /\ UNCHANGED <<cache, opened, returned, link>>
        /\ \/ Grown({Changed(w, 1, TRUE), Focused(w)})
           \/ Grown({Changed(w, 1, FALSE)})
    BY <1>1, OpensGrows DEF engine
  <2>2. returned[w] = 0
    BY <2>1 DEF KnownInv
  <2>3. \A e \in {Changed(w, 1, TRUE), Changed(w, 1, FALSE), Focused(w)} : e.win = w
    BY DEF Changed, Focused
  <2>4. CASE Grown({Changed(w, 1, TRUE), Focused(w)})
    BY <2>1, <2>2, <2>3, <2>4, OnceStays DEF TypeOK
  <2>5. CASE Grown({Changed(w, 1, FALSE)})
    BY <2>1, <2>2, <2>3, <2>5, OnceStays DEF TypeOK
  <2> QED  BY <2>1, <2>4, <2>5
<1>2. ASSUME NEW w \in Windows, Changes(w) PROVE OnceInv'
  <2>1. /\ stage' = [stage EXCEPT ![w] = stage[w] + 1] /\ stage[w] > 0
        /\ UNCHANGED <<cache, opened, returned, link>>
        /\ Grown({Changed(w, stage[w] + 1, focus = w)})
    BY <1>2, ChangesGrows DEF engine, ghosts
  <2>2. \A e \in {Changed(w, stage[w] + 1, focus = w)} : e.win = w
    BY DEF Changed
  <2> QED  BY <2>1, <2>2, OnceStays DEF TypeOK
<1>3. ASSUME NEW w \in Windows, Closes(w) PROVE OnceInv'
  <2>1. /\ stage' = [stage EXCEPT ![w] = -1] /\ stage[w] > 0
        /\ UNCHANGED <<cache, opened, returned, link>>
        /\ \E v : Grown({Closed(w), Focused(v)}) \/ Grown({Closed(w)})
    BY <1>3, ClosesGrows DEF engine
  <2>2. \A v : \A e \in {Closed(w), Focused(v)} : e.type # "changed"
    BY DEF Closed, Focused
  <2> QED  BY <2>1, <2>2, OnceStays DEF TypeOK
<1>4. ASSUME NEW w \in Windows \cup {NoWin}, FocusOn(w),
             UNCHANGED <<stage, cache, opened, returned, link>>
      PROVE  OnceInv'
  <2>1. Grown({Focused(w)})
    BY <1>4, FocusOnGrows
  <2>2. \A e \in {Focused(w)} : e.type # "changed"
    BY DEF Focused
  <2> QED  BY <1>4, <2>1, <2>2, OnceStays
<1>5. ASSUME NEW w \in Windows \cup {NoWin}, UserFocuses(w) PROVE OnceInv'
  BY <1>4, <1>5 DEF UserFocuses, engine
<1>6. ASSUME UNCHANGED <<stage, queue, cache, returned>>, link' = "on" => link = "on",
             \A w \in Windows : opened'[w] # "no" => opened[w] # "no"
      PROVE  OnceInv'
  BY <1>6 DEF OnceInv, Says, Hears, Whole
<1>7. CASE Execute
  <2>1. CASE IsOpen(Head(loop))
    <3>1. Head(loop) \in Windows
      BY <1>7 DEF Execute, TypeOK
    <3> QED  BY <1>4, <1>7, <2>1, <3>1 DEF Execute, engine
  <2>2. CASE ~IsOpen(Head(loop))
    BY <1>6, <1>7, <2>2 DEF Execute, engine
  <2> QED  BY <2>1, <2>2
<1>8. CASE Handle
  BY <1>8, OnceHandle
<1>9. CASE Connect
  <2>1. /\ queue' = <<[type |-> "all", win |-> focus,
                       stages |-> [w \in Windows |-> IF IsOpen(w) THEN stage[w] ELSE 0]]>>
        /\ UNCHANGED <<stage, opened, returned>>
    BY <1>9 DEF Connect, engine
  <2>2. /\ Whole' /\ DOMAIN queue' = {1} /\ queue'[1].type = "all"
        /\ queue'[1].stages = [w \in Windows |-> IF IsOpen(w) THEN stage[w] ELSE 0]
    BY <2>1 DEF Whole
  <2>3. \A w \in Windows : stage[w] > 0 => Hears(w)'
    BY <2>1, <2>2 DEF IsOpen, Hears
  <2> QED  BY <2>1, <2>2, <2>3 DEF OnceInv, Says
<1>10. CASE Restart
  BY <1>10 DEF Restart, OnceInv, Says, Nothing
<1>11. CASE ExecuteFails \/ Break \/ StreamEnded \/ Reload \/ UNCHANGED vars
  BY <1>6, <1>11 DEF ExecuteFails, Break, StreamEnded, Reload, vars, engine, ghosts
<1>12. ASSUME NEW w \in Windows, GetsLate(w) PROVE OnceInv'
  <2>1. /\ UNCHANGED <<stage, queue, cache, returned, link>>
        /\ opened' = [opened EXCEPT ![w] = "late"] /\ opened[w] = "recent"
    BY <1>12 DEF GetsLate
  <2> QED  BY <1>6, <2>1 DEF TypeOK
<1> QED  BY <1>1, <1>2, <1>3, <1>5, <1>7, <1>8, <1>9, <1>10, <1>11, <1>12 DEF Next

ArrivalInv == TypeOK /\ QueueInv /\ KnownInv /\ OnceInv

LEMMA ArrivalInit == Init => ArrivalInv
<1> SUFFICES ASSUME Init PROVE QueueInv /\ KnownInv /\ OnceInv
  BY TypeInit DEF ArrivalInv
<1> QED  BY DEF Init, QueueInv, KnownInv, OnceInv, Says, Hears, Whole, Nothing

LEMMA ArrivalInvariant == Spec => []ArrivalInv
<1>1. ArrivalInv /\ [Next]_vars => ArrivalInv'
  BY TypeNext, QueueNext, KnownNext, OnceNext DEF ArrivalInv
<1> QED  BY <1>1, ArrivalInit, PTL DEF Spec

\* A window is made to give the focus back once, however often it is described, closed,
\* connected to anew or focused.
THEOREM ReturnsOnce == Spec => []GivenBackOnce
<1>1. ArrivalInv => GivenBackOnce
  BY DEF ArrivalInv, OnceInv, GivenBackOnce
<1> QED  BY <1>1, ArrivalInvariant, PTL

-------------------------------------------------------------------------------
(* Who has the focus, as the events tell it *)

\* The same in the next state.
HeardThen(n, x) ==
    \E j \in 0 .. n :
       /\ IF j = 0 THEN focused' = x ELSE SaysFocus(queue'[j]) /\ queue'[j].win = x
       /\ \A i \in j + 1 .. n : ~SaysFocus(queue'[i])

\* What is added to the queue leaves what the first n events say, and what all say when
\* nothing that is added speaks of the focus.
LEMMA HeardGrown ==
    ASSUME NEW new, Grown(new), focused' = focused, NEW n \in 0 .. Len(queue),
           NEW m \in n .. Len(queue'), NEW x, Heard(n, x),
           m = n \/ (n = Len(queue) /\ \A e \in new : ~SaysFocus(e))
    PROVE  HeardThen(m, x)
<1>1. /\ Len(queue) \in Nat /\ Len(queue') \in Nat
      /\ \A i \in 1 .. Len(queue) : queue'[i] = queue[i]
      /\ \A i \in 1 .. Len(queue') : i > Len(queue) => queue'[i] \in new
  BY DEF Grown
<1>2. PICK j \in 0 .. n :
          /\ IF j = 0 THEN focused = x ELSE SaysFocus(queue[j]) /\ queue[j].win = x
          /\ \A i \in j + 1 .. n : ~SaysFocus(queue[i])
  BY DEF Heard
<1>3. j # 0 => queue'[j] = queue[j]
  BY <1>1, <1>2
<1>4. ASSUME NEW i \in j + 1 .. m PROVE ~SaysFocus(queue'[i])
  <2>1. CASE i <= n
    BY <1>1, <1>2, <1>4, <2>1
  <2>2. CASE i > n
    <3>1. i \in 1 .. Len(queue') /\ i > Len(queue) /\ \A e \in new : ~SaysFocus(e)
      BY <1>1, <1>4, <2>2
    <3> QED  BY <1>1, <3>1
  <2> QED  BY <1>1, <1>2, <1>4, <2>1, <2>2
<1>5. j \in 0 .. m
  BY <1>1, <1>2
<1> QED  BY <1>2, <1>3, <1>4, <1>5 DEF HeardThen

\* The last event counts.
LEMMA HeardLast ==
    ASSUME NEW n \in Nat \ {0}, SaysFocus(queue'[n])
    PROVE  HeardThen(n, queue'[n].win)
<1>1. n \in 0 .. n /\ n # 0 /\ \A i \in n + 1 .. n : FALSE
  OBVIOUS
<1> QED  BY <1>1 DEF HeardThen

\* An event that is handled has had the effect it says.
LEMMA HeardTaken ==
    ASSUME TypeOK, NEW type, Receive(type), NEW n \in 1 .. Len(queue), NEW x, Heard(n, x),
           SaysFocus(queue[1]) => focused' = queue[1].win,
           ~SaysFocus(queue[1]) /\ focused = x => focused' = x
    PROVE  HeardThen(n - 1, x)
<1>1. /\ Len(queue) \in Nat \ {0} /\ Len(queue') = Len(queue) - 1
      /\ \A i \in 1 .. Len(queue') : queue'[i] = queue[i + 1]
  BY Taken
<1>2. PICK j \in 0 .. n :
          /\ IF j = 0 THEN focused = x ELSE SaysFocus(queue[j]) /\ queue[j].win = x
          /\ \A i \in j + 1 .. n : ~SaysFocus(queue[i])
  BY DEF Heard
<1>3. \A i \in j .. n - 1 : i > 0 => ~SaysFocus(queue'[i])
  <2> SUFFICES ASSUME NEW i \in j .. n - 1, i > 0 PROVE ~SaysFocus(queue'[i])
    OBVIOUS
  <2>1. i \in 1 .. Len(queue') /\ i + 1 \in j + 1 .. n
    BY <1>1
  <2> QED  BY <1>1, <1>2, <2>1
<1>4. CASE j <= 1
  <2>1. focused' = x
    <3>1. CASE j = 0
      <4>1. 1 \in j + 1 .. n
        BY <3>1
      <4> QED  BY <1>2, <3>1, <4>1
    <3>2. CASE j = 1
      BY <1>2, <3>2
    <3> QED  BY <1>2, <1>4, <3>1, <3>2
  <2>2. \A i \in 0 + 1 .. n - 1 : i \in j .. n - 1 /\ i > 0
    BY <1>2, <1>4
  <2>3. 0 \in 0 .. n - 1
    OBVIOUS
  <2> QED  BY <1>3, <2>1, <2>2, <2>3 DEF HeardThen
<1>5. CASE j > 1
  <2>1. j - 1 \in 0 .. n - 1 /\ j - 1 # 0 /\ j - 1 \in 1 .. Len(queue') /\ (j - 1) + 1 = j
    BY <1>1, <1>2, <1>5
  <2>2. queue'[j - 1] = queue[j] /\ j # 0
    BY <1>1, <1>5, <2>1
  <2>3. \A i \in (j - 1) + 1 .. n - 1 : i \in j .. n - 1 /\ i > 0
    BY <1>2, <1>5
  <2> QED  BY <1>2, <1>3, <2>1, <2>2, <2>3 DEF HeardThen
<1> QED  BY <1>2, <1>4, <1>5

LEMMA FocusHeardHandle ==
    ASSUME TypeOK, QueueInv, FocusHeard, Handle
    PROVE  FocusHeard'
<1>1. PICK type : Receive(type)
  BY DEF Handle, HandleChanged, HandleFocus, HandleClosed, HandleAll
<1>2. /\ stage' = stage /\ focus' = focus /\ link' = link
      /\ Len(queue) \in Nat \ {0} /\ Len(queue') = Len(queue) - 1
  BY <1>1, Taken
<1> SUFFICES ASSUME link = "on" PROVE HeardThen(Len(queue'), focus)
  BY <1>2 DEF FocusHeard, Heard, HeardThen
<1>3. /\ SaysFocus(queue[1]) => focused' = queue[1].win
      /\ ~SaysFocus(queue[1]) /\ focused = focus => focused' = focus
  <2>1. CASE HandleChanged
    <3>1. queue[1].type = "changed" /\ focused' = IF queue[1].focused THEN queue[1].win ELSE focused
      BY <2>1, ChangedDoes, Taken DEF HandleChanged
    <3> QED  BY <3>1 DEF SaysFocus
  <2>2. CASE HandleFocus
    <3>1. queue[1].type = "focus" /\ focused' = queue[1].win
      BY <2>2, FocusDoes, Taken DEF HandleFocus
    <3> QED  BY <3>1 DEF SaysFocus
  <2>3. CASE HandleClosed
    <3>1. queue[1].type = "closed"
      BY <2>3, Taken DEF HandleClosed
    <3>2. /\ stage[queue[1].win] = -1 /\ queue[1].win \in Windows
          /\ focused' = IF focused = queue[1].win THEN NoWin ELSE focused
      BY <2>3, ClosedDoes
    <3>3. focus # queue[1].win
      BY <3>2, ArrivalAssumption DEF FocusHeard, ArrivalAssumption
    <3> QED  BY <3>1, <3>2, <3>3 DEF SaysFocus
  <2>4. CASE HandleAll
    <3>1. queue[1].type = "all" /\ focused' = queue[1].win
      BY <2>4, AllDoes, Taken DEF HandleAll
    <3> QED  BY <3>1 DEF SaysFocus
  <2> QED  BY <2>1, <2>2, <2>3, <2>4 DEF Handle
<1>4. Len(queue) \in 1 .. Len(queue) /\ Heard(Len(queue), focus)
  BY <1>2 DEF FocusHeard
<1> QED  BY <1>1, <1>2, <1>3, <1>4, HeardTaken

LEMMA FocusHeardNext ==
    ASSUME TypeOK, QueueInv, FocusHeard, [Next]_vars
    PROVE  FocusHeard'
<1>1. ASSUME NEW new, Grown(new), UNCHANGED <<focused, focus>>, link' = link,
             focus # NoWin => stage'[focus] > 0,
             \A e \in new : ~SaysFocus(e)
      PROVE  FocusHeard'
  <2>1. Len(queue) \in 0 .. Len(queue) /\ Len(queue') \in Len(queue) .. Len(queue')
    BY <1>1 DEF Grown
  <2>2. link = "on" => HeardThen(Len(queue'), focus)
    BY <1>1, <2>1, HeardGrown DEF FocusHeard
  <2> QED  BY <1>1, <2>2 DEF FocusHeard, Heard, HeardThen
<1>2. ASSUME focus' # NoWin => stage'[focus'] > 0, Len(queue') \in Nat,
             link' = "on" => /\ Len(queue') > 0 /\ SaysFocus(queue'[Len(queue')])
                             /\ queue'[Len(queue')].win = focus'
      PROVE  FocusHeard'
  <2>1. link' = "on" => HeardThen(Len(queue'), focus')
    BY <1>2, HeardLast
  <2> QED  BY <1>2, <2>1 DEF FocusHeard, Heard, HeardThen
<1>3. ASSUME UNCHANGED <<stage, focus, queue, focused>>, link' = "on" => link = "on"
      PROVE  FocusHeard'
  BY <1>3 DEF FocusHeard, Heard
<1>4. \A w, n, b : SaysFocus(Changed(w, n, b)) <=> b = TRUE
  BY DEF SaysFocus, Changed
<1>5. \A w : SaysFocus(Focused(w)) /\ Focused(w).win = w /\ ~SaysFocus(Closed(w))
  BY DEF SaysFocus, Focused, Closed
<1>6. \A w, n, b : Changed(w, n, b).win = w
  BY DEF Changed
<1>7. ASSUME NEW w \in Windows, Opens(w) PROVE FocusHeard'
  <2>1. /\ stage' = [stage EXCEPT ![w] = 1] /\ UNCHANGED <<link, focused>>
    BY <1>7, OpensGrows DEF engine
  <2>2. CASE /\ focus' = w /\ Grown({Changed(w, 1, TRUE), Focused(w)})
             /\ link = "on" => Len(queue') > Len(queue)
    <3>1. Len(queue) \in Nat /\ Len(queue') \in Nat
      BY <2>2 DEF Grown
    <3>2. ASSUME link = "on"
          PROVE  /\ Len(queue') > 0 /\ SaysFocus(queue'[Len(queue')])
                 /\ queue'[Len(queue')].win = focus'
      <4>1. Len(queue') \in 1 .. Len(queue') /\ Len(queue') > Len(queue)
        BY <2>2, <3>1, <3>2
      <4>2. queue'[Len(queue')] \in {Changed(w, 1, TRUE), Focused(w)}
        BY <2>2, <4>1 DEF Grown
      <4>3. \A e \in {Changed(w, 1, TRUE), Focused(w)} : SaysFocus(e) /\ e.win = w
        BY DEF SaysFocus, Changed, Focused
      <4>4. SaysFocus(queue'[Len(queue')]) /\ queue'[Len(queue')].win = w
        BY <4>2, <4>3
      <4> QED  BY <2>2, <3>1, <3>2, <4>1, <4>4
    <3>3. stage'[w] > 0
      BY <2>1 DEF TypeOK
    <3> QED  BY <1>2, <2>1, <2>2, <3>1, <3>2, <3>3
  <2>3. CASE Grown({Changed(w, 1, FALSE)}) /\ focus' = focus
    <3>1. focus # NoWin => focus \in Windows /\ stage'[focus] > 0
      BY <2>1 DEF TypeOK, FocusHeard
    <3>2. \A e \in {Changed(w, 1, FALSE)} : ~SaysFocus(e)
      BY <1>4
    <3> QED  BY <1>1, <2>1, <2>3, <3>1, <3>2
  <2> QED  BY <1>7, <2>2, <2>3, OpensGrows
<1>8. ASSUME NEW w \in Windows, Changes(w) PROVE FocusHeard'
  <2> DEFINE e == Changed(w, stage[w] + 1, focus = w)
  <2>1. /\ stage' = [stage EXCEPT ![w] = stage[w] + 1] /\ stage[w] > 0
        /\ UNCHANGED <<link, focused, focus>> /\ Grown({e})
    BY <1>8, ChangesGrows DEF engine, ghosts
  <2>2. focus # NoWin => focus \in Windows /\ stage'[focus] > 0
    BY <2>1 DEF TypeOK, FocusHeard
  <2>3. e.win = w /\ (SaysFocus(e) <=> focus = w)
    BY DEF SaysFocus, Changed
  <2> HIDE DEF e
  <2>4. CASE focus # w \/ Len(queue') = Len(queue) \/ link # "on"
    <3>1. CASE focus # w
      BY <1>1, <2>1, <2>2, <2>3, <3>1
    <3>2. CASE link # "on"
      BY <2>1, <2>2, <3>2 DEF FocusHeard
    <3>3. CASE Len(queue') = Len(queue)
      <4>1. Len(queue) \in 0 .. Len(queue) /\ Len(queue') \in Len(queue) .. Len(queue')
        BY <2>1 DEF Grown
      <4>2. link = "on" => HeardThen(Len(queue'), focus)
        BY <2>1, <3>3, <4>1, HeardGrown DEF FocusHeard
      <4> QED  BY <2>1, <2>2, <4>2 DEF FocusHeard, Heard, HeardThen
    <3> QED  BY <2>4, <3>1, <3>2, <3>3
  <2>5. CASE focus = w /\ Len(queue') # Len(queue)
    <3>1. /\ Len(queue') \in Nat /\ Len(queue') \in 1 .. Len(queue') /\ Len(queue') > Len(queue)
      <4>1. Len(queue) \in Nat /\ Len(queue') \in Nat /\ Len(queue) <= Len(queue')
        BY <2>1 DEF Grown
      <4> QED  BY <2>5, <4>1
    <3>2. queue'[Len(queue')] = e
      BY <2>1, <3>1 DEF Grown
    <3> QED  BY <1>2, <2>1, <2>2, <2>3, <2>5, <3>1, <3>2
  <2> QED  BY <2>4, <2>5
<1>9. ASSUME NEW w \in Windows, Closes(w) PROVE FocusHeard'
  <2>1. /\ stage' = [stage EXCEPT ![w] = -1] /\ UNCHANGED <<link, focused>>
    BY <1>9, ClosesGrows DEF engine
  <2>2. CASE /\ focus = w /\ focus' # w
             /\ focus' \in {v \in Windows : IsOpen(v)} \cup {NoWin}
             /\ Grown({Closed(w), Focused(focus')})
             /\ link = "on" => Len(queue') > 0 /\ queue'[Len(queue')] = Focused(focus')
    <3>1. focus' # NoWin => focus' \in Windows /\ stage'[focus'] > 0
      BY <2>1, <2>2 DEF TypeOK, IsOpen
    <3>2. Len(queue') \in Nat
      BY <2>2 DEF Grown
    <3> QED  BY <1>2, <1>5, <2>1, <2>2, <3>1, <3>2
  <2>3. CASE focus # w /\ focus' = focus /\ Grown({Closed(w)})
    <3>1. focus # NoWin => focus \in Windows /\ stage'[focus] > 0
      BY <2>1, <2>3 DEF TypeOK, FocusHeard
    <3>2. \A e \in {Closed(w)} : ~SaysFocus(e)
      BY <1>5
    <3> QED  BY <1>1, <2>1, <2>3, <3>1, <3>2
  <2> QED  BY <1>9, <2>2, <2>3, ClosesGrows
<1>10. ASSUME NEW w \in Windows \cup {NoWin}, FocusOn(w), w # NoWin => stage[w] > 0,
              UNCHANGED <<stage, focused, link>>
       PROVE  FocusHeard'
  <2>1. CASE w = focus
    BY <1>3, <1>10, <2>1, FocusOnGrows
  <2>2. CASE w # focus
    <3>1. focus' = w /\ Len(queue') \in Nat
      BY <1>10, FocusOnGrows DEF Grown
    <3>2. link = "on" => Len(queue') > 0 /\ queue'[Len(queue')] = Focused(w)
      BY <1>10, <2>2, FocusOnGrows
    <3> QED  BY <1>2, <1>5, <1>10, <3>1, <3>2
  <2> QED  BY <2>1, <2>2
<1>11. ASSUME NEW w \in Windows \cup {NoWin}, UserFocuses(w) PROVE FocusHeard'
  BY <1>10, <1>11 DEF UserFocuses, engine, IsOpen
<1>12. CASE Execute
  <2>1. CASE IsOpen(Head(loop))
    <3>1. Head(loop) \in Windows
      BY <1>12 DEF Execute, TypeOK
    <3> QED  BY <1>10, <1>12, <2>1, <3>1 DEF Execute, engine, IsOpen
  <2>2. CASE ~IsOpen(Head(loop))
    BY <1>3, <1>12, <2>2 DEF Execute, engine
  <2> QED  BY <2>1, <2>2
<1>13. CASE Handle
  BY <1>13, FocusHeardHandle
<1>14. CASE Connect
  <2>1. /\ queue' = <<[type |-> "all", win |-> focus,
                       stages |-> [w \in Windows |-> IF IsOpen(w) THEN stage[w] ELSE 0]]>>
        /\ UNCHANGED <<stage, focus>>
    BY <1>14 DEF Connect
  <2>2. /\ Len(queue') = 1 /\ queue'[1].type = "all" /\ queue'[1].win = focus
    BY <2>1
  <2> QED  BY <1>2, <2>1, <2>2 DEF FocusHeard, SaysFocus
<1>15. CASE Restart
  BY <1>15 DEF Restart, FocusHeard
<1>16. CASE ExecuteFails \/ Break \/ StreamEnded \/ Reload \/ (\E w \in Windows : GetsLate(w))
            \/ UNCHANGED vars
  BY <1>3, <1>16 DEF ExecuteFails, Break, StreamEnded, Reload, GetsLate, vars, engine, ghosts
<1> QED  BY <1>7, <1>8, <1>9, <1>11, <1>12, <1>13, <1>14, <1>15, <1>16 DEF Next

-------------------------------------------------------------------------------
(* The focus comes back *)

\* What is added to the queue leaves what a PiP owes, if it says nothing of the focus but
\* that one of the two has it, and the engine and the focus are left alone or are as the
\* restore makes them.
LEMMA OweGrown ==
    ASSUME TypeOK, NEW w \in Windows, NEW v, Owes(w, v), NEW new, Grown(new),
           \A e \in new : SaysFocus(e) => e.win \in {v, w},
           UNCHANGED <<cache, focused, opened, candidate, tracked>>,
           before' = before, stage'[v] > 0, stage'[w] > 0,
           \/ /\ UNCHANGED <<focus, loop>>
              /\ \A e \in new : e.type = "changed" /\ e.win = w /\ focus = w => e.focused
           \/ focus' = v /\ (cache[w] = 0 \/ loop' = <<>>)
    PROVE  Owes(w, v)'
<1>1. /\ Len(queue) \in Nat /\ Len(queue') \in Nat /\ Len(queue) <= Len(queue')
      /\ DOMAIN queue = 1 .. Len(queue) /\ DOMAIN queue' = 1 .. Len(queue')
      /\ \A i \in 1 .. Len(queue) : queue'[i] = queue[i]
      /\ \A i \in 1 .. Len(queue') : i > Len(queue) => queue'[i] \in new
      /\ (Whole' <=> Whole) /\ (Whole => queue'[1] = queue[1])
  BY DEF Grown
<1>2. \A i \in DOMAIN queue' : \/ i \in DOMAIN queue /\ queue'[i] = queue[i]
                               \/ queue'[i] \in new
  BY <1>1
<1>3. /\ \A u \in Windows \ {w} : before'[u] = NoWin
      /\ v \in Windows /\ v # w /\ stage'[v] > 0 /\ stage'[w] > 0 /\ focus' \in {v, w}
      /\ cache'[v] > 0 /\ opened'[v] = "no"
  BY DEF Owes
<1>4. ASSUME focus' = w, NEW i \in DOMAIN queue', queue'[i].type = "changed",
             queue'[i].win = w
      PROVE  queue'[i].focused
  <2>1. focus = w
    BY <1>3, <1>4
  <2>2. \A j \in DOMAIN queue : queue[j].type = "changed" /\ queue[j].win = w => queue[j].focused
    BY <2>1 DEF Owes, Says
  <2>3. \A e \in new : e.type = "changed" /\ e.win = w => e.focused
    BY <1>3, <1>4, <2>1
  <2> QED  BY <1>2, <1>4, <2>2, <2>3
<1>5. CASE cache[w] = 0
  <2>1. Pending(w, v)
    BY <1>5 DEF Owes
  <2>2. PICK k \in DOMAIN queue :
           /\ queue[k].type = "changed" /\ queue[k].win = w /\ queue[k].focused
           /\ Heard(k - 1, v)
           /\ \A i \in 1 .. k - 1 : ~(queue[i].type = "changed" /\ queue[i].win = w)
           /\ \A i \in k + 1 .. Len(queue) : SaysFocus(queue[i]) => queue[i].win \in {v, w}
           /\ Whole => queue[1].stages[w] = 0
    BY <2>1 DEF Pending, Says
  <2>3. HeardThen(k - 1, v)
    <3>1. k - 1 \in 0 .. Len(queue) /\ k - 1 \in k - 1 .. Len(queue')
      BY <1>1
    <3> QED  BY <2>2, <3>1, HeardGrown
  <2>4. k \in DOMAIN queue' /\ queue'[k] = queue[k]
    BY <1>1
  <2>5. \A i \in 1 .. k - 1 : queue'[i] = queue[i]
    BY <1>1
  <2>6. ASSUME NEW i \in k + 1 .. Len(queue'), SaysFocus(queue'[i])
        PROVE  queue'[i].win \in {v, w}
    <3>1. i \in DOMAIN queue' /\ (i \in DOMAIN queue => i \in k + 1 .. Len(queue))
      BY <1>1
    <3> QED  BY <1>2, <2>2, <2>6, <3>1
  <2>7. Whole' => queue'[1].stages[w] = 0
    BY <1>1, <2>2
  <2>8. HeardThen(k - 1, v) => Heard(k - 1, v)'
    BY DEF Heard, HeardThen
  <2>9. Pending(w, v)'
    BY <2>2, <2>3, <2>4, <2>5, <2>6, <2>7, <2>8 DEF Pending, Says
  <2> QED  BY <1>3, <1>4, <1>5, <2>9 DEF Owes, Says
<1>6. CASE cache[w] # 0
  <2>1. Noted(w, v)
    BY <1>6 DEF Owes
  <2>2. \A i \in DOMAIN queue' : SaysFocus(queue'[i]) => queue'[i].win \in {v, w}
    BY <1>2, <2>1 DEF Noted
  <2>3. Noted(w, v)'
    BY <1>1, <1>3, <1>6, <2>1, <2>2 DEF Noted
  <2> QED  BY <1>3, <1>4, <1>6, <2>3 DEF Owes, Says
<1> QED  BY <1>5, <1>6

\* Handling an event brings the restore nearer.
LEMMA OweHandle ==
    ASSUME TypeOK, QueueInv, KnownInv, FocusHeard, Handle, link = "on",
           NEW w \in Windows, NEW v, Owes(w, v)
    PROVE  Owes(w, v)'
<1>1. PICK type : Receive(type)
  BY DEF Handle, HandleChanged, HandleFocus, HandleClosed, HandleAll
<1>2. /\ Len(queue) \in Nat \ {0} /\ Len(queue') = Len(queue) - 1
      /\ DOMAIN queue = 1 .. Len(queue) /\ DOMAIN queue' = 1 .. Len(queue')
      /\ \A i \in 1 .. Len(queue') : queue'[i] = queue[i + 1]
      /\ UNCHANGED <<stage, focus, before>> /\ loop = <<>>
      /\ queue[1].type = type /\ queue[1] \in Event /\ queue # <<>>
  BY <1>1, Taken DEF Receive
<1>3. ~Whole'
  BY <1>1, QueueTake
<1>4. /\ \A u \in Windows \ {w} : before[u] = NoWin
      /\ v \in Windows /\ v # w /\ stage[v] > 0 /\ stage[w] > 0 /\ focus \in {v, w}
      /\ cache[v] > 0 /\ opened[v] = "no"
  BY DEF Owes
<1>5. \A i \in DOMAIN queue' : i + 1 \in DOMAIN queue /\ i + 1 > 1 /\ queue'[i] = queue[i + 1]
  BY <1>2
<1> DEFINE id == queue[1].win
<1>6. focus = w => \A i \in DOMAIN queue' :
                      queue'[i].type = "changed" /\ queue'[i].win = w => queue'[i].focused
  BY <1>5 DEF Owes, Says
<1>7. cache \in [Windows -> Numbers] /\ cache[w] \in Nat /\ cache[v] \in Nat
  <2>1. cache \in [Windows -> Numbers] /\ Numbers \subseteq Nat
    BY DEF TypeOK, Numbers, Most
  <2> QED  BY <1>4, <2>1
<1>8. NoWin \notin Windows
  BY ArrivalAssumption DEF ArrivalAssumption
\* The window that had the focus stays known, and no candidate.
<1>9. cache'[v] > 0 /\ opened'[v] = "no"
  <2>1. CASE HandleChanged
    <3>1. /\ id \in Windows /\ queue[1].stage > 0
          /\ cache' = [cache EXCEPT ![id] = queue[1].stage]
          /\ v # id => opened'[v] = IF opened[v] = "late" THEN "no" ELSE opened[v]
          /\ v = id => opened'[id] = "no" \/ opened'[id] = OpenedThen(id)
      BY <1>4, <2>1, ChangedDoes
    <3>2. OpenedThen(v) = "no"
      BY <1>4, <1>7 DEF OpenedThen
    <3> QED  BY <1>4, <1>7, <3>1, <3>2
  <2>2. CASE HandleFocus
    <3>1. cache' = cache
      BY <2>2, FocusDoes
    <3>2. opened'[v] = "no" \/ opened'[v] = IF opened[v] = "late" THEN "no" ELSE opened[v]
      BY <1>4, <2>2, FocusDoes
    <3> QED  BY <1>4, <3>1, <3>2
  <2>3. CASE HandleClosed
    <3>1. /\ id \in Windows /\ stage[id] = -1 /\ cache' = [cache EXCEPT ![id] = 0]
          /\ v # id => opened'[v] = IF opened[v] = "late" THEN "no" ELSE opened[v]
      BY <1>4, <2>3, ClosedDoes
    <3> QED  BY <1>4, <1>7, <3>1
  <2>4. CASE HandleAll
    <3>1. queue[1].type = "all"
      BY <2>4, Taken DEF HandleAll
    <3>2. Hears(v) /\ Whole
      BY <1>2, <1>4, <3>1 DEF KnownInv, Whole
    <3>3. cache' = queue[1].stages /\ opened'[v] \in {"no", opened[v]}
      BY <1>4, <2>4, AllDoes
    <3> QED  BY <1>4, <3>2, <3>3 DEF Hears
  <2> QED  BY <2>1, <2>2, <2>3, <2>4 DEF Handle
\* PiP w is not known yet: its description is the next event, or one event nearer.
<1>10. CASE cache[w] = 0
  <2>1. Pending(w, v)
    BY <1>10 DEF Owes
  <2>2. PICK k \in DOMAIN queue :
           /\ queue[k].type = "changed" /\ queue[k].win = w /\ queue[k].focused
           /\ Heard(k - 1, v)
           /\ \A i \in 1 .. k - 1 : ~(queue[i].type = "changed" /\ queue[i].win = w)
           /\ \A i \in k + 1 .. Len(queue) : SaysFocus(queue[i]) => queue[i].win \in {v, w}
           /\ Whole => queue[1].stages[w] = 0
    BY <2>1 DEF Pending, Says
  <2>3. tracked[w] = "none" /\ opened[w] = "no"
    BY <1>10 DEF KnownInv
  <2>4. CASE k = 1
    <3>1. HandleChanged /\ id = w /\ queue[1].focused
      <4>1. queue[1].type = "changed" /\ id = w /\ queue[1].focused
        BY <2>2, <2>4
      <4>2. ~HandleFocus /\ ~HandleClosed /\ ~HandleAll
        <5>1. ~Receive("focus") /\ ~Receive("closed") /\ ~Receive("all")
          BY <4>1, Taken
        <5> QED  BY <5>1 DEF HandleFocus, HandleClosed, HandleAll
      <4> QED  BY <4>1, <4>2 DEF Handle
    <3>2. focused = v
      <4>1. Heard(0, v)
        BY <2>2, <2>4
      <4> QED  BY <4>1 DEF Heard
    <3>3. OpenedThen(w) = "recent" /\ CandidateThen(w) = v
      BY <1>4, <1>10, <3>2 DEF OpenedThen, CandidateThen, FocusBefore
    <3>4. cache'[w] > 0 /\ v \in Known(cache')
      <4>1. queue[1].stage > 0 /\ cache' = [cache EXCEPT ![w] = queue[1].stage]
        BY <3>1, ChangedDoes
      <4> QED  BY <1>4, <1>7, <1>9, <4>1 DEF Known
    <3>5. IF tracked'[w] # "none"
          THEN opened'[w] = "no" /\ loop' = <<v>>
          ELSE opened'[w] = "recent" /\ candidate'[w] = v /\ loop' = <<>>
      BY <1>4, <2>3, <3>1, <3>3, <3>4, ChangedDoes
    <3>6. \A i \in DOMAIN queue' : SaysFocus(queue'[i]) => queue'[i].win \in {v, w}
      <4>1. \A i \in DOMAIN queue' : i + 1 \in k + 1 .. Len(queue)
        BY <1>2, <2>4
      <4> QED  BY <1>5, <2>2, <4>1
    <3>7. Noted(w, v)'
      BY <1>2, <1>3, <1>4, <3>5, <3>6 DEF Noted
    <3>8. cache'[w] # 0
      BY <3>4
    <3> QED  BY <1>2, <1>4, <1>6, <1>9, <3>7, <3>8 DEF Owes, Says
  <2>5. CASE k # 1
    <3>1. k - 1 \in DOMAIN queue' /\ queue'[k - 1] = queue[k] /\ 1 \in 1 .. k - 1
      BY <1>2, <2>5
    <3>2. cache'[w] = 0
      <4>1. CASE HandleChanged
        <5>1. queue[1].type = "changed" /\ cache' = [cache EXCEPT ![id] = queue[1].stage]
          BY <4>1, ChangedDoes, Taken DEF HandleChanged
        <5>2. id # w
          BY <2>2, <3>1, <5>1
        <5> QED  BY <1>7, <1>10, <5>1, <5>2
      <4>2. CASE HandleFocus
        BY <1>10, <4>2, FocusDoes
      <4>3. CASE HandleClosed
        <5>1. cache' = [cache EXCEPT ![id] = 0]
          BY <4>3, ClosedDoes
        <5> QED  BY <1>7, <1>10, <5>1
      <4>4. CASE HandleAll
        <5>1. Whole /\ cache' = queue[1].stages
          BY <1>2, <4>4, AllDoes, Taken DEF HandleAll, Whole
        <5> QED  BY <2>2, <5>1
      <4> QED  BY <4>1, <4>2, <4>3, <4>4 DEF Handle
    <3>3. /\ SaysFocus(queue[1]) => focused' = queue[1].win
          /\ ~SaysFocus(queue[1]) /\ focused = v => focused' = v
      <4>1. CASE HandleChanged
        <5>1. queue[1].type = "changed" /\ focused' = IF queue[1].focused THEN id ELSE focused
          BY <4>1, ChangedDoes, Taken DEF HandleChanged
        <5> QED  BY <5>1 DEF SaysFocus
      <4>2. CASE HandleFocus
        <5>1. queue[1].type = "focus" /\ focused' = id
          BY <4>2, FocusDoes, Taken DEF HandleFocus
        <5> QED  BY <5>1 DEF SaysFocus
      <4>3. CASE HandleClosed
        <5>1. queue[1].type = "closed"
          BY <4>3, Taken DEF HandleClosed
        <5>2. stage[id] = -1 /\ focused' = IF focused = id THEN NoWin ELSE focused
          BY <4>3, ClosedDoes
        <5>3. v # id
          BY <1>4, <5>2
        <5> QED  BY <5>1, <5>2, <5>3 DEF SaysFocus
      <4>4. CASE HandleAll
        <5>1. queue[1].type = "all" /\ focused' = id
          BY <4>4, AllDoes, Taken DEF HandleAll
        <5> QED  BY <5>1 DEF SaysFocus
      <4> QED  BY <4>1, <4>2, <4>3, <4>4 DEF Handle
    <3>4. HeardThen((k - 1) - 1, v)
      <4>1. k - 1 \in 1 .. Len(queue)
        BY <1>2, <3>1
      <4> QED  BY <1>1, <2>2, <3>3, <4>1, HeardTaken
    <3>5. \A i \in 1 .. (k - 1) - 1 : ~(queue'[i].type = "changed" /\ queue'[i].win = w)
      <4>1. \A i \in 1 .. (k - 1) - 1 : i \in DOMAIN queue' /\ i + 1 \in 1 .. k - 1
        BY <1>2, <3>1
      <4> QED  BY <1>5, <2>2, <4>1
    <3>6. \A i \in (k - 1) + 1 .. Len(queue') :
             SaysFocus(queue'[i]) => queue'[i].win \in {v, w}
      <4>1. \A i \in (k - 1) + 1 .. Len(queue') :
               i \in DOMAIN queue' /\ i + 1 \in k + 1 .. Len(queue)
        BY <1>2, <3>1
      <4> QED  BY <1>5, <2>2, <4>1
    <3>7. \A n : HeardThen(n, v) => Heard(n, v)'
      BY DEF Heard, HeardThen
    <3>8. Pending(w, v)'
      BY <1>3, <2>2, <3>1, <3>4, <3>5, <3>6, <3>7 DEF Pending, Says
    <3> QED  BY <1>2, <1>4, <1>6, <1>9, <3>2, <3>8 DEF Owes, Says
  <2> QED  BY <2>4, <2>5
\* It is known: the engine asks, or keeps the candidate.
<1>11. CASE cache[w] # 0
  <2>1. /\ ~Whole
        /\ \A i \in DOMAIN queue : SaysFocus(queue[i]) => queue[i].win \in {v, w}
        /\ opened[w] = "recent" => candidate[w] = v
        /\ focus = w => tracked[w] = "none" /\ opened[w] = "recent"
    BY <1>2, <1>11 DEF Owes, Noted
  <2>2. \A i \in DOMAIN queue' : SaysFocus(queue'[i]) => queue'[i].win \in {v, w}
    BY <1>5, <2>1
  <2>3. SaysFocus(queue[1]) => id \in {v, w}
    BY <1>2, <2>1
  <2> SUFFICES
        /\ cache'[w] # 0 /\ loop' \in {<<>>, <<v>>}
        /\ opened'[w] = "recent" => candidate'[w] = v
        /\ focus = w => IF tracked'[w] = "none" THEN opened'[w] = "recent" ELSE loop' = <<v>>
    <3>1. ASSUME /\ cache'[w] # 0 /\ loop' \in {<<>>, <<v>>}
                 /\ opened'[w] = "recent" => candidate'[w] = v
                 /\ focus = w => IF tracked'[w] = "none" THEN opened'[w] = "recent"
                                 ELSE loop' = <<v>>
          PROVE  Owes(w, v)'
      <4>1. Noted(w, v)'
        BY <1>2, <1>3, <2>2, <3>1 DEF Noted
      <4> QED  BY <1>2, <1>4, <1>6, <1>9, <3>1, <4>1 DEF Owes, Says
    <3> QED  BY <3>1
  <2>4. CASE HandleChanged
    <3>1. queue[1].type = "changed"
      BY <2>4, Taken DEF HandleChanged
    <3>2. CASE id = w
      <4>1. OpenedThen(w) = "recent" => opened[w] = "recent" /\ CandidateThen(w) = v
        BY <1>11, <2>1 DEF OpenedThen, CandidateThen
      <4>2. cache' = [cache EXCEPT ![w] = queue[1].stage] /\ queue[1].stage > 0
        BY <2>4, <3>2, ChangedDoes
      <4>3. cache'[w] # 0 /\ v \in Known(cache')
        BY <1>4, <1>7, <1>9, <4>2 DEF Known
      <4>4. focus = w => queue[1].focused /\ OpenedThen(w) = "recent"
        <5>1. focus = w => queue[1].focused
          BY <1>2, <3>1, <3>2 DEF Owes, Says
        <5> QED  BY <1>11, <2>1, <5>1 DEF OpenedThen
      <4>5. IF tracked[w] = "none" /\ tracked'[w] # "none" /\ queue[1].focused
            THEN /\ opened'[w] = "no"
                 /\ IF OpenedThen(w) = "recent" /\ CandidateThen(w) # w
                       /\ CandidateThen(w) \in Known(cache')
                    THEN loop' = <<CandidateThen(w)>> ELSE loop' = <<>>
            ELSE /\ opened'[w] = OpenedThen(w) /\ candidate'[w] = CandidateThen(w)
                 /\ loop' = <<>>
        BY <2>4, <3>2, ChangedDoes
      <4>6. CASE tracked[w] = "none" /\ tracked'[w] # "none" /\ queue[1].focused
        <5>1. OpenedThen(w) = "recent" => loop' = <<v>>
          BY <1>4, <4>1, <4>3, <4>5, <4>6
        <5>2. OpenedThen(w) # "recent" => loop' = <<>>
          BY <4>5, <4>6
        <5> QED  BY <4>3, <4>4, <4>5, <4>6, <5>1, <5>2
      <4>7. CASE ~(tracked[w] = "none" /\ tracked'[w] # "none" /\ queue[1].focused)
        BY <2>1, <4>1, <4>3, <4>4, <4>5, <4>7
      <4> QED  BY <4>6, <4>7
    <3>3. CASE id # w
      <4>1. /\ cache' = [cache EXCEPT ![id] = queue[1].stage]
            /\ tracked'[w] = IF cache[w] = 0 THEN "none" ELSE tracked[w]
            /\ opened'[w] = IF opened[w] = "late" THEN "no" ELSE opened[w]
            /\ candidate'[w] = IF opened[w] = "late" THEN NoWin ELSE candidate[w]
        BY <2>4, <3>3, ChangedDoes
      <4>2. cache'[w] # 0
        BY <1>7, <1>11, <3>3, <4>1
      <4>3. loop' = <<>>
        <5>1. CASE queue[1].focused
          <6>1. id = v
            BY <2>3, <3>1, <3>3, <5>1 DEF SaysFocus
          <6>2. OpenedThen(id) = "no"
            BY <1>4, <6>1 DEF OpenedThen
          <6> QED  BY <2>4, <6>2, ChangedDoes
        <5>2. CASE ~queue[1].focused
          BY <2>4, <5>2, ChangedDoes
        <5> QED  BY <5>1, <5>2
      <4> QED  BY <1>11, <2>1, <4>1, <4>2, <4>3
    <3> QED  BY <3>2, <3>3
  <2>5. CASE HandleFocus
    <3>1. queue[1].type = "focus"
      BY <2>5, Taken DEF HandleFocus
    <3>2. id \in {v, w}
      BY <2>3, <3>1 DEF SaysFocus
    <3>3. cache' = cache /\ tracked' = tracked
      BY <2>5, FocusDoes
    <3>4. CASE id = w /\ tracked[w] # "none"
      <4>1. opened'[w] = "no"
        BY <2>5, <3>4, FocusDoes
      <4>2. \/ opened[w] = "recent" /\ loop' = <<candidate[w]>>
            \/ loop' = <<>>
        BY <2>5, <3>4, FocusDoes
      <4> QED  BY <1>11, <2>1, <3>3, <3>4, <4>1, <4>2
    <3>5. CASE ~(id = w /\ tracked[w] # "none")
      <4>1. /\ opened'[w] = IF opened[w] = "late" THEN "no" ELSE opened[w]
            /\ candidate'[w] = IF opened[w] = "late" THEN NoWin ELSE candidate[w]
        BY <2>5, <3>5, FocusDoes
      <4>2. loop' = <<>>
        BY <1>4, <2>5, <3>2, <3>5, FocusDoes
      <4> QED  BY <1>11, <2>1, <3>3, <4>1, <4>2
    <3> QED  BY <3>4, <3>5
  <2>6. CASE HandleClosed
    <3>1. id \in Windows /\ stage[id] = -1
      BY <2>6, ClosedDoes
    <3>2. w # id
      BY <1>4, <3>1
    <3>3. /\ cache' = [cache EXCEPT ![id] = 0] /\ tracked' = [tracked EXCEPT ![id] = "none"]
          /\ opened'[w] = IF opened[w] = "late" THEN "no" ELSE opened[w]
          /\ candidate'[w] = IF opened[w] = "late" THEN NoWin ELSE candidate[w]
          /\ loop' = loop
      BY <2>6, <3>2, ClosedDoes
    <3>4. cache'[w] # 0 /\ tracked'[w] = tracked[w]
      BY <1>7, <1>11, <3>2, <3>3 DEF TypeOK
    <3> QED  BY <1>2, <2>1, <3>3, <3>4
  <2>7. CASE HandleAll
    <3>1. queue[1].type = "all"
      BY <2>7, Taken DEF HandleAll
    <3> QED  BY <1>2, <2>1, <3>1 DEF Whole
  <2> QED  BY <2>4, <2>5, <2>6, <2>7 DEF Handle
<1> QED  BY <1>10, <1>11

LEMMA OweNext ==
    ASSUME TypeOK, QueueInv, KnownInv, OnceInv, FocusHeard, OweInv, [Next]_vars
    PROVE  OweInv'
<1>1. ASSUME \A w \in Windows : before'[w] = NoWin PROVE OweInv'
  BY <1>1 DEF OweInv
<1>2. ASSUME link' # "on" PROVE OweInv'
  BY <1>2 DEF OweInv
<1>3. NoWin \notin Windows
  BY ArrivalAssumption DEF ArrivalAssumption
\* What is owed is owed still, when every PiP that owes anything is looked at by itself.
<1>4. ASSUME link' = "on" => link = "on",
             \A w \in Windows : before[w] = NoWin => before'[w] = NoWin,
             \A w \in Windows : \A v :
                link = "on" /\ Owes(w, v) /\ before[w] = v /\ before'[w] # NoWin
                   => before'[w] = v /\ Owes(w, v)'
      PROVE  OweInv'
  <2> SUFFICES ASSUME link' = "on", NEW w \in Windows, before'[w] # NoWin
               PROVE  Owes(w, before[w])'
    BY DEF OweInv
  <2>1. PICK v : v = before[w]
    OBVIOUS
  <2>2. Owes(w, v) /\ link = "on"
    BY <1>4, <2>1 DEF OweInv
  <2>3. before'[w] = v /\ Owes(w, v)'
    BY <1>4, <2>1, <2>2
  <2> QED  BY <2>3
<1>5. \A w, n, b : /\ Changed(w, n, b).type = "changed" /\ Changed(w, n, b).win = w
                   /\ Changed(w, n, b).focused = b /\ (SaysFocus(Changed(w, n, b)) <=> b = TRUE)
  BY DEF SaysFocus, Changed
<1>6. \A w : /\ Focused(w).type = "focus" /\ SaysFocus(Focused(w)) /\ Focused(w).win = w
  BY DEF SaysFocus, Focused
<1>7. ASSUME NEW u \in Windows, Opens(u) PROVE OweInv'
  <2>1. /\ stage' = [stage EXCEPT ![u] = 1] /\ stage[u] = 0
        /\ UNCHANGED <<link, loop, cache, focused, opened, candidate, tracked>>
    BY <1>7, OpensGrows DEF engine
  \* It takes the focus.
  <2>2. CASE /\ focus' = u /\ Grown({Changed(u, 1, TRUE), Focused(u)})
             /\ link = "on" => /\ Len(queue') > Len(queue)
                               /\ queue'[Len(queue) + 1] = Changed(u, 1, TRUE)
             /\ before' = [Nothing(NoWin) EXCEPT ![u] =
                    IF \E v \in Windows : v = focus /\ cache[v] > 0 /\ opened[v] = "no"
                    THEN focus ELSE NoWin]
    <3> DEFINE owed == \E v \in Windows : v = focus /\ cache[v] > 0 /\ opened[v] = "no"
    <3>1. \A w \in Windows : before'[w] = IF w = u /\ owed THEN focus ELSE NoWin
      BY <2>2 DEF Nothing
    <3>2. CASE ~owed
      BY <1>1, <3>1, <3>2
    <3>3. CASE owed
      <4> SUFFICES ASSUME link = "on" PROVE Owes(u, before[u])'
        BY <2>1, <3>1 DEF OweInv
      <4>1. PICK v \in Windows : v = focus /\ cache[v] > 0 /\ opened[v] = "no"
        BY <3>3
      <4>2. before'[u] = v /\ \A w \in Windows \ {u} : before'[w] = NoWin
        BY <3>1, <3>3, <4>1
      <4>3. stage[v] > 0 /\ v # u
        BY <1>3, <2>1, <4>1 DEF FocusHeard
      <4>4. stage'[v] > 0 /\ stage'[u] > 0
        BY <2>1, <4>1, <4>3 DEF TypeOK
      <4>5. /\ Len(queue) \in Nat /\ Len(queue') \in Nat /\ Len(queue) <= Len(queue')
            /\ DOMAIN queue = 1 .. Len(queue) /\ DOMAIN queue' = 1 .. Len(queue')
            /\ \A i \in 1 .. Len(queue) : queue'[i] = queue[i]
            /\ \A i \in 1 .. Len(queue') : i > Len(queue) =>
                  queue'[i] \in {Changed(u, 1, TRUE), Focused(u)}
            /\ (Whole' <=> Whole) /\ (Whole => queue'[1] = queue[1])
        BY <2>2 DEF Grown
      <4>6. cache[u] = 0 /\ (Whole => queue[1].stages[u] = 0)
        BY <2>1 DEF KnownInv
      <4>7. PICK n \in Nat : n = Len(queue)
        BY <4>5
      <4>8. HeardThen(n, v)
        <5>1. n \in 0 .. Len(queue) /\ n \in n .. Len(queue')
          BY <4>5, <4>7
        <5>2. Heard(n, v)
          BY <4>1, <4>7 DEF FocusHeard
        <5> QED  BY <2>1, <2>2, <5>1, <5>2, HeardGrown
      <4>9. n + 1 \in DOMAIN queue' /\ queue'[n + 1] = Changed(u, 1, TRUE)
        <5>1. Len(queue') > n /\ queue'[n + 1] = Changed(u, 1, TRUE)
          BY <2>2, <4>7
        <5> QED  BY <4>5, <5>1
      <4>10. \A i \in 1 .. n : ~(queue'[i].type = "changed" /\ queue'[i].win = u)
        <5>1. \A i \in 1 .. n : ~(queue[i].type = "changed" /\ queue[i].win = u)
          BY <2>1, <4>5, <4>7 DEF QueueInv
        <5> QED  BY <4>5, <4>7, <5>1
      <4>11. \A i \in DOMAIN queue' : i > n =>
                /\ queue'[i].win = u
                /\ queue'[i].type = "changed" => queue'[i].focused
        <5>1. \A e \in {Changed(u, 1, TRUE), Focused(u)} :
                 e.win = u /\ (e.type = "changed" => e.focused)
          BY DEF Changed, Focused
        <5> QED  BY <4>5, <4>7, <5>1
      <4>12. Pending(u, v)'
        <5>1. /\ queue'[n + 1].type = "changed" /\ queue'[n + 1].win = u
              /\ queue'[n + 1].focused
          BY <4>9 DEF Changed
        <5>2. (n + 1) - 1 = n
          OBVIOUS
        <5>3. Heard((n + 1) - 1, v)'
          BY <4>8, <5>2 DEF Heard, HeardThen
        <5>4. \A i \in (n + 1) + 1 .. Len(queue') : i \in DOMAIN queue' /\ i > n
          BY <4>5
        <5>5. Whole' => queue'[1].stages[u] = 0
          BY <4>5, <4>6
        <5> QED  BY <4>9, <4>10, <4>11, <5>1, <5>2, <5>3, <5>4, <5>5 DEF Pending, Says
      <4>13. \A i \in DOMAIN queue' :
                queue'[i].type = "changed" /\ queue'[i].win = u => queue'[i].focused
        <5>1. \A i \in DOMAIN queue' : i \in 1 .. n \/ i > n
          BY <4>5
        <5> QED  BY <4>10, <4>11, <5>1
      <4>14. Owes(u, v)'
        BY <2>1, <2>2, <4>1, <4>2, <4>3, <4>4, <4>6, <4>12, <4>13 DEF Owes, Says
      <4> QED  BY <4>2, <4>14
    <3> QED  BY <3>2, <3>3
  \* It does not.
  <2>3. CASE Grown({Changed(u, 1, FALSE)}) /\ UNCHANGED <<focus, before>>
    <3>1. ASSUME NEW w \in Windows, NEW v, link = "on", Owes(w, v) PROVE Owes(w, v)'
      <4>1. stage'[v] > 0 /\ stage'[w] > 0 /\ w # u
        BY <2>1, <3>1 DEF Owes, TypeOK
      <4> DEFINE d == Changed(u, 1, FALSE)
      <4>2. ~SaysFocus(d) /\ d.win = u
        BY DEF Changed, SaysFocus
      <4> HIDE DEF d
      <4>3. Grown({d}) /\ \A e \in {d} :
               /\ SaysFocus(e) => e.win \in {v, w}
               /\ e.type = "changed" /\ e.win = w /\ focus = w => e.focused
        BY <2>3, <4>1, <4>2 DEF d
      <4> QED  BY <2>1, <2>3, <3>1, <4>1, <4>3, OweGrown
    <3> QED  BY <1>4, <2>1, <2>3, <3>1
  <2> QED  BY <1>7, <2>2, <2>3, OpensGrows
<1>8. ASSUME NEW u \in Windows, Changes(u) PROVE OweInv'
  <2> DEFINE e == Changed(u, stage[u] + 1, focus = u)
  <2>1. /\ stage' = [stage EXCEPT ![u] = stage[u] + 1] /\ stage[u] > 0
        /\ UNCHANGED <<link, loop, cache, focused, opened, candidate, tracked, focus, before>>
        /\ Grown({e})
    BY <1>8, ChangesGrows DEF engine, ghosts
  <2>2. /\ e.type = "changed" /\ e.win = u /\ (e.focused <=> focus = u)
        /\ (SaysFocus(e) <=> focus = u)
    BY DEF Changed, SaysFocus
  <2> HIDE DEF e
  <2>3. ASSUME NEW w \in Windows, NEW v, link = "on", Owes(w, v) PROVE Owes(w, v)'
    <3>1. stage'[v] > 0 /\ stage'[w] > 0
      BY <2>1, <2>3 DEF Owes, TypeOK
    <3>2. \A d \in {e} : /\ SaysFocus(d) => d.win \in {v, w}
                         /\ d.type = "changed" /\ d.win = w /\ focus = w => d.focused
      BY <2>2, <2>3 DEF Owes
    <3> QED  BY <2>1, <2>3, <3>1, <3>2, OweGrown
  <2> QED  BY <1>4, <2>1, <2>3
<1>9. ASSUME NEW u \in Windows, Closes(u) PROVE OweInv'
  <2>1. before' = Settles({u, focus}) /\ link' = link
    BY <1>9, ClosesGrows
  <2>2. \A w \in Windows : before[w] = NoWin => before'[w] = NoWin
    BY <2>1 DEF Settles
  <2>3. \A w \in Windows : \A v :
           Owes(w, v) /\ before[w] = v => before'[w] = NoWin
    BY <2>1 DEF Settles, Owes
  <2> QED  BY <1>4, <2>1, <2>2, <2>3
<1>10. ASSUME NEW u \in Windows \cup {NoWin}, UserFocuses(u) PROVE OweInv'
  BY <1>1, <1>10 DEF UserFocuses, Nothing
<1>11. CASE Execute
  <2>1. /\ loop # <<>> /\ loop' = Tail(loop) /\ Head(loop) \in Windows
        /\ UNCHANGED <<stage, link, cache, focused, opened, candidate, tracked, returned>>
        /\ IF IsOpen(Head(loop)) THEN FocusOn(Head(loop)) ELSE UNCHANGED <<focus, queue>>
        /\ before' = IF \E v \in Windows :
                           before[v] \notin {NoWin, Head(loop)} /\ returned[v] = 0
                     THEN Nothing(NoWin) ELSE before
    BY <1>11 DEF Execute, engine, TypeOK
  <2>2. CASE before' = Nothing(NoWin)
    BY <1>1, <2>2 DEF Nothing
  <2>3. CASE /\ before' = before
             /\ \A v \in Windows : before[v] \in {NoWin, Head(loop)} \/ returned[v] # 0
    <3>1. ASSUME NEW w \in Windows, NEW v, link = "on", Owes(w, v), before[w] = v, v # NoWin
          PROVE  Owes(w, v)'
      <4>1. Head(loop) = v /\ (cache[w] = 0 \/ loop' = <<>>)
        <5>1. CASE cache[w] = 0
          <6>1. PICK k \in DOMAIN queue : Says(k, "changed", w)
            BY <3>1, <5>1 DEF Owes, Pending
          <6>2. Whole => queue[1].stages[w] = 0
            BY <3>1, <5>1 DEF Owes, Pending
          <6>3. ~Hears(w)
            BY <5>1, <6>2 DEF Hears
          <6>4. ~(returned[w] > 0) /\ returned[w] \in Nat
            BY <6>1, <6>3 DEF OnceInv, TypeOK
          <6>5. returned[w] = 0
            BY <6>4
          <6> QED  BY <2>3, <3>1, <5>1, <6>5
        <5>2. CASE cache[w] # 0
          <6>1. loop = <<v>>
            BY <2>1, <3>1, <5>2 DEF Owes, Noted
          <6> QED  BY <2>1, <6>1
        <5> QED  BY <5>1, <5>2
      <4>2. stage[v] > 0 /\ stage[w] > 0
        BY <3>1 DEF Owes
      <4>3. focus' = v /\ Grown({Focused(v)})
        BY <2>1, <4>1, <4>2, FocusOnGrows DEF IsOpen
      <4>4. \A e \in {Focused(v)} : e.win = v
        BY <1>6
      <4> QED  BY <2>1, <2>3, <3>1, <4>1, <4>2, <4>3, <4>4, OweGrown
    <3> QED  BY <1>4, <2>1, <2>3, <3>1
  <2> QED  BY <2>1, <2>2, <2>3
<1>12. CASE Handle
  <2>1. before' = before /\ link' = link
    BY <1>12, Taken DEF Handle, HandleChanged, HandleFocus, HandleClosed, HandleAll
  <2>2. \A w \in Windows : \A v : link = "on" /\ Owes(w, v) => Owes(w, v)'
    BY <1>12, OweHandle
  <2> QED  BY <1>4, <2>1, <2>2
<1>13. CASE ExecuteFails \/ Connect \/ Restart \/ Reload
  BY <1>1, <1>13 DEF ExecuteFails, Connect, Restart, Reload, Nothing
<1>14. CASE Break \/ StreamEnded
  BY <1>2, <1>14 DEF Break, StreamEnded
<1>15. ASSUME NEW u \in Windows, GetsLate(u) PROVE OweInv'
  <2>1. /\ UNCHANGED <<stage, focus, queue, link, cache, focused, candidate, tracked, loop>>
        /\ opened' = [opened EXCEPT ![u] = "late"] /\ opened[u] = "recent"
        /\ before' = [before EXCEPT ![u] = NoWin]
    BY <1>15 DEF GetsLate
  <2>2. ASSUME NEW w \in Windows, NEW v, Owes(w, v), w # u PROVE Owes(w, v)'
    <3>1. \A x \in Windows \ {w} : before'[x] = NoWin
      BY <2>1, <2>2 DEF Owes, TypeOK
    <3>2. opened'[v] = "no" /\ opened'[w] = opened[w]
      BY <2>1, <2>2 DEF Owes, TypeOK
    <3>3. \A n, x : Heard(n, x)' <=> Heard(n, x)
      BY <2>1 DEF Heard
    <3>4. Pending(w, v)' <=> Pending(w, v)
      BY <2>1, <3>3 DEF Pending, Says, Whole
    <3>5. Noted(w, v) => Noted(w, v)'
      BY <2>1, <3>2 DEF Noted, Whole
    <3> QED  BY <2>1, <2>2, <3>1, <3>2, <3>4, <3>5 DEF Owes, Says
  <2>3. \A w \in Windows : before'[w] # NoWin => w # u /\ before'[w] = before[w]
    BY <2>1 DEF TypeOK
  <2>4. \A w \in Windows : before[w] = NoWin => before'[w] = NoWin
    BY <2>1 DEF TypeOK
  <2> QED  BY <1>4, <2>1, <2>2, <2>3, <2>4
<1>16. CASE UNCHANGED vars
  BY <1>16 DEF vars, OweInv, Owes, Pending, Noted, Says, Heard, Whole
<1> QED  BY <1>7, <1>8, <1>9, <1>10, <1>11, <1>12, <1>13, <1>14, <1>15, <1>16 DEF Next

FocusInv == FocusHeard /\ OweInv

LEMMA FocusInit == Init => FocusInv
<1> SUFFICES ASSUME Init PROVE FocusHeard /\ OweInv
  BY DEF FocusInv
<1>1. link = "off" /\ \A w \in Windows : before[w] = NoWin
  BY DEF Init, Nothing
<1>2. focus # NoWin => stage[focus] > 0
  <2>1. PICK there \in Beginnings :
            /\ stage = [w \in Windows |-> IF w \in there THEN 1 ELSE 0]
            /\ focus \in IF there = {} THEN {NoWin} ELSE there
    BY DEF Init
  <2>2. there \subseteq Windows
    BY ArrivalAssumption DEF ArrivalAssumption
  <2> QED  BY <2>1, <2>2
<1> QED  BY <1>1, <1>2 DEF FocusHeard, OweInv

LEMMA FocusInvariant == Spec => [](ArrivalInv /\ FocusInv)
<1>1. ArrivalInv /\ FocusInv /\ [Next]_vars => FocusInv'
  BY FocusHeardNext, OweNext DEF ArrivalInv, FocusInv
<1>2. Init => FocusInv
  BY FocusInit
<1>3. Spec => []ArrivalInv
  BY ArrivalInvariant
<1> QED  BY <1>1, <1>2, <1>3, PTL DEF Spec

\* A PiP that took the focus as it opened, and was recognised in time, has given it back
\* to the window that had it, once everything is handled, whatever else opened, closed or
\* changed meanwhile and however late the events came.
THEOREM FocusReturns == Spec => []FocusComesBack
<1>1. ArrivalInv /\ FocusInv => FocusComesBack
  <2> SUFFICES ASSUME ArrivalInv, FocusInv, Quiet, NEW w \in Windows, tracked[w] # "none",
                      before[w] # NoWin
               PROVE  focus = before[w]
    BY DEF FocusComesBack
  <2>1. Owes(w, before[w]) /\ queue = <<>> /\ loop = <<>>
    BY DEF FocusInv, OweInv, Quiet
  <2>2. DOMAIN queue = {}
    BY <2>1
  <2>3. cache[w] # 0
    BY <2>1, <2>2 DEF Owes, Pending
  <2>4. focus # w
    BY <2>1, <2>3 DEF Owes, Noted
  <2> QED  BY <2>1, <2>4 DEF Owes
<1> QED  BY <1>1, FocusInvariant, PTL

-------------------------------------------------------------------------------
(* No window is missed *)

\* A window that has been classified under the present settings and is neither managed
\* nor ignored is none that a restarted daemon, to which it is not new, would manage.
NoneMissed ==
    settings.enabled => \A w \in looked \ ignored :
       tracked[w] = "none" => Match(w, cache[w], FALSE).action # "pip"

LEMMA ScoreTypes ==
    ASSUME NEW d \in DetectorConfig, NEW w, NEW isNew
    PROVE  /\ Score(d, w, isNew) \in Int /\ Score(d, w, FALSE) \in Int
           /\ d.new >= 0 => Score(d, w, isNew) >= Score(d, w, FALSE)
<1>1. /\ d.score \in Int /\ d.compact \in Int /\ d.aspect \in Int
      /\ d.emptyApp \in Int /\ d.pid \in Int /\ d.new \in Int
  BY DEF DetectorConfig
<1> DEFINE If(B, x) == IF B THEN x ELSE 0
           a == If(Compact(w), d.compact)
           b == If(Wide(w), d.aspect)
           c == If(w.app = "", d.emptyApp)
           p == If(w.pid, d.pid)
           n == If(isNew, d.new)
<1>2. \A B, x : x \in Int => If(B, x) \in Int
  OBVIOUS
<1>3. a \in Int /\ b \in Int /\ c \in Int /\ p \in Int
  <2> HIDE DEF If
  <2> QED  BY <1>1, <1>2, Zenon
<1>4. n = d.new \/ n = 0
  OBVIOUS
<1>5. /\ Score(d, w, isNew) = d.score + a + b + c + p + n
      /\ Score(d, w, FALSE) = d.score + a + b + c + p + 0
  BY Zenon DEF Score
<1>6. n \in Int /\ (d.new >= 0 => n >= 0)
  <2> HIDE DEF n
  <2> QED  BY <1>1, <1>4
<1> DEFINE r == d.score + a + b + c + p
<1>7. r \in Int
  <2> HIDE DEF a, b, c, p
  <2> QED  BY <1>1, <1>3
<1>8. Score(d, w, isNew) = r + n /\ Score(d, w, FALSE) = r + 0
  <2> HIDE DEF a, b, c, p, n
  <2> QED  BY <1>5
<1> DEFINE x == Score(d, w, isNew)
           y == Score(d, w, FALSE)
<1>9. x = r + n /\ y = r + 0
  BY <1>8
<1> HIDE DEF r, n, x, y
<1>10. x \in Int /\ y \in Int /\ (d.new >= 0 => x >= y)
  BY <1>6, <1>7, <1>9
<1> QED  BY <1>10, Zenon DEF x, y

\* What no detector finds in a new window it does not find in an old one.
LEMMA OldIsNoneToo ==
    ASSUME NEW ds \in Seq(DetectorConfig), NEW browsers, NEW threshold \in Int, NEW w,
           NEW isNew, \A i \in DOMAIN ds : ds[i].new >= 0,
           Detect(ds, browsers, threshold, w, isNew).action = "none"
    PROVE  Detect(ds, browsers, threshold, w, FALSE) = NoMatch
<1>1. \A i \in DOMAIN ds : ds[i] \in DetectorConfig
  OBVIOUS
<1>2. \A i : ~Passes(ds, browsers, threshold, w, isNew, i)
  <2>1. ASSUME NEW i \in DOMAIN ds,
               Detect(ds, browsers, threshold, w, isNew)
                 = [name |-> ds[i].name, action |-> ds[i].action]
        PROVE  FALSE
    <3>1. ds[i].action \in {"pip", "ignore"}
      BY <1>1 DEF DetectorConfig
    <3> QED  BY <2>1, <3>1
  <2> QED  BY <2>1, DetectFindsTheBest, ZenonT(30)
<1>3. \A i : ~Passes(ds, browsers, threshold, w, FALSE, i)
  <2> SUFFICES ASSUME NEW i, Passes(ds, browsers, threshold, w, FALSE, i)
               PROVE  Passes(ds, browsers, threshold, w, isNew, i)
    BY <1>2
  <2>1. i \in DOMAIN ds /\ Score(ds[i], w, FALSE) >= threshold
    BY DEF Passes
  <2>2. /\ Score(ds[i], w, isNew) \in Int /\ Score(ds[i], w, FALSE) \in Int
        /\ Score(ds[i], w, isNew) >= Score(ds[i], w, FALSE)
    BY <1>1, <2>1, ScoreTypes
  <2>3. Score(ds[i], w, isNew) >= threshold
    <3> DEFINE x == Score(ds[i], w, isNew)
               y == Score(ds[i], w, FALSE)
    <3>1. x \in Int /\ y \in Int /\ x >= y /\ y >= threshold
      BY <2>1, <2>2
    <3> HIDE DEF x, y
    <3>2. x >= threshold
      BY <3>1
    <3> QED  BY <3>2 DEF x
  <2> QED  BY <2>3 DEF Passes
<1> QED  BY <1>3, DetectFindsTheBest, Zenon

LEMMA ClassifyMisses ==
    ASSUME TypeOK, NewIsNoLoss, NEW ws, NEW c, NEW isNew, Classify(ws, c, isNew),
           NEW w \in Windows, w \in ws, c[w] # 0, c[w] > 0, settings.enabled,
           w \notin ignored', tracked'[w] = "none"
    PROVE  Match(w, c[w], FALSE).action # "pip"
<1> DEFINE found(x) == IF x \in Candidates(ws) THEN Match(x, c[x], isNew) ELSE NoMatch
           m == Match(w, c[w], isNew)
<1>1. /\ tracked' = [x \in Windows |-> IF found(x).action = "pip" THEN found(x).name
                                       ELSE IF c[x] = 0 THEN "none" ELSE tracked[x]]
      /\ ignored' = {x \in ignored : c[x] > 0}
                       \cup {x \in Windows : found(x).action = "ignore"}
  BY DEF Classify
<1>2. w \in Candidates(ws)
  <2>1. tracked[w] = "none"
    BY ClassifyKeeps
  <2>2. w \notin ignored
    BY <1>1
  <2> QED  BY <2>1, <2>2 DEF Candidates
<1>3. found(w) = m
  BY <1>2
<1>4. m.action \in {"none", "pip", "ignore"} /\ (m.action # "none" => m.name # "none")
  BY MatchNames
<1>5. m.action = "none"
  <2> HIDE DEF found, m
  <2> QED  BY <1>1, <1>3, <1>4
<1>6. Detectors \in Seq(DetectorConfig) /\ Threshold \in Int
  BY ArrivalAssumption DEF ArrivalAssumption
<1>7. Detect(Detectors, settings.browsers, Threshold, Stages[w][c[w]], isNew).action = "none"
  <2>1. m = Detect(Detectors, settings.browsers, Threshold, Stages[w][c[w]], isNew)
    BY Zenon DEF Match
  <2> HIDE DEF m
  <2> QED  BY <1>5, <2>1
<1>8. Detect(Detectors, settings.browsers, Threshold, Stages[w][c[w]], FALSE) = NoMatch
  BY <1>6, <1>7, OldIsNoneToo, Zenon DEF NewIsNoLoss
<1>9. Match(w, c[w], FALSE) = NoMatch
  BY <1>8, Zenon DEF Match
<1>10. NoMatch.action # "pip"
  BY DEF NoMatch
<1> QED  BY <1>9, <1>10, Zenon

LEMMA MissedNext ==
    ASSUME NewIsNoLoss, TypeOK, QueueInv, NoneMissed, [Next]_vars
    PROVE  NoneMissed'
<1>1. ASSUME UNCHANGED <<settings, looked, ignored, tracked, cache>> PROVE NoneMissed'
  BY <1>1 DEF NoneMissed, Match
<1>2. ASSUME looked' = {} PROVE NoneMissed'
  BY <1>2 DEF NoneMissed
<1>3. CASE \E w \in Windows : Opens(w) \/ Changes(w) \/ Closes(w) \/ GetsLate(w)
  BY <1>1, <1>3 DEF Opens, Changes, Closes, GetsLate, engine, ghosts
<1>4. CASE (\E w \in Windows \cup {NoWin} : UserFocuses(w)) \/ Execute \/ ExecuteFails
  BY <1>1, <1>4 DEF UserFocuses, Execute, ExecuteFails, engine
<1>5. CASE Connect \/ Break \/ StreamEnded \/ UNCHANGED vars
  BY <1>1, <1>5 DEF Connect, Break, StreamEnded, vars, engine, ghosts
<1>6. CASE Restart \/ Reload
  BY <1>2, <1>6 DEF Restart, Reload
<1> DEFINE id == queue[1].win
<1>7. CASE HandleChanged
  <2>1. Receive("changed") /\ Head(queue) = queue[1] /\ settings' = settings
    BY <1>7, Taken DEF HandleChanged
  <2>2. /\ id \in Windows /\ queue[1].stage > 0
        /\ cache' = [cache EXCEPT ![id] = queue[1].stage]
        /\ \A w \in Windows \ {id} :
              tracked'[w] = IF cache[w] = 0 THEN "none" ELSE tracked[w]
    BY <1>7, ChangedDoes
  <2>3. PICK ws, c, isNew : ws = {id} /\ c = cache' /\ Classify(ws, c, isNew)
    BY <1>7, <2>1 DEF HandleChanged
  <2>4. /\ looked' = (looked \cup {w \in ws : tracked[w] = "none"}) \cap Known(c)
        /\ {w \in ignored : c[w] > 0} \subseteq ignored'
    BY <2>3 DEF Classify
  <2>5. c[id] = queue[1].stage
    BY <2>2, <2>3 DEF TypeOK
  <2> SUFFICES ASSUME settings.enabled, NEW w \in Windows, w \in looked', w \notin ignored',
                      tracked'[w] = "none"
               PROVE  Match(w, cache'[w], FALSE).action # "pip"
    <3>1. looked' \subseteq Windows
      BY <2>4 DEF Known
    <3>2. \A w, n : Match(w, n, FALSE)' = Match(w, n, FALSE)
      BY <2>1 DEF Match
    <3>3. \A w : Match(w, cache[w], FALSE)' = Match(w, cache'[w], FALSE)
      BY <2>1 DEF Match
    <3> QED  BY <2>1, <3>1, <3>3 DEF NoneMissed
  <2>6. CASE w = id
    <3>1. w \in ws /\ c[w] = queue[1].stage
      BY <2>3, <2>5, <2>6
    <3>2. c[w] # 0 /\ c[w] > 0
      BY <2>2, <3>1
    <3>3. Match(w, c[w], FALSE).action # "pip"
      BY <2>3, <3>1, <3>2, ClassifyMisses
    <3> QED  BY <2>3, <3>3
  <2>7. CASE w # id
    <3>1. cache'[w] = cache[w] /\ c[w] > 0 /\ w \in looked
      BY <2>2, <2>3, <2>4, <2>7 DEF TypeOK, Known
    <3>2. w \notin ignored
      BY <2>4, <3>1
    <3>3. tracked[w] = "none"
      <4>1. cache[w] # 0
        BY <2>3, <3>1
      <4> QED  BY <2>2, <2>7, <4>1
    <3> QED  BY <3>1, <3>2, <3>3 DEF NoneMissed
  <2> QED  BY <2>6, <2>7
<1>8. CASE HandleFocus
  <2>1. settings' = settings /\ UNCHANGED <<looked, ignored, tracked, cache>>
    BY <1>8, FocusDoes, Taken DEF HandleFocus
  <2> QED  BY <1>1, <2>1
<1>9. CASE HandleClosed
  <2>1. Head(queue) = queue[1] /\ settings' = settings
    BY <1>9, Taken DEF HandleClosed
  <2>2. /\ looked' = looked \ {id} /\ ignored' = ignored \ {id}
        /\ cache' = [cache EXCEPT ![id] = 0] /\ tracked' = [tracked EXCEPT ![id] = "none"]
    BY <1>9, <2>1 DEF HandleClosed
  <2>3. \A w \in looked' : /\ w \in Windows /\ w # id /\ w \in looked
                           /\ (w \notin ignored' => w \notin ignored)
                           /\ cache'[w] = cache[w] /\ tracked'[w] = tracked[w]
    BY <2>2 DEF TypeOK
  <2>4. \A w : Match(w, cache[w], FALSE)' = Match(w, cache'[w], FALSE)
    BY <2>1 DEF Match
  <2> SUFFICES ASSUME settings.enabled, NEW w \in looked', w \notin ignored',
                      tracked'[w] = "none"
               PROVE  Match(w, cache'[w], FALSE).action # "pip"
    BY <2>1, <2>4 DEF NoneMissed
  <2>5. w \in looked \ ignored /\ tracked[w] = "none" /\ cache'[w] = cache[w]
    BY <2>3
  <2>6. Match(w, cache[w], FALSE).action # "pip"
    BY <2>5 DEF NoneMissed
  <2> QED  BY <2>5, <2>6, Zenon
<1>10. CASE HandleAll
  <2>1. settings' = settings
    BY <1>10, Taken DEF HandleAll
  <2>2. PICK ws, c, isNew : ws = Known(cache') /\ c = cache' /\ Classify(ws, c, isNew)
    BY <1>10 DEF HandleAll
  <2>3. looked' \subseteq Known(c)
    BY <2>2 DEF Classify
  <2>4. \A w \in Known(c) : w \in Windows /\ w \in ws /\ c[w] # 0 /\ c[w] > 0
    <3>1. c \in [Windows -> Numbers]
      BY <1>10, <2>2, AllDoes
    <3> QED  BY <2>2, <3>1 DEF Known, Numbers, Most
  <2>5. \A w : Match(w, cache[w], FALSE)' = Match(w, cache'[w], FALSE)
    BY <2>1 DEF Match
  <2>6. ASSUME settings.enabled, NEW w \in looked', w \notin ignored', tracked'[w] = "none"
        PROVE  Match(w, c[w], FALSE).action # "pip"
    BY <2>2, <2>3, <2>4, <2>6, ClassifyMisses
  <2> QED  BY <2>1, <2>2, <2>5, <2>6 DEF NoneMissed
<1> QED  BY <1>3, <1>4, <1>5, <1>6, <1>7, <1>8, <1>9, <1>10 DEF Next, Handle

-------------------------------------------------------------------------------
(* Every profile is the one a restart finds *)

\* No window is described further than it goes.
Within(e) ==
    /\ e.type = "changed" => e.stage <= Len(Stages[e.win])
    /\ e.type = "all" => \A w \in Windows : e.stages[w] <= Len(Stages[w])
WithinInv ==
    /\ \A w \in Windows : stage[w] <= Len(Stages[w]) /\ cache[w] <= Len(Stages[w])
    /\ \A i \in DOMAIN queue : Within(queue[i])

\* A window managed since the settings are what they are has the profile that its
\* description of that time asks for.
ProfileInv ==
    \A w \in looked :
       /\ cache[w] > 0
       /\ tracked[w] # "none" =>
            /\ texts[w] \in DOMAIN Stages[w]
            /\ \E b \in BOOLEAN :
                  Match(w, texts[w], b) = [name |-> tracked[w], action |-> "pip"]

LEMMA WithinEmit ==
    ASSUME TypeOK, WithinInv, NEW events \in Seq(Event), Emit(events),
           \A k \in 1 .. Len(events) : Within(events[k])
    PROVE  \A i \in DOMAIN queue' : Within(queue'[i])
<1>1. /\ DOMAIN queue = 1 .. Len(queue) /\ DOMAIN queue' = 1 .. Len(queue')
      /\ Len(queue) \in Nat /\ Len(queue') \in Nat
      /\ \A i \in 1 .. Len(queue) : queue'[i] = queue[i]
      /\ \A i \in 1 .. Len(queue') : i > Len(queue) =>
            i - Len(queue) \in 1 .. Len(events) /\ queue'[i] = events[i - Len(queue)]
  BY Emitted
<1> SUFFICES ASSUME NEW i \in 1 .. Len(queue') PROVE Within(queue'[i])
  BY <1>1
<1>2. CASE i <= Len(queue)
  BY <1>1, <1>2 DEF WithinInv
<1>3. CASE i > Len(queue)
  BY <1>1, <1>3
<1> QED  BY <1>1, <1>2, <1>3

LEMMA WithinNext ==
    ASSUME TypeOK, QueueInv, WithinInv, [Next]_vars
    PROVE  WithinInv'
<1>0. \A w \in Windows : Len(Stages[w]) \in Nat /\ 1 <= Len(Stages[w])
  BY ArrivalAssumption DEF ArrivalAssumption
<1>1. ASSUME NEW w \in Windows, Opens(w) PROVE WithinInv'
  <2>1. stage' = [stage EXCEPT ![w] = 1] /\ cache' = cache
    BY <1>1 DEF Opens, engine
  <2>2. PICK events \in {<<Changed(w, 1, TRUE)>>, <<Changed(w, 1, TRUE), Focused(w)>>,
                         <<Changed(w, 1, FALSE)>>} : Emit(events)
    BY <1>1 DEF Opens
  <2> DEFINE a == Changed(w, 1, TRUE)
             b == Changed(w, 1, FALSE)
             d == Focused(w)
  <2>3. a \in Event /\ b \in Event /\ d \in Event
    <3>1. 1 \in Numbers /\ TRUE \in BOOLEAN /\ FALSE \in BOOLEAN
      BY DEF Numbers, Most
    <3> QED  BY <3>1, EventTypes, Zenon
  <2>4. /\ a.type = "changed" /\ a.win = w /\ a.stage = 1
        /\ b.type = "changed" /\ b.win = w /\ b.stage = 1 /\ d.type = "focus"
    BY <2>3 DEF Changed, Focused
  <2>5. events \in {<<a>>, <<a, d>>, <<b>>}
    BY <2>2
  <2> HIDE DEF a, b, d
  <2>6. events \in Seq(Event) /\ \A k \in 1 .. Len(events) : Within(events[k])
    <3>1. Within(a) /\ Within(b) /\ Within(d)
      BY <1>0, <2>4 DEF Within
    <3>2. <<a>> \in Seq(Event) /\ <<a, d>> \in Seq(Event) /\ <<b>> \in Seq(Event)
      BY <2>3
    <3>3. \A k \in 1 .. Len(<<a, d>>) : Within(<<a, d>>[k])
      BY <3>1
    <3>4. /\ \A k \in 1 .. Len(<<a>>) : Within(<<a>>[k])
          /\ \A k \in 1 .. Len(<<b>>) : Within(<<b>>[k])
      BY <3>1
    <3> QED  BY <2>5, <3>2, <3>3, <3>4
  <2>7. \A i \in DOMAIN queue' : Within(queue'[i])
    BY <2>2, <2>6, WithinEmit
  <2> QED  BY <1>0, <2>1, <2>7 DEF WithinInv, TypeOK
<1>2. ASSUME NEW w \in Windows, Changes(w) PROVE WithinInv'
  <2>1. /\ stage' = [stage EXCEPT ![w] = stage[w] + 1] /\ cache' = cache
        /\ stage[w] \in Int /\ stage[w] + 1 \in Numbers
    BY <1>2, ChangesTo DEF Changes, engine
  <2>2. stage[w] + 1 <= Len(Stages[w])
    BY <1>0, <1>2, <2>1 DEF Changes
  <2> DEFINE e == Changed(w, stage[w] + 1, focus = w)
  <2>3. e \in Event /\ Within(e)
    <3>1. (focus = w) \in BOOLEAN
      OBVIOUS
    <3>2. e \in Event
      BY <2>1, <3>1, EventTypes, Zenon
    <3>3. e.type = "changed" /\ e.win = w /\ e.stage = stage[w] + 1
      BY <3>2 DEF Changed
    <3> HIDE DEF e
    <3> QED  BY <2>2, <3>2, <3>3 DEF Within
  <2>4. Emit(<<e>>)
    BY <1>2 DEF Changes
  <2> HIDE DEF e
  <2>5. <<e>> \in Seq(Event) /\ \A k \in 1 .. Len(<<e>>) : Within(<<e>>[k])
    BY <2>3
  <2>6. \A i \in DOMAIN queue' : Within(queue'[i])
    BY <2>4, <2>5, WithinEmit
  <2> QED  BY <2>1, <2>2, <2>6 DEF WithinInv, TypeOK
<1>3. ASSUME NEW w \in Windows, Closes(w) PROVE WithinInv'
  <2>1. stage' = [stage EXCEPT ![w] = -1] /\ cache' = cache
    BY <1>3 DEF Closes, engine
  <2>2. PICK v \in Windows \cup {NoWin} :
           Emit(<<Closed(w), Focused(v)>>) \/ Emit(<<Closed(w)>>)
    BY <1>3 DEF Closes
  <2>3. PICK events \in {<<Closed(w), Focused(v)>>, <<Closed(w)>>} : Emit(events)
    BY <2>2
  <2> DEFINE a == Closed(w)
             d == Focused(v)
  <2>4. a \in Event /\ d \in Event /\ Within(a) /\ Within(d)
    BY EventTypes, Contents DEF Within
  <2>5. events \in {<<a, d>>, <<a>>}
    BY <2>3
  <2> HIDE DEF a, d
  <2>6. events \in Seq(Event) /\ \A k \in 1 .. Len(events) : Within(events[k])
    <3>1. <<a, d>> \in Seq(Event) /\ <<a>> \in Seq(Event)
      BY <2>4
    <3>2. \A k \in 1 .. Len(<<a, d>>) : Within(<<a, d>>[k])
      BY <2>4
    <3>3. \A k \in 1 .. Len(<<a>>) : Within(<<a>>[k])
      BY <2>4
    <3> QED  BY <2>5, <3>1, <3>2, <3>3
  <2>7. \A i \in DOMAIN queue' : Within(queue'[i])
    BY <2>3, <2>6, WithinEmit
  <2> QED  BY <1>0, <2>1, <2>7, SMTT(30) DEF WithinInv, TypeOK
<1>4. ASSUME NEW w \in Windows \cup {NoWin}, FocusOn(w), stage' = stage, cache' = cache
      PROVE  WithinInv'
  <2>1. PICK events \in {<<>>, <<Focused(w)>>} : Emit(events)
    BY <1>4 DEF FocusOn
  <2> DEFINE d == Focused(w)
  <2>2. d \in Event /\ Within(d)
    BY EventTypes, Contents DEF Within
  <2>3. events \in {<<>>, <<d>>}
    BY <2>1
  <2> HIDE DEF d
  <2>4. events \in Seq(Event) /\ \A k \in 1 .. Len(events) : Within(events[k])
    <3>1. <<d>> \in Seq(Event) /\ <<>> \in Seq(Event)
      BY <2>2
    <3>2. /\ \A k \in 1 .. Len(<<d>>) : Within(<<d>>[k])
          /\ \A k \in 1 .. Len(<<>>) : Within(<<>>[k])
      BY <2>2
    <3> QED  BY <2>3, <3>1, <3>2
  <2>5. \A i \in DOMAIN queue' : Within(queue'[i])
    BY <2>1, <2>4, WithinEmit
  <2> QED  BY <1>4, <2>5 DEF WithinInv
<1>5. ASSUME NEW w \in Windows \cup {NoWin}, UserFocuses(w) PROVE WithinInv'
  BY <1>4, <1>5 DEF UserFocuses, engine
<1>6. CASE Execute
  <2>1. CASE IsOpen(Head(loop))
    <3>1. Head(loop) \in Windows
      BY <1>6 DEF Execute, TypeOK
    <3> QED  BY <1>4, <1>6, <2>1, <3>1 DEF Execute, engine
  <2>2. CASE ~IsOpen(Head(loop))
    BY <1>6, <2>2 DEF Execute, engine, WithinInv
  <2> QED  BY <2>1, <2>2
<1>7. CASE Handle
  <2>1. PICK type : Receive(type)
    BY <1>7 DEF Handle, HandleChanged, HandleFocus, HandleClosed, HandleAll
  <2>2. stage' = stage /\ Within(queue[1]) /\ \A i \in DOMAIN queue' : Within(queue'[i])
    BY <2>1, Taken, SMTT(30) DEF WithinInv
  <2>3. \A w \in Windows : cache'[w] <= Len(Stages[w])
    <3>1. CASE HandleChanged
      <4>1. PICK id : id = queue[1].win
        OBVIOUS
      <4>2. id \in Windows /\ cache' = [cache EXCEPT ![id] = queue[1].stage]
        BY <3>1, <4>1, ChangedDoes
      <4>3. queue[1].type = "changed"
        BY <3>1, Taken DEF HandleChanged
      <4> QED  BY <2>2, <4>1, <4>2, <4>3 DEF Within, WithinInv, TypeOK
    <3>2. CASE HandleFocus
      BY <3>2 DEF HandleFocus, WithinInv
    <3>3. CASE HandleClosed
      BY <1>0, <3>3 DEF HandleClosed, WithinInv, TypeOK
    <3>4. CASE HandleAll
      <4>1. cache' = queue[1].stages /\ queue[1].type = "all"
        BY <3>4, AllDoes, Taken DEF HandleAll
      <4> QED  BY <2>2, <4>1 DEF Within
    <3> QED  BY <1>7, <3>1, <3>2, <3>3, <3>4 DEF Handle
  <2> QED  BY <2>2, <2>3 DEF WithinInv
<1>8. CASE Connect
  <2> DEFINE e == [type |-> "all", win |-> focus,
                   stages |-> [w \in Windows |-> IF IsOpen(w) THEN stage[w] ELSE 0]]
  <2>1. queue' = <<e>> /\ stage' = stage /\ cache' = cache
    BY <1>8 DEF Connect, engine
  <2>2. \A w \in Windows : e.stages[w] <= Len(Stages[w])
    BY <1>0 DEF WithinInv
  <2>3. Within(e)
    BY <2>2 DEF Within
  <2> HIDE DEF e
  <2> QED  BY <2>1, <2>3 DEF WithinInv
<1>9. CASE Restart
  BY <1>0, <1>9 DEF Restart, WithinInv, Nothing
<1>10. CASE ExecuteFails \/ Break \/ StreamEnded \/ Reload \/ (\E w \in Windows : GetsLate(w))
            \/ UNCHANGED vars
  BY <1>10 DEF ExecuteFails, Break, StreamEnded, Reload, GetsLate, vars, engine, WithinInv
<1> QED  BY <1>1, <1>2, <1>3, <1>5, <1>6, <1>7, <1>8, <1>9, <1>10 DEF Next

\* Classifying keeps the profiles, and those it gives are the ones it finds.
LEMMA ClassifyFinds ==
    ASSUME TypeOK, NEW ws, NEW c, NEW isNew \in BOOLEAN, Classify(ws, c, isNew),
           NEW w \in Windows, c[w] \in DOMAIN Stages[w], tracked'[w] # "none",
           ~(tracked'[w] = tracked[w] /\ texts'[w] = texts[w])
    PROVE  /\ texts'[w] \in DOMAIN Stages[w]
           /\ \E b \in BOOLEAN :
                 Match(w, texts'[w], b) = [name |-> tracked'[w], action |-> "pip"]
<1> DEFINE found(x) == IF x \in Candidates(ws) THEN Match(x, c[x], isNew) ELSE NoMatch
           m == Match(w, c[w], isNew)
<1>1. /\ tracked' = [x \in Windows |-> IF found(x).action = "pip" THEN found(x).name
                                       ELSE IF c[x] = 0 THEN "none" ELSE tracked[x]]
      /\ texts' = [x \in Windows |-> IF found(x).action = "pip" THEN c[x] ELSE texts[x]]
  BY DEF Classify
<1>2. found(w).action = "pip"
  <2> SUFFICES ASSUME found(w).action # "pip" PROVE FALSE
    OBVIOUS
  <2> HIDE DEF found
  <2> QED  BY <1>1
<1>3. found(w) = m
  BY <1>2 DEF NoMatch
<1>4. tracked'[w] = m.name /\ texts'[w] = c[w] /\ m.action = "pip"
  <2> HIDE DEF found, m
  <2> QED  BY <1>1, <1>2, <1>3
<1>5. m = [name |-> m.name, action |-> m.action]
  <2>1. m = Detect(Detectors, settings.browsers, Threshold, Stages[w][c[w]], isNew)
    BY Zenon DEF Match
  <2>2. Detectors \in Seq(DetectorConfig) /\ Threshold \in Int
    BY ArrivalAssumption DEF ArrivalAssumption
  <2>3. \/ m = NoMatch
        \/ \E i \in DOMAIN Detectors :
              m = [name |-> Detectors[i].name, action |-> Detectors[i].action]
    <3> HIDE DEF m
    <3> QED  BY <2>1, <2>2, DetectFindsTheBest
  <2> HIDE DEF m
  <2> QED  BY <2>3 DEF NoMatch
<1>6. m = [name |-> tracked'[w], action |-> "pip"] /\ m = Match(w, texts'[w], isNew)
  <2>1. m = Match(w, texts'[w], isNew)
    BY <1>4
  <2> HIDE DEF m
  <2> QED  BY <1>4, <1>5, <2>1
<1> QED  BY <1>4, <1>6

LEMMA ProfileNext ==
    ASSUME TypeOK, QueueInv, WithinInv, ProfileInv, [Next]_vars
    PROVE  ProfileInv'
<1>0. \A w \in Windows : DOMAIN Stages[w] = 1 .. Len(Stages[w]) /\ Len(Stages[w]) \in Nat
  BY ArrivalAssumption DEF ArrivalAssumption
<1>1. ASSUME UNCHANGED <<settings, looked, tracked, cache, texts>> PROVE ProfileInv'
  BY <1>1 DEF ProfileInv, Match
<1>2. ASSUME looked' = {} PROVE ProfileInv'
  BY <1>2 DEF ProfileInv
<1>3. CASE \E w \in Windows : Opens(w) \/ Changes(w) \/ Closes(w) \/ GetsLate(w)
  BY <1>1, <1>3 DEF Opens, Changes, Closes, GetsLate, engine, ghosts
<1>4. CASE (\E w \in Windows \cup {NoWin} : UserFocuses(w)) \/ Execute \/ ExecuteFails
  BY <1>1, <1>4 DEF UserFocuses, Execute, ExecuteFails, engine
<1>5. CASE Connect \/ Break \/ StreamEnded \/ UNCHANGED vars
  BY <1>1, <1>5 DEF Connect, Break, StreamEnded, vars, engine, ghosts
<1>6. CASE Restart \/ Reload
  BY <1>2, <1>6 DEF Restart, Reload
<1>7. CASE HandleFocus
  <2>1. settings' = settings /\ UNCHANGED <<looked, tracked, cache, texts>>
    BY <1>7, Taken DEF HandleFocus
  <2> QED  BY <1>1, <2>1
<1>8. CASE HandleClosed
  <2> DEFINE id == queue[1].win
  <2>1. Head(queue) = queue[1] /\ settings' = settings
    BY <1>8, Taken DEF HandleClosed
  <2>2. /\ looked' = looked \ {id} /\ texts' = texts
        /\ cache' = [cache EXCEPT ![id] = 0] /\ tracked' = [tracked EXCEPT ![id] = "none"]
    BY <1>8, <2>1 DEF HandleClosed
  <2>3. \A w \in looked' : /\ w \in looked /\ cache'[w] = cache[w]
                           /\ tracked'[w] = tracked[w] /\ texts'[w] = texts[w]
    BY <2>2 DEF TypeOK
  <2> QED  BY <2>1, <2>3 DEF ProfileInv, Match
<1>9. ASSUME NEW ws, NEW c, NEW isNew \in BOOLEAN, c = cache', Classify(ws, c, isNew),
             settings' = settings, \A w \in Windows : c[w] \in 0 .. Len(Stages[w])
      PROVE  ProfileInv'
  <2>1. looked' = (looked \cup {w \in ws : tracked[w] = "none"}) \cap Known(c)
    BY <1>9 DEF Classify
  <2> SUFFICES ASSUME NEW w \in looked', tracked'[w] # "none"
               PROVE  /\ texts'[w] \in DOMAIN Stages[w]
                      /\ \E b \in BOOLEAN :
                            Match(w, texts'[w], b) = [name |-> tracked'[w], action |-> "pip"]
    <3>1. \A w \in looked' : cache'[w] > 0
      BY <1>9, <2>1 DEF Known
    <3> QED  BY <1>9, <3>1 DEF ProfileInv, Match
  <2>2. w \in Windows /\ c[w] \in DOMAIN Stages[w]
    BY <1>0, <1>9, <2>1 DEF Known
  <2>3. CASE ~(tracked'[w] = tracked[w] /\ texts'[w] = texts[w])
    BY <1>9, <2>2, <2>3, ClassifyFinds
  <2>4. CASE tracked'[w] = tracked[w] /\ texts'[w] = texts[w]
    <3>1. w \in looked
      BY <2>1, <2>4
    <3> QED  BY <2>4, <3>1 DEF ProfileInv
  <2> QED  BY <2>3, <2>4
<1>10. ASSUME Handle PROVE \A w \in Windows : cache'[w] \in 0 .. Len(Stages[w])
  <2>1. TypeOK'
    BY TypeNext
  <2>2. WithinInv'
    BY WithinNext
  <2>3. \A w \in Windows : cache'[w] \in Nat
    <3>1. cache' \in [Windows -> Numbers]
      BY <2>1 DEF TypeOK
    <3> QED  BY <3>1 DEF Numbers, Most
  <2>4. \A w \in Windows : cache'[w] <= Len(Stages[w])
    BY <2>2 DEF WithinInv
  <2> QED  BY <1>0, <2>3, <2>4
<1>11. CASE HandleChanged
  <2> DEFINE isNew == cache[Head(queue).win] = 0
  <2>1. isNew \in BOOLEAN /\ Classify({Head(queue).win}, cache', isNew)
    BY <1>11 DEF HandleChanged
  <2>2. settings' = settings
    BY <1>11, Taken DEF HandleChanged
  <2>3. \A w \in Windows : cache'[w] \in 0 .. Len(Stages[w])
    BY <1>10, <1>11 DEF Handle
  <2> HIDE DEF isNew
  <2> QED  BY <1>9, <2>1, <2>2, <2>3, Zenon
<1>12. CASE HandleAll
  <2>1. FALSE \in BOOLEAN /\ Classify(Known(cache'), cache', FALSE)
    BY <1>12 DEF HandleAll
  <2>2. settings' = settings
    BY <1>12, Taken DEF HandleAll
  <2>3. \A w \in Windows : cache'[w] \in 0 .. Len(Stages[w])
    BY <1>10, <1>12 DEF Handle
  <2> QED  BY <1>9, <2>1, <2>2, <2>3, Zenon
<1> QED  BY <1>3, <1>4, <1>5, <1>6, <1>7, <1>8, <1>11, <1>12 DEF Next, Handle

ClassInv == WithinInv /\ ProfileInv /\ NoneMissed

LEMMA ClassInvariant ==
    ASSUME NewIsNoLoss
    PROVE  Spec => [](ArrivalInv /\ ClassInv)
<1>1. Init => ClassInv
  <2> SUFFICES ASSUME Init PROVE WithinInv /\ looked = {}
    BY DEF ClassInv, ProfileInv, NoneMissed
  <2>1. \A w \in Windows : Len(Stages[w]) \in Nat /\ 1 <= Len(Stages[w])
    BY ArrivalAssumption DEF ArrivalAssumption
  <2>2. queue = <<>> /\ cache = Nothing(0) /\ looked = {}
    BY DEF Init
  <2> QED  BY <2>1, <2>2 DEF Init, WithinInv, Nothing
<1>2. ArrivalInv /\ ClassInv /\ [Next]_vars => ClassInv'
  BY MissedNext, WithinNext, ProfileNext DEF ArrivalInv, ClassInv
<1> QED  BY <1>1, <1>2, ArrivalInvariant, PTL DEF Spec

\* With detectors like the default ones every window that a restarted daemon would manage
\* is managed now, or ignored until it closes, and has the profile it would have then:
\* looking at a window only when it is described, and never again once it is managed,
\* misses nothing.
THEOREM ProfileIsLasting ==
    ASSUME NewIsNoLoss, TextDecides
    PROVE  Spec => []ManagedLikeAfterRestart
<1>1. ArrivalInv /\ ClassInv => ManagedLikeAfterRestart
  <2> DEFINE found(w) == Match(w, cache[w], FALSE)
  <2> SUFFICES ASSUME ArrivalInv, ClassInv, settings.enabled, NEW w \in looked \ ignored,
                      found(w).action = "pip"
               PROVE  /\ tracked[w] # "none"
                      /\ SameText(w, cache[w], texts[w]) => tracked[w] = found(w).name
    BY DEF ManagedLikeAfterRestart
  <2>1. tracked[w] # "none"
    BY DEF ClassInv, NoneMissed
  <2>2. ASSUME SameText(w, cache[w], texts[w]) PROVE tracked[w] = found(w).name
    <3>1. w \in Windows /\ settings.browsers \in Browsers /\ cache[w] \in Numbers
      BY DEF ArrivalInv, TypeOK
    <3>2. cache[w] \in DOMAIN Stages[w]
      <4>1. cache[w] > 0 /\ cache[w] <= Len(Stages[w])
        BY <3>1 DEF ClassInv, ProfileInv, WithinInv
      <4>2. DOMAIN Stages[w] = 1 .. Len(Stages[w]) /\ Len(Stages[w]) \in Nat
        BY <3>1, ArrivalAssumption DEF ArrivalAssumption
      <4> QED  BY <3>1, <4>1, <4>2 DEF Numbers, Most
    <3>3. /\ texts[w] \in DOMAIN Stages[w]
          /\ \E b \in BOOLEAN :
                Match(w, texts[w], b) = [name |-> tracked[w], action |-> "pip"]
      BY <2>1 DEF ClassInv, ProfileInv
    <3>4. PICK b \in BOOLEAN :
             Match(w, texts[w], b) = [name |-> tracked[w], action |-> "pip"]
      BY <3>3
    <3>5. /\ Match(w, texts[w], b).action = "pip"
          /\ Match(w, texts[w], b).name = tracked[w]
      BY <3>4
    <3>6. Match(w, texts[w], b).name = found(w).name
      BY <2>2, <3>1, <3>2, <3>3, <3>5, ZenonT(60) DEF TextDecides, Match
    <3> QED  BY <3>5, <3>6
  <2> QED  BY <2>1, <2>2
<1> QED  BY <1>1, ClassInvariant, PTL
===============================================================================

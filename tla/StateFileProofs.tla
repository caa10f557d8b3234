---------------------------- MODULE StateFileProofs ----------------------------
(***************************************************************************)
(* For any number of saves under way, of changes, of operations that fail  *)
(* and of ends of the daemon: what is not dirty is saved, and what there   *)
(* was when the daemon was stopped is kept, unless the newest save failed  *)
(* or began while another was under way.  As long as no two saves have     *)
(* overlapped also: state.json is whole and changes as AtomicFile says.    *)
(***************************************************************************)
EXTENDS StateFile, FiniteSetTheorems, FunctionTheorems, TLAPS

Pcs == {"idle", "taken", "created", "written"}
SaveType == [pc : Pcs, value : Values, fd : Inodes \cup {NoFile}]
Lives == {"down", "starting", "up", "stopping"}

-------------------------------------------------------------------------------
(* Types *)

LEMMA Numbers ==
    /\ Values \subseteq Nat /\ 0 \in Values
    /\ NoFile \notin Values /\ Values \cap Broken = {} /\ NoFile \notin Broken
    /\ MaxFaults \in Nat /\ MaxEnds \in Nat
BY StateFileAssumption DEF Values, Broken

LEMMA SaverCount == Cardinality(Savers) \in Nat /\ Inodes = 1 .. Cardinality(Savers) + 2
BY FS_CardinalityType, StateFileAssumption DEF Inodes

LEMMA NoFileIsNone == NoFile \notin Inodes
BY SaverCount, StateFileAssumption

LEMMA IdleType == Idle \in SaveType /\ Idle.pc = "idle" /\ Idle.fd = NoFile
BY Numbers DEF Idle, SaveType, Pcs

\* What TypeOK says of the parts that the steps below change.
LEMMA Typed ==
    ASSUME TypeOK
    PROVE  /\ saver \in [Savers -> SaveType]
           /\ data \in [Inodes -> Values \cup Broken]
           /\ daemon \in Lives
           /\ offered \subseteq Values
BY DEF TypeOK, SaveType, Pcs, Lives

LEMMA InitType == Init => TypeOK
<1> SUFFICES ASSUME Init PROVE TypeOK  OBVIOUS
<1>1. saver \in [Savers -> SaveType]  BY IdleType DEF Init
<1>2. data \in [Inodes -> Values \cup Broken]  BY DEF Init, Broken
<1>3. faults \in 0 .. MaxFaults /\ ends \in 0 .. MaxEnds  BY Numbers DEF Init
<1> QED  BY <1>1, <1>2, <1>3, Numbers DEF Init, TypeOK, SaveType, Pcs

\* One save goes on, the others do not.
LEMMA OneSave ==
    ASSUME TypeOK, NEW k \in Savers, NEW r \in SaveType,
           saver' = [saver EXCEPT ![k] = r]
    PROVE  /\ saver' \in [Savers -> SaveType] /\ saver'[k] = r
           /\ \A l \in Savers : l # k => saver'[l] = saver[l]
BY Typed

LEMMA TakesType ==
    ASSUME TypeOK, NEW k \in Savers, NEW v \in Values, Takes(k, v)
    PROVE  /\ saver[k] = Idle
           /\ saver' \in [Savers -> SaveType]
           /\ saver'[k].pc = "taken" /\ saver'[k].value = v /\ saver'[k].fd = NoFile
           /\ \A l \in Savers : l # k => saver'[l] = saver[l]
           /\ offered' = offered \cup {v} /\ offered' \subseteq Values
           /\ failed' = FALSE /\ crossed' = ~Resting /\ crossed' \in BOOLEAN
           /\ overlapped' = (overlapped \/ ~Resting) /\ overlapped' \in BOOLEAN
<1> DEFINE r == [Idle EXCEPT !.pc = "taken", !.value = v]
<1>1. r \in SaveType /\ r.pc = "taken" /\ r.value = v /\ r.fd = NoFile
  BY IdleType DEF SaveType, Pcs, Idle
<1>2. /\ saver[k] = Idle /\ saver' = [saver EXCEPT ![k] = r]
      /\ offered' = offered \cup {v} /\ failed' = FALSE /\ crossed' = ~Resting
      /\ overlapped' = (overlapped \/ ~Resting)
  BY DEF Takes
<1> HIDE DEF r
<1>3. /\ saver' \in [Savers -> SaveType] /\ saver'[k] = r
      /\ \A l \in Savers : l # k => saver'[l] = saver[l]
  BY <1>1, <1>2, OneSave
<1>4. crossed' \in BOOLEAN /\ overlapped' \in BOOLEAN  BY <1>2 DEF Resting, TypeOK
<1> QED  BY <1>1, <1>2, <1>3, <1>4, Typed

\* An inode is free for the temporary file when it is created: there are two more
\* than saves, and this save has none yet.
LEMMA FreeInode ==
    ASSUME TypeOK, NEW k \in Savers, saver[k].fd = NoFile, tmp = NoFile
    PROVE  Unused # {}
<1> DEFINE f == [l \in Savers |-> IF l = k THEN path ELSE saver[l].fd]
           T == {f[l] : l \in Savers}
<1>1. f \in Surjection(Savers, T)  BY Fun_RangeProperties DEF Surjection, Range
<1>2. IsFiniteSet(T) /\ Cardinality(T) <= Cardinality(Savers)
  BY <1>1, FS_Surjection, StateFileAssumption
<1>3. IsFiniteSet(Inodes) /\ Cardinality(Inodes) = Cardinality(Savers) + 2
  <2>1. 1 \in Int /\ Cardinality(Savers) + 2 \in Int /\ Cardinality(Savers) \in Nat
    BY SaverCount
  <2>2. Cardinality(1 .. (Cardinality(Savers) + 2)) = Cardinality(Savers) + 2
    BY <2>1, FS_Interval
  <2>3. IsFiniteSet(1 .. (Cardinality(Savers) + 2))  BY <2>1, FS_Interval
  <2> QED  BY <2>2, <2>3, SaverCount
<1>4. ~(Inodes \subseteq T)
  <2> SUFFICES ASSUME Inodes \subseteq T PROVE FALSE  OBVIOUS
  <2>1. Cardinality(Inodes) <= Cardinality(T)  BY <1>2, FS_Subset
  <2>2. Cardinality(T) \in Nat /\ Cardinality(Savers) \in Nat
    BY <1>2, FS_CardinalityType, SaverCount
  <2> QED  BY <1>2, <1>3, <2>1, <2>2
<1>5. PICK i \in Inodes : i \notin T  BY <1>4
<1>6. i # NoFile /\ i # path /\ i # tmp
  <2>1. f[k] = path  OBVIOUS
  <2> QED  BY <1>5, <2>1, NoFileIsNone
<1>7. \A l \in Savers : saver[l].fd # i
  <2> TAKE l \in Savers
  <2>1. CASE l = k  BY <1>6, <2>1
  <2>2. CASE l # k
    <3>1. f[l] = saver[l].fd  BY <2>2
    <3> QED  BY <1>5, <3>1
  <2> QED  BY <2>1, <2>2
<1> QED  BY <1>5, <1>6, <1>7 DEF Unused

LEMMA OverType ==
    ASSUME TypeOK, NEW k \in Savers, NEW o \in {"up", "down"}, Over(k, o)
    PROVE  /\ saver' \in [Savers -> SaveType] /\ saver'[k] = Idle
           /\ \A l \in Savers : l # k => saver'[l] = saver[l]
           /\ daemon' \in Lives
           /\ daemon' = IF daemon = "starting" THEN o ELSE daemon
<1>1. saver' = [saver EXCEPT ![k] = Idle]  BY DEF Over
<1> QED  BY <1>1, IdleType, OneSave, Typed DEF Over, Lives

LEMMA LoadedType ==
    ASSUME TypeOK, Found \notin Broken
    PROVE  Loaded \in Values
BY Numbers DEF TypeOK, Loaded, Found

-------------------------------------------------------------------------------
(* Saves and files *)

\* How far each save is; what an inode holds was handed over.
SaveInv ==
    /\ \A k \in Savers :
         /\ saver[k].pc = "idle" => saver[k] = Idle
         /\ saver[k].pc = "taken" => saver[k].fd = NoFile
         /\ saver[k].pc \in {"created", "written"} => saver[k].fd \in Inodes
         /\ saver[k].pc # "idle" => saver[k].value \in offered
    /\ \A i \in Inodes : data[i] \in offered \cup Broken
    /\ path # NoFile => path # tmp

Lone == \A k, l \in Savers : saver[k].pc # "idle" /\ saver[l].pc # "idle" => k = l

\* A save that began alone has the temporary file for itself.
TmpInv ==
    ~crossed =>
      /\ Lone
      /\ \A k \in Savers :
           /\ saver[k].pc \in {"created", "written"} => tmp # NoFile /\ saver[k].fd = tmp
           /\ saver[k].pc = "created" => data[tmp] = Empty
           /\ saver[k].pc = "written" => data[tmp] = saver[k].value

\* A daemon that is down saves nothing, and one that starts has one save.
DownInv ==
    /\ daemon = "down" => Resting
    /\ daemon = "starting" => ~crossed

Inv == TypeOK /\ SaveInv /\ TmpInv /\ DownInv

LEMMA InitInv == Init => Inv
<1> SUFFICES ASSUME Init PROVE Inv  OBVIOUS
<1> QED
  BY InitType, IdleType DEF Init, Inv, SaveInv, TmpInv, DownInv, Lone, Resting, Broken

\* A save that has ended leaves nothing behind.
LEMMA RestingLone ==
    ASSUME Inv, NEW k \in Savers, ~crossed, saver[k].pc # "idle", saver'[k] = Idle,
           \A l \in Savers : l # k => saver'[l] = saver[l]
    PROVE  Resting'
BY DEF Inv, SaveInv, TmpInv, Lone, Resting

LEMMA TakeStateInv == ASSUME Inv, NEW k \in Savers, TakeState(k) PROVE Inv'
<1>1. /\ TypeOK /\ value \in Values /\ Takes(k, value)
      /\ UNCHANGED <<daemon, value, changes, files, due, bounds>>
      /\ daemon \in {"up", "stopping"} /\ dirty' = FALSE
  BY DEF TakeState, Inv, TypeOK
<1>2. /\ saver[k] = Idle
      /\ saver' \in [Savers -> SaveType]
      /\ saver'[k].pc = "taken" /\ saver'[k].value = value /\ saver'[k].fd = NoFile
      /\ \A l \in Savers : l # k => saver'[l] = saver[l]
      /\ offered' = offered \cup {value} /\ offered' \subseteq Values
      /\ failed' = FALSE /\ crossed' = ~Resting /\ crossed' \in BOOLEAN
      /\ overlapped' = (overlapped \/ ~Resting) /\ overlapped' \in BOOLEAN
  BY <1>1, TakesType
<1>3. TypeOK'  BY <1>1, <1>2 DEF TypeOK, SaveType, Pcs, files, bounds
<1>4. SaveInv'  BY <1>1, <1>2 DEF Inv, SaveInv, files
<1>5. TmpInv'  BY <1>1, <1>2, IdleType DEF TmpInv, Lone, Resting, files
<1> QED  BY <1>1, <1>3, <1>4, <1>5 DEF Inv, DownInv

LEMMA StartInv == ASSUME Inv, Start PROVE Inv'
<1>1. PICK k \in Savers : Takes(k, value')  BY DEF Start
<1>2. /\ TypeOK /\ value' \in Values /\ value' = Loaded
      /\ UNCHANGED <<changes, files, due, bounds>>
      /\ daemon = "down" /\ daemon' = "starting" /\ dirty' = FALSE /\ Resting
  BY LoadedType DEF Start, Inv, DownInv
<1>3. /\ saver[k] = Idle
      /\ saver' \in [Savers -> SaveType]
      /\ saver'[k].pc = "taken" /\ saver'[k].value = value' /\ saver'[k].fd = NoFile
      /\ \A l \in Savers : l # k => saver'[l] = saver[l]
      /\ offered' = offered \cup {value'} /\ offered' \subseteq Values
      /\ failed' = FALSE /\ crossed' = ~Resting /\ crossed' \in BOOLEAN
      /\ overlapped' = (overlapped \/ ~Resting) /\ overlapped' \in BOOLEAN
  BY <1>1, <1>2, TakesType
<1>4. TypeOK'  BY <1>2, <1>3 DEF TypeOK, SaveType, Pcs, files, bounds
<1>5. SaveInv'  BY <1>2, <1>3 DEF Inv, SaveInv, files
<1>6. TmpInv'  BY <1>2, <1>3, IdleType DEF TmpInv, Lone, Resting, files
<1> QED  BY <1>2, <1>3, <1>4, <1>5, <1>6 DEF Inv, DownInv

LEMMA CreateTmpStep ==
    ASSUME Inv, NEW k \in Savers, CreateTmp(k)
    PROVE  /\ saver[k].pc = "taken"
           /\ tmp' \in Inodes /\ tmp' # path /\ (tmp # NoFile => tmp' = tmp)
           /\ data' = [data EXCEPT ![tmp'] = Empty]
           /\ saver' \in [Savers -> SaveType]
           /\ saver'[k].pc = "created" /\ saver'[k].fd = tmp'
           /\ saver'[k].value = saver[k].value
           /\ \A l \in Savers : l # k => saver'[l] = saver[l]
           /\ UNCHANGED <<daemon, value, dirty, changes, path, history, due, bounds>>
<1> DEFINE i == IF tmp # NoFile THEN tmp ELSE CHOOSE j \in Unused : TRUE
<1>1. /\ saver[k].pc = "taken" /\ tmp' = i /\ data' = [data EXCEPT ![i] = Empty]
      /\ saver' = [saver EXCEPT ![k].pc = "created", ![k].fd = i]
      /\ UNCHANGED <<daemon, value, dirty, changes, path, history, due, bounds>>
  BY DEF CreateTmp
<1>2. i \in Inodes /\ i # path
  <2>1. CASE tmp # NoFile
    <3>1. tmp # path
      <4>1. CASE path = NoFile  BY <2>1, <4>1
      <4>2. CASE path # NoFile  BY <4>2 DEF Inv, SaveInv
      <4> QED  BY <4>1, <4>2
    <3> QED  BY <2>1, <3>1 DEF TypeOK, Inv
  <2>2. CASE tmp = NoFile
    <3>1. saver[k].fd = NoFile  BY <1>1 DEF Inv, SaveInv
    <3>2. i \in Unused  BY <2>2, <3>1, FreeInode DEF Inv
    <3> QED  BY <3>2 DEF Unused
  <2> QED  BY <2>1, <2>2
<1>3. tmp # NoFile => i = tmp  OBVIOUS
<1> HIDE DEF i
<1>4. /\ TypeOK /\ saver \in [Savers -> SaveType] /\ saver[k] \in SaveType
  BY Typed DEF Inv
<1> DEFINE r == [saver[k] EXCEPT !.pc = "created", !.fd = i]
<1>5. /\ r \in SaveType /\ r.pc = "created" /\ r.fd = i /\ r.value = saver[k].value
  BY <1>2, <1>4 DEF SaveType, Pcs
<1>6. saver' = [saver EXCEPT ![k] = r]  BY <1>1, <1>4
<1> HIDE DEF r
<1>7. /\ saver' \in [Savers -> SaveType] /\ saver'[k] = r
      /\ \A l \in Savers : l # k => saver'[l] = saver[l]
  BY <1>4, <1>5, <1>6, OneSave
<1> QED  BY <1>1, <1>2, <1>3, <1>5, <1>7

LEMMA CreateTmpInv == ASSUME Inv, NEW k \in Savers, CreateTmp(k) PROVE Inv'
<1>1. /\ saver[k].pc = "taken"
      /\ tmp' \in Inodes /\ tmp' # path /\ (tmp # NoFile => tmp' = tmp)
      /\ data' = [data EXCEPT ![tmp'] = Empty]
      /\ saver' \in [Savers -> SaveType]
      /\ saver'[k].pc = "created" /\ saver'[k].fd = tmp'
      /\ saver'[k].value = saver[k].value
      /\ \A l \in Savers : l # k => saver'[l] = saver[l]
      /\ UNCHANGED <<daemon, value, dirty, changes, path, history, due, bounds>>
  BY CreateTmpStep
<1>2. /\ data' \in [Inodes -> Values \cup Broken] /\ data'[tmp'] = Empty
      /\ \A n \in Inodes : n # tmp' => data'[n] = data[n]
  BY <1>1, Typed DEF Inv, Broken
<1>3. TypeOK'  BY <1>1, <1>2 DEF Inv, TypeOK, SaveType, Pcs, history, bounds
<1>4. SaveInv'  BY <1>1, <1>2, NoFileIsNone DEF Inv, SaveInv, history, Broken
<1>5. TmpInv'
  <2> SUFFICES ASSUME ~crossed' PROVE TmpInv'  BY DEF TmpInv
  <2>1. ~crossed /\ Lone  BY <1>1 DEF history, Inv, TmpInv
  <2>2. Lone'  BY <1>1, <2>1 DEF Lone
  <2>3. \A l \in Savers : l # k => saver'[l].pc = "idle"
    BY <1>1, <2>1 DEF Lone
  <2> QED  BY <1>1, <1>2, <2>2, <2>3, NoFileIsNone DEF TmpInv
<1>6. DownInv'
  <2>1. daemon # "down"  BY <1>1, IdleType DEF Inv, DownInv, Resting
  <2> QED  BY <1>1, <2>1 DEF Inv, DownInv, history
<1> QED  BY <1>3, <1>4, <1>5, <1>6 DEF Inv

LEMMA WriteTmpStep ==
    ASSUME Inv, NEW k \in Savers, WriteTmp(k)
    PROVE  /\ saver[k].pc = "created" /\ saver[k].fd \in Inodes
           /\ \E c \in {saver[k].value, Torn} : data' = [data EXCEPT ![saver[k].fd] = c]
           /\ data[saver[k].fd] = Empty =>
                data' = [data EXCEPT ![saver[k].fd] = saver[k].value]
           /\ saver' \in [Savers -> SaveType]
           /\ saver'[k].pc = "written" /\ saver'[k].fd = saver[k].fd
           /\ saver'[k].value = saver[k].value
           /\ \A l \in Savers : l # k => saver'[l] = saver[l]
           /\ UNCHANGED <<daemon, value, dirty, changes, path, tmp, history, due, bounds>>
<1>1. /\ saver[k].pc = "created" /\ saver' = [saver EXCEPT ![k].pc = "written"]
      /\ UNCHANGED <<daemon, value, dirty, changes, path, tmp, history, due, bounds>>
  BY DEF WriteTmp
<1>2. saver[k].fd \in Inodes  BY <1>1 DEF Inv, SaveInv
<1>3. saver \in [Savers -> SaveType] /\ saver[k] \in SaveType /\ TypeOK
  BY Typed DEF Inv
<1> DEFINE r == [saver[k] EXCEPT !.pc = "written"]
<1>4. r \in SaveType /\ r.pc = "written" /\ r.fd = saver[k].fd /\ r.value = saver[k].value
  BY <1>3 DEF SaveType, Pcs
<1>5. saver' = [saver EXCEPT ![k] = r]  BY <1>1, <1>3
<1> HIDE DEF r
<1>6. /\ saver' \in [Savers -> SaveType] /\ saver'[k] = r
      /\ \A l \in Savers : l # k => saver'[l] = saver[l]
  BY <1>3, <1>4, <1>5, OneSave
<1>7. \E c \in {saver[k].value, Torn} : data' = [data EXCEPT ![saver[k].fd] = c]
  BY DEF WriteTmp
<1>8. data[saver[k].fd] = Empty => data' = [data EXCEPT ![saver[k].fd] = saver[k].value]
  BY DEF WriteTmp
<1> QED  BY <1>1, <1>2, <1>4, <1>6, <1>7, <1>8

LEMMA WriteTmpInv == ASSUME Inv, NEW k \in Savers, WriteTmp(k) PROVE Inv'
<1>1. /\ saver[k].pc = "created" /\ saver[k].fd \in Inodes
      /\ data[saver[k].fd] = Empty =>
           data' = [data EXCEPT ![saver[k].fd] = saver[k].value]
      /\ saver' \in [Savers -> SaveType]
      /\ saver'[k].pc = "written" /\ saver'[k].fd = saver[k].fd
      /\ saver'[k].value = saver[k].value
      /\ \A l \in Savers : l # k => saver'[l] = saver[l]
      /\ UNCHANGED <<daemon, value, dirty, changes, path, tmp, history, due, bounds>>
  BY WriteTmpStep
<1>2. PICK c \in {saver[k].value, Torn} : data' = [data EXCEPT ![saver[k].fd] = c]
  BY WriteTmpStep
<1>3. saver[k].value \in offered  BY <1>1 DEF Inv, SaveInv
<1>4. /\ data' \in [Inodes -> Values \cup Broken] /\ data'[saver[k].fd] = c
      /\ \A n \in Inodes : n # saver[k].fd => data'[n] = data[n]
  BY <1>1, <1>2, <1>3, Typed DEF Inv, Broken
<1>5. TypeOK'  BY <1>1, <1>4 DEF Inv, TypeOK, SaveType, Pcs, history, bounds
<1>6. SaveInv'  BY <1>1, <1>3, <1>4 DEF Inv, SaveInv, history, Broken
<1>7. TmpInv'
  <2> SUFFICES ASSUME ~crossed' PROVE TmpInv'  BY DEF TmpInv
  <2>1. /\ ~crossed /\ Lone /\ tmp # NoFile /\ saver[k].fd = tmp /\ data[tmp] = Empty
    BY <1>1 DEF history, Inv, TmpInv
  <2>2. data'[tmp] = saver[k].value  BY <1>1, <2>1, Typed DEF Inv
  <2>3. Lone'  BY <1>1, <2>1 DEF Lone
  <2>4. \A l \in Savers : l # k => saver'[l].pc = "idle"  BY <1>1, <2>1 DEF Lone
  <2> QED  BY <1>1, <2>1, <2>2, <2>3, <2>4 DEF TmpInv
<1>8. DownInv'
  <2>1. daemon # "down"  BY <1>1, IdleType DEF Inv, DownInv, Resting
  <2> QED  BY <1>1, <2>1 DEF Inv, DownInv, history
<1> QED  BY <1>5, <1>6, <1>7, <1>8 DEF Inv

LEMMA RenameTmpStep ==
    ASSUME Inv, NEW k \in Savers, RenameTmp(k)
    PROVE  /\ saver[k].pc = "written"
           /\ saver' \in [Savers -> SaveType] /\ saver'[k] = Idle
           /\ \A l \in Savers : l # k => saver'[l] = saver[l]
           /\ daemon' \in Lives /\ failed' \in BOOLEAN
           /\ tmp # NoFile => /\ path' = tmp /\ tmp' = NoFile /\ failed' = failed
                              /\ daemon' = IF daemon = "starting" THEN "up" ELSE daemon
           /\ tmp = NoFile => /\ path' = path /\ tmp' = tmp /\ failed' = TRUE
                              /\ daemon' = IF daemon = "starting" THEN "down" ELSE daemon
           /\ UNCHANGED <<value, dirty, changes, data, crossed, overlapped, offered, due, bounds>>
<1>1. saver[k].pc = "written" /\ TypeOK /\ failed \in BOOLEAN
  BY DEF RenameTmp, ReadyToRename, Inv, TypeOK
<1>2. UNCHANGED <<value, dirty, changes, data, crossed, overlapped, offered, due, bounds>>
  BY DEF RenameTmp, MarkAfterSave
<1>3. CASE tmp # NoFile
  <2>1. path' = tmp /\ tmp' = NoFile /\ Over(k, "up") /\ failed' = failed
    BY <1>3 DEF RenameTmp
  <2> QED  BY <1>1, <1>2, <1>3, <2>1, OverType
<1>4. CASE tmp = NoFile
  <2>1. path' = path /\ tmp' = tmp /\ Over(k, "down") /\ failed' = TRUE
    BY <1>4 DEF RenameTmp
  <2> QED  BY <1>1, <1>2, <1>4, <2>1, OverType
<1> QED  BY <1>3, <1>4

LEMMA RenameTmpInv == ASSUME Inv, NEW k \in Savers, RenameTmp(k) PROVE Inv'
<1>1. /\ saver[k].pc = "written"
      /\ saver' \in [Savers -> SaveType] /\ saver'[k] = Idle
      /\ \A l \in Savers : l # k => saver'[l] = saver[l]
      /\ daemon' \in Lives /\ failed' \in BOOLEAN
      /\ tmp # NoFile => /\ path' = tmp /\ tmp' = NoFile /\ failed' = failed
                         /\ daemon' = IF daemon = "starting" THEN "up" ELSE daemon
      /\ tmp = NoFile => /\ path' = path /\ tmp' = tmp /\ failed' = TRUE
                         /\ daemon' = IF daemon = "starting" THEN "down" ELSE daemon
      /\ UNCHANGED <<value, dirty, changes, data, crossed, overlapped, offered, due, bounds>>
  BY RenameTmpStep
<1>2. TypeOK'
  <2>1. path' \in Inodes \cup {NoFile} /\ tmp' \in Inodes \cup {NoFile}
    BY <1>1 DEF Inv, TypeOK
  <2> QED  BY <1>1, <2>1 DEF Inv, TypeOK, SaveType, Pcs, bounds, Lives
<1>3. SaveInv'
  <2>1. path' # NoFile => path' # tmp'  BY <1>1 DEF Inv, SaveInv
  <2> QED  BY <1>1, <2>1, IdleType DEF Inv, SaveInv
<1>4. ~crossed => Resting'  BY <1>1, RestingLone
<1>5. TmpInv'
  <2> SUFFICES ASSUME ~crossed' PROVE TmpInv'  BY DEF TmpInv
  <2>1. Resting'  BY <1>1, <1>4
  <2> QED  BY <2>1, IdleType DEF Resting, TmpInv, Lone
<1>6. DownInv'
  <2>1. daemon # "down"  BY <1>1, IdleType DEF Inv, DownInv, Resting
  <2>2. daemon = "starting" => Resting'  BY <1>4 DEF Inv, DownInv
  <2> QED  BY <1>1, <2>1, <2>2 DEF DownInv
<1> QED  BY <1>2, <1>3, <1>5, <1>6 DEF Inv

LEMMA SaveFailsInv == ASSUME Inv, NEW k \in Savers, SaveFails(k) PROVE Inv'
<1>1. /\ saver[k].pc # "idle" /\ Over(k, "down") /\ failed' = TRUE
      /\ faults < MaxFaults /\ faults' = faults + 1
      /\ UNCHANGED <<value, dirty, changes, path, tmp, crossed, overlapped, offered, due, ends>>
  BY DEF SaveFails
<1>2. /\ saver' \in [Savers -> SaveType] /\ saver'[k] = Idle
      /\ \A l \in Savers : l # k => saver'[l] = saver[l]
      /\ daemon' \in Lives
      /\ daemon' = IF daemon = "starting" THEN "down" ELSE daemon
  BY <1>1, OverType DEF Inv
<1>3. /\ data' \in [Inodes -> Values \cup Broken]
      /\ \A i \in Inodes : data'[i] \in {data[i], Torn}
  <2>1. CASE data' = data  BY <2>1, Typed DEF Inv
  <2>2. CASE saver[k].pc = "created" /\ data' = [data EXCEPT ![saver[k].fd] = Torn]
    <3>1. saver[k].fd \in Inodes  BY <2>2 DEF Inv, SaveInv
    <3> QED  BY <2>2, <3>1, Typed DEF Inv, Broken
  <2> QED  BY <2>1, <2>2 DEF SaveFails
<1>4. faults' \in 0 .. MaxFaults  BY <1>1, Numbers DEF Inv, TypeOK
<1>5. TypeOK'
  BY <1>1, <1>2, <1>3, <1>4 DEF Inv, TypeOK, SaveType, Pcs, Lives
<1>6. SaveInv'  BY <1>1, <1>2, <1>3, IdleType DEF Inv, SaveInv, Broken
<1>7. ~crossed => Resting'  BY <1>1, <1>2, RestingLone
<1>8. TmpInv'
  <2> SUFFICES ASSUME ~crossed' PROVE TmpInv'  BY DEF TmpInv
  <2>1. Resting'  BY <1>1, <1>7
  <2> QED  BY <2>1, IdleType DEF Resting, TmpInv, Lone
<1>9. DownInv'
  <2>1. daemon # "down"  BY <1>1, IdleType DEF Inv, DownInv, Resting
  <2>2. daemon = "starting" => Resting'  BY <1>7 DEF Inv, DownInv
  <2> QED  BY <1>1, <1>2, <2>1, <2>2 DEF DownInv
<1> QED  BY <1>5, <1>6, <1>8, <1>9 DEF Inv

\* The steps of the engine and of the process change no file and begin no save.
LEMMA ProcessInv ==
    ASSUME Inv, Change \/ Stop \/ Stopped \/ Crash
    PROVE  Inv'
<1>1. UNCHANGED <<files, history>>
  BY DEF Change, Stop, Stopped, Crash
<1>2. CASE Change
  <2>1. changes' \in Values /\ value' \in Values
    <3>1. changes \in 0 .. MaxChanges /\ changes < MaxChanges /\ MaxChanges \in Nat
      BY <1>2, StateFileAssumption DEF Change, Inv, TypeOK, Values
    <3> QED  BY <1>2, <3>1 DEF Change, Values
  <2>2. TypeOK'
    BY <1>2, <2>1 DEF Inv, Change, TypeOK, SaveType, Pcs, files, history, bounds
  <2> QED
    BY <1>2, <2>2
    DEF Change, Inv, SaveInv, TmpInv, DownInv, Lone, Resting, files, history
<1>3. CASE Stop
  <2>1. ends' \in 0 .. MaxEnds  BY <1>3, Numbers DEF Inv, Stop, TypeOK
  <2>2. TypeOK'
    BY <1>3, <2>1 DEF Inv, Stop, TypeOK, SaveType, Pcs, files, history
  <2> QED
    BY <1>3, <2>2
    DEF Stop, Inv, SaveInv, TmpInv, DownInv, Lone, Resting, files, history
<1>4. CASE Stopped
  <2>1. TypeOK'
    BY <1>4 DEF Inv, Stopped, TypeOK, SaveType, Pcs, files, history, bounds
  <2> QED
    BY <1>4, <2>1
    DEF Stopped, Inv, SaveInv, TmpInv, DownInv, Lone, Resting, files, history
<1>5. CASE Crash
  <2>1. ends' \in 0 .. MaxEnds  BY <1>5, Numbers DEF Inv, Crash, TypeOK
  <2>2. saver' \in [Savers -> SaveType] /\ \A k \in Savers : saver'[k] = Idle
    BY <1>5, IdleType DEF Crash
  <2>3. TypeOK'
    BY <1>5, <2>1, <2>2 DEF Inv, Crash, TypeOK, SaveType, Pcs, files, history
  <2> QED
    BY <1>5, <2>2, <2>3, IdleType
    DEF Crash, Inv, SaveInv, TmpInv, DownInv, Lone, Resting, files, history
<1> QED  BY <1>2, <1>3, <1>4, <1>5

LEMMA StutterInv == ASSUME Inv, UNCHANGED vars PROVE Inv'
BY DEF vars, Inv, TypeOK, SaveInv, TmpInv, DownInv, Lone, Resting

LEMMA NextInv == Inv /\ [Next]_vars => Inv'
<1> SUFFICES ASSUME Inv, [Next]_vars PROVE Inv'  OBVIOUS
<1>1. CASE \E k \in Savers : TakeState(k) \/ Save(k) \/ SaveFails(k)
  BY <1>1, TakeStateInv, CreateTmpInv, WriteTmpInv, RenameTmpInv, SaveFailsInv DEF Save
<1> QED  BY <1>1, StartInv, ProcessInv, StutterInv DEF Next

\* Every reachable state of the process, the saves and the files is well typed.
THEOREM TypeCorrect == Spec => []TypeOK
<1>1. Inv => TypeOK  BY DEF Inv
<1> QED  BY <1>1, NextInv, InitInv, PTL DEF Spec

-------------------------------------------------------------------------------
(* As long as no two saves have overlapped *)

\* What a reader finds is no part of a state.
Whole == ~overlapped => ~crossed /\ (path # NoFile => data[path] \in offered)

LEMMA WholeFound ==
    ASSUME Inv, Whole, ~overlapped
    PROVE  Found \in offered \cup {NoFile}
BY DEF Whole, Found

\* How a step changes what a reader finds and what has been handed over.
Offers(v)  == offered' = offered \cup {v} /\ Found' = Found
Replaces   == Found' \in offered /\ offered' = offered
Stutters   == Found' = Found /\ offered' = offered

\* A state is handed over: either a save is under way, or nothing else changes.
LEMMA TakesWhole ==
    ASSUME Inv, Whole, NEW k \in Savers, NEW v \in Values, Takes(k, v), UNCHANGED files,
           ~overlapped'
    PROVE  Whole' /\ Offers(v) /\ ~overlapped
<1>1. /\ overlapped' = (overlapped \/ ~Resting) /\ crossed' = ~Resting
      /\ offered' = offered \cup {v}
  BY TakesType DEF Inv
<1> QED  BY <1>1 DEF Whole, Offers, Found, files

LEMMA FoundSteps ==
    ASSUME Inv, Whole, [Next]_vars, ~overlapped'
    PROVE  /\ Whole' /\ ~overlapped
           /\ (\E v \in Values : Offers(v)) \/ Replaces \/ Stutters
<1>0. /\ TypeOK /\ data \in [Inodes -> Values \cup Broken]
      /\ NoFile \notin Inodes /\ path \in Inodes \cup {NoFile}
      /\ value \in Values
  BY NoFileIsNone DEF Inv, TypeOK
<1>1. ASSUME NEW k \in Savers, TakeState(k)
      PROVE  Whole' /\ ~overlapped /\ Offers(value)
  <2>1. Takes(k, value) /\ UNCHANGED files  BY <1>1 DEF TakeState
  <2> QED  BY <1>0, <2>1, TakesWhole
<1>2. ASSUME NEW k \in Savers, CreateTmp(k)  PROVE Whole' /\ ~overlapped /\ Stutters
  <2>1. /\ tmp' \in Inodes /\ tmp' # path /\ data' = [data EXCEPT ![tmp'] = Empty]
        /\ path' = path /\ UNCHANGED history
    BY <1>2, CreateTmpStep
  <2>2. path # NoFile => data'[path] = data[path]  BY <1>0, <2>1
  <2> QED  BY <2>1, <2>2 DEF Found, Whole, history, Stutters
<1>3. ASSUME NEW k \in Savers, WriteTmp(k)  PROVE Whole' /\ ~overlapped /\ Stutters
  <2>1. path' = path /\ UNCHANGED history /\ saver[k].pc = "created"
    BY <1>3 DEF WriteTmp
  <2>2. ~overlapped /\ ~crossed  BY <2>1 DEF Whole, history
  <2>3. saver[k].fd = tmp /\ tmp # NoFile /\ tmp \in Inodes
    BY <2>1, <2>2 DEF Inv, TmpInv, TypeOK
  <2>4. \E c : data' = [data EXCEPT ![tmp] = c]  BY <1>3, <2>3, WriteTmpStep
  <2>5. path # NoFile => data'[path] = data[path]
    BY <1>0, <2>3, <2>4 DEF Inv, SaveInv
  <2> QED  BY <2>1, <2>2, <2>5 DEF Found, Whole, history, Stutters
<1>4. ASSUME NEW k \in Savers, RenameTmp(k)  PROVE Whole' /\ ~overlapped /\ Replaces
  <2>1. saver[k].pc = "written" /\ UNCHANGED <<data, crossed, overlapped, offered>>
    BY <1>4, RenameTmpStep
  <2>2. ~overlapped /\ ~crossed  BY <2>1 DEF Whole
  <2>3. tmp # NoFile /\ data[tmp] = saver[k].value /\ saver[k].value \in offered
    BY <2>1, <2>2 DEF Inv, SaveInv, TmpInv
  <2>4. path' = tmp  BY <1>4, <2>3, RenameTmpStep
  <2> QED  BY <2>1, <2>2, <2>3, <2>4 DEF Found, Whole, Replaces
<1>5. ASSUME NEW k \in Savers, SaveFails(k)  PROVE Whole' /\ ~overlapped /\ Stutters
  <2>1. path' = path /\ UNCHANGED <<crossed, overlapped, offered>>
    BY <1>5 DEF SaveFails
  <2>2. ~overlapped /\ ~crossed  BY <2>1 DEF Whole
  <2>3. CASE data' = data  BY <2>1, <2>2, <2>3 DEF Found, Whole, Stutters
  <2>4. CASE saver[k].pc = "created" /\ data' = [data EXCEPT ![saver[k].fd] = Torn]
    <3>1. saver[k].fd = tmp  BY <2>2, <2>4 DEF Inv, TmpInv
    <3>2. path # NoFile => data'[path] = data[path]
      BY <1>0, <2>4, <3>1 DEF Inv, SaveInv
    <3> QED  BY <2>1, <2>2, <3>2 DEF Found, Whole, Stutters
  <2> QED  BY <1>5, <2>3, <2>4 DEF SaveFails
<1>6. CASE Start
  <2>1. PICK k \in Savers : Takes(k, value')  BY <1>6 DEF Start
  <2>2. value' \in Values /\ UNCHANGED files
    BY <1>0, <1>6, LoadedType DEF Start
  <2>3. Whole' /\ ~overlapped /\ Offers(value')  BY <2>1, <2>2, TakesWhole
  <2> QED  BY <2>2, <2>3
<1>7. CASE Change \/ Stop \/ Stopped \/ Crash \/ UNCHANGED vars
  BY <1>7
  DEF Change, Stop, Stopped, Crash, vars, files, history, Found, Whole, Stutters
<1> QED  BY <1>0, <1>1, <1>2, <1>3, <1>4, <1>5, <1>6, <1>7 DEF Next, Save

LEMMA InitWhole == Init => Whole
BY DEF Init, Whole

LEMMA NextWhole == Inv /\ Whole /\ [Next]_vars => Whole'
<1>1. ~Whole' => ~overlapped'  BY DEF Whole
<1> QED  BY <1>1, FoundSteps

\* Whoever reads state.json finds a whole state, whatever failed before and wherever
\* the daemon was killed, as long as no two saves have overlapped.
THEOREM FileAlwaysWhole == Spec => [](~overlapped => FileIsWhole)
<1>1. Inv /\ Whole => (~overlapped => FileIsWhole)
  BY WholeFound, Typed, Numbers DEF FileIsWhole, Inv
<1> QED  BY <1>1, NextWhole, NextInv, InitInv, InitWhole, PTL DEF Spec

\* As long as no two saves have overlapped, state.json is what AtomicFile says: it holds
\* one of the states that were handed over to be saved, and changes from one to another
\* at once.
THEOREM AtomicWrites == Spec => WritesAreAtomic
<1>1. Init => File!Init  BY DEF Init, File!Init, Found
<1>2. Inv /\ Whole /\ [Next]_vars => [File!Next]_<<Found, offered, overlapped>>
  <2> SUFFICES ASSUME Inv, Whole, [Next]_vars, ~overlapped'
               PROVE  [File!Next]_<<Found, offered, overlapped>>
    BY DEF File!Next, File!Overlap
  <2>1. /\ ~overlapped
        /\ (\E v \in Values : Offers(v)) \/ Replaces \/ Stutters
    BY FoundSteps
  <2>2. overlapped' = overlapped
    <3>1. overlapped \in BOOLEAN /\ overlapped' \in BOOLEAN
      BY NextInv DEF Inv, TypeOK
    <3> QED  BY <2>1, <3>1
  <2> QED
    BY <2>1, <2>2 DEF File!Next, File!Offer, File!Replace, Offers, Replaces, Stutters
<1> QED
  BY <1>1, <1>2, NextWhole, NextInv, InitInv, InitWhole, PTL
  DEF Spec, WritesAreAtomic, File!Spec

-------------------------------------------------------------------------------
(* What is not dirty is saved *)

\* v is on disk, or everything that is being saved is v.
Latest(v) == IF Resting THEN Found = v
             ELSE \A k \in Savers : saver[k].pc # "idle" => saver[k].value = v

\* A dirty state was never taken; one that is not dirty is on disk or on the way
\* there, unless its save failed or crossed another one.
CleanInv ==
    /\ offered \subseteq 0 .. changes /\ value <= changes
    /\ dirty => value = changes /\ value \notin offered
    /\ daemon # "down" /\ ~failed /\ ~crossed /\ ~dirty => Latest(value)

\* While the daemon is being stopped, a state that is being saved or was saved last
\* is the one it had then, or a newer one.
DueInv ==
    daemon = "stopping" =>
      /\ due <= value
      /\ due \in offered /\ ~failed /\ ~crossed =>
           IF Resting THEN Found \in due .. MaxChanges
           ELSE \A k \in Savers : saver[k].pc # "idle" => saver[k].value >= due
LifeInv == CleanInv /\ DueInv

LEMMA InitLife == Init => LifeInv
<1> SUFFICES ASSUME Init PROVE LifeInv  OBVIOUS
<1> QED  BY StateFileAssumption DEF Init, LifeInv, CleanInv, DueInv

\* The numbers in the state.
LEMMA Counts ==
    ASSUME Inv
    PROVE  /\ Values \subseteq Nat /\ value \in Values /\ changes \in Values
           /\ due \in Values /\ offered \subseteq Values /\ MaxChanges \in Nat
           /\ \A v \in Values : v <= MaxChanges
           /\ \A k \in Savers : saver[k].value \in Values
<1>1. \A k \in Savers : saver[k] \in SaveType  BY Typed DEF Inv
<1> QED  BY <1>1, StateFileAssumption DEF Inv, TypeOK, SaveType, Values

\* A step of a save that neither ends it nor changes what it saves.
LEMMA SaveGoesOn ==
    ASSUME LifeInv, NEW k \in Savers, saver[k].pc # "idle",
           saver'[k].pc # "idle", saver'[k].value = saver[k].value,
           \A l \in Savers : l # k => saver'[l] = saver[l],
           UNCHANGED <<daemon, value, dirty, changes, history, due>>
    PROVE  LifeInv'
<1>1. ~Resting /\ ~Resting'  BY IdleType DEF Resting
<1>2. \A l \in Savers : /\ saver'[l].value = saver[l].value
                        /\ saver'[l].pc # "idle" => saver[l].pc # "idle"
  OBVIOUS
<1> QED  BY <1>1, <1>2 DEF LifeInv, CleanInv, DueInv, Latest, history

LEMMA TakeStateLife == ASSUME Inv, LifeInv, NEW k \in Savers, TakeState(k) PROVE LifeInv'
<1>1. /\ daemon \in {"up", "stopping"} /\ dirty /\ dirty' = FALSE
      /\ UNCHANGED <<daemon, value, changes, due>> /\ Takes(k, value) /\ value \in Values
      /\ TypeOK
  BY DEF TakeState, bounds, Inv, TypeOK
<1>2. /\ saver'[k].pc = "taken" /\ saver'[k].value = value
      /\ \A l \in Savers : l # k => saver'[l] = saver[l]
      /\ offered' = offered \cup {value} /\ crossed' = ~Resting
  BY <1>1, TakesType
<1>3. ~Resting'  BY <1>2, IdleType DEF Resting
<1>4. ~crossed' => \A l \in Savers : saver'[l].pc # "idle" => saver'[l].value = value
  BY <1>2, IdleType DEF Resting
<1>5. CleanInv'
  <2>1. value \in 0 .. changes  BY Counts DEF LifeInv, CleanInv
  <2>2. offered' \subseteq 0 .. changes'  BY <1>1, <1>2, <2>1 DEF LifeInv, CleanInv
  <2>3. ~crossed' => Latest(value)'  BY <1>1, <1>3, <1>4 DEF Latest
  <2> QED  BY <1>1, <2>2, <2>3 DEF LifeInv, CleanInv
<1>6. DueInv'  BY <1>1, <1>3, <1>4, Counts DEF LifeInv, DueInv
<1> QED  BY <1>5, <1>6 DEF LifeInv

LEMMA StartLife == ASSUME Inv, LifeInv, Start PROVE LifeInv'
<1>1. PICK k \in Savers : Takes(k, value')  BY DEF Start
<1>2. /\ TypeOK /\ value' \in Values /\ value' = Loaded /\ Resting /\ dirty' = FALSE
      /\ UNCHANGED <<changes, files, due>> /\ daemon' = "starting" /\ Found \notin Broken
  BY LoadedType DEF Start, Inv, DownInv, bounds
<1>3. /\ saver'[k].pc = "taken" /\ saver'[k].value = value'
      /\ \A l \in Savers : l # k => saver'[l] = saver[l]
      /\ offered' = offered \cup {value'}
  BY <1>1, <1>2, TakesType
<1>4. value' <= changes
  <2>1. CASE Found = NoFile
    <3>1. value' = 0  BY <1>2, <2>1 DEF Loaded
    <3>2. changes \in Nat  BY Counts
    <3> QED  BY <3>1, <3>2
  <2>2. CASE Found # NoFile
    <3>1. path \in Inodes /\ Found = data[path]
      BY <2>2 DEF Found, Inv, TypeOK
    <3>2. Found \in offered  BY <1>2, <3>1 DEF Inv, SaveInv
    <3> QED  BY <1>2, <2>2, <3>2, Counts DEF LifeInv, CleanInv, Loaded
  <2> QED  BY <2>1, <2>2
<1>5. ~Resting' /\ \A l \in Savers : saver'[l].pc # "idle" => saver'[l].value = value'
  BY <1>2, <1>3, IdleType DEF Resting
<1>6. CleanInv'
  <2>1. value' \in 0 .. changes  BY <1>2, <1>4, Counts
  <2>2. offered' \subseteq 0 .. changes'  BY <1>2, <1>3, <2>1 DEF LifeInv, CleanInv
  <2>3. Latest(value)'  BY <1>5 DEF Latest
  <2> QED  BY <1>2, <1>4, <2>2, <2>3 DEF CleanInv
<1> QED  BY <1>2, <1>6 DEF LifeInv, DueInv

LEMMA RenameTmpLife == ASSUME Inv, LifeInv, NEW k \in Savers, RenameTmp(k) PROVE LifeInv'
<1>1. /\ saver[k].pc = "written" /\ saver'[k] = Idle
      /\ \A l \in Savers : l # k => saver'[l] = saver[l]
      /\ tmp # NoFile => path' = tmp
      /\ daemon' = daemon \/ daemon' \in {"up", "down"}
      /\ tmp = NoFile => failed' = TRUE
      /\ tmp # NoFile => failed' = failed
      /\ UNCHANGED <<value, dirty, changes, data, crossed, overlapped, offered, due>>
      /\ daemon' # "down" => daemon # "down"
  <2>1. daemon # "down"  BY RenameTmpStep, IdleType DEF Inv, DownInv, Resting
  <2> QED  BY <2>1, RenameTmpStep, Typed DEF bounds, Inv, Lives
<1>2. CASE crossed \/ failed'
  BY <1>1, <1>2 DEF LifeInv, CleanInv, DueInv
<1>3. CASE ~crossed /\ ~failed'
  <2>1. /\ tmp # NoFile /\ data[tmp] = saver[k].value /\ ~failed
        /\ \A l \in Savers : l # k => saver[l].pc = "idle"
    BY <1>1, <1>3 DEF Inv, TmpInv, Lone
  <2>2. Found' = saver[k].value  BY <1>1, <2>1 DEF Found
  <2>3. Resting' /\ ~Resting
    BY <1>1, <1>3, RestingLone, IdleType DEF Resting
  <2>4. CleanInv'  BY <1>1, <1>3, <2>1, <2>2, <2>3 DEF LifeInv, CleanInv, Latest
  <2>5. DueInv'
    <3>1. saver[k].value >= due => Found' \in due .. MaxChanges
      BY <2>2, Counts
    <3>2. daemon' = "stopping" => daemon = "stopping"  BY <1>1
    <3>3. saver[k].pc # "idle"  BY <1>1
    <3> QED  BY <1>1, <1>3, <2>1, <2>3, <3>1, <3>2, <3>3 DEF LifeInv, DueInv
  <2> QED  BY <2>4, <2>5 DEF LifeInv
<1> QED  BY <1>2, <1>3

LEMMA SaveFailsLife == ASSUME Inv, LifeInv, NEW k \in Savers, SaveFails(k) PROVE LifeInv'
<1>1. /\ failed' = TRUE /\ UNCHANGED <<value, dirty, changes, offered, due>>
      /\ daemon' = "stopping" => daemon = "stopping"
  BY DEF SaveFails, Over
<1> QED  BY <1>1 DEF LifeInv, CleanInv, DueInv

LEMMA ProcessLife ==
    ASSUME Inv, LifeInv, Change \/ Stop \/ Stopped \/ Crash
    PROVE  LifeInv'
<1>1. CASE Change
  <2>1. /\ changes' = changes + 1 /\ value' = changes + 1 /\ dirty' = TRUE
        /\ Found' = Found /\ Resting' = Resting
        /\ UNCHANGED <<daemon, saver, history, due>>
    BY <1>1 DEF Change, files, bounds, Found, Resting
  <2>2. CleanInv'  BY <2>1, Counts DEF LifeInv, CleanInv, history
  <2>3. DueInv'  BY <2>1, Counts DEF LifeInv, CleanInv, DueInv, history
  <2> QED  BY <2>2, <2>3 DEF LifeInv
<1>2. CASE Stop
  <2>1. /\ daemon = "up" /\ daemon' = "stopping" /\ due' = value /\ Found' = Found
        /\ UNCHANGED <<value, dirty, changes, saver, history>> /\ Resting' = Resting
    BY <1>2 DEF Stop, files, Found, Resting
  <2>2. CleanInv'  BY <2>1 DEF LifeInv, CleanInv, Latest, history
  <2>3. DueInv'
    <3>1. value \in offered => ~dirty  BY DEF LifeInv, CleanInv
    <3>2. value \in offered /\ ~failed /\ ~crossed => Latest(value)
      BY <2>1, <3>1 DEF LifeInv, CleanInv
    <3>3. Found = value => Found \in value .. MaxChanges  BY Counts
    <3>4. \A k \in Savers : saver[k].value = value => saver[k].value >= value  BY Counts
    <3>5. value <= value  BY Counts
    <3> QED  BY <2>1, <3>2, <3>3, <3>4, <3>5 DEF DueInv, Latest, history
  <2> QED  BY <2>2, <2>3 DEF LifeInv
<1>3. CASE Stopped \/ Crash
  BY <1>3 DEF Stopped, Crash, history, LifeInv, CleanInv, DueInv
<1> QED  BY <1>1, <1>2, <1>3

LEMMA NextLife == Inv /\ LifeInv /\ [Next]_vars => LifeInv'
<1> SUFFICES ASSUME Inv, LifeInv, [Next]_vars PROVE LifeInv'  OBVIOUS
<1>1. ASSUME NEW k \in Savers, CreateTmp(k)  PROVE LifeInv'
  <2>1. /\ saver[k].pc = "taken" /\ saver'[k].pc = "created"
        /\ saver'[k].value = saver[k].value
        /\ \A l \in Savers : l # k => saver'[l] = saver[l]
        /\ UNCHANGED <<daemon, value, dirty, changes, history, due>>
    BY <1>1, CreateTmpStep
  <2> QED  BY <2>1, SaveGoesOn
<1>2. ASSUME NEW k \in Savers, WriteTmp(k)  PROVE LifeInv'
  <2>1. /\ saver[k].pc = "created" /\ saver'[k].pc = "written"
        /\ saver'[k].value = saver[k].value
        /\ \A l \in Savers : l # k => saver'[l] = saver[l]
        /\ UNCHANGED <<daemon, value, dirty, changes, history, due>>
    BY <1>2, WriteTmpStep
  <2> QED  BY <2>1, SaveGoesOn
<1>3. CASE UNCHANGED vars
  <2>1. Found' = Found /\ Resting' = Resting  BY <1>3 DEF vars, Found, Resting
  <2> QED  BY <1>3, <2>1 DEF vars, LifeInv, CleanInv, DueInv, Latest
<1>4. CASE \E k \in Savers : TakeState(k) \/ Save(k) \/ SaveFails(k)
  BY <1>1, <1>2, <1>4, TakeStateLife, RenameTmpLife, SaveFailsLife DEF Save
<1> QED  BY <1>3, <1>4, StartLife, ProcessLife DEF Next

\* A state that is not marked dirty and not being saved is on disk, unless its save
\* failed or crossed another one: a change during a save is not taken for saved.
THEOREM CleanIsSaved == Spec => []CleanMeansSaved
<1>1. Inv /\ LifeInv => CleanMeansSaved
  BY DEF LifeInv, CleanInv, CleanMeansSaved, Latest
<1> QED  BY <1>1, NextInv, NextLife, InitInv, InitLife, PTL DEF Spec

\* A daemon that was stopped finds what it had then, or newer, when it starts again,
\* unless its last save failed or crossed another one.
THEOREM StopKeeps == Spec => StopKeepsState
<1>1. Inv /\ LifeInv /\ [Next]_vars =>
        [daemon = "stopping" /\ daemon' = "down" /\ ends' = ends /\ ~failed /\ ~crossed
          => Found \in due .. MaxChanges]_vars
  <2> SUFFICES ASSUME Inv, LifeInv, Next, daemon = "stopping", daemon' = "down",
                      ends' = ends, ~failed, ~crossed
               PROVE  Found \in due .. MaxChanges
    OBVIOUS
  <2>1. ends \in Nat  BY StateFileAssumption DEF Inv, TypeOK
  <2>2. Stopped
    BY <2>1
    DEF Next, TakeState, Save, CreateTmp, WriteTmp, RenameTmp, SaveFails, Over, Change,
        Start, Stop, Crash
  <2> QED  BY <2>2 DEF Stopped, FinalPersist, LifeInv, DueInv
<1> QED
  BY <1>1, NextInv, NextLife, InitInv, InitLife, PTL DEF Spec, StopKeepsState
===============================================================================

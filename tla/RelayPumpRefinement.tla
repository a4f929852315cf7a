------------------------- MODULE RelayPumpRefinement -------------------------
(***************************************************************************)
(* The pump implements the safety part of the abstract relay log RelayLog *)
(* under the refinement mapping of RelayPump (log <- RelayedLog, acked <- *)
(* FlushedCount), for every upstream binlog and bound on faults, for the  *)
(* Transformer and Writer of the code.                                    *)
(*                                                                         *)
(* The argument: by PumpInv the relay files hold the first d upstream     *)
(* events split by file, plus at most one torn event; the parser's view   *)
(* of each file is then its share of the first d events, and the files    *)
(* read in order give the events 1..d (lemma FlattenRelayed).  A write    *)
(* raises d by one and leaves the flushed meta alone; a crash adds only   *)
(* bytes the parser drops and a recovery truncates exactly them, so the   *)
(* relay log a reader sees does not change; every other step leaves the   *)
(* files alone and moves the flushed meta forward, never past d.          *)
(***************************************************************************)
EXTENDS RelayPumpProofs, SequenceTheorems

(* The relay log of the first d upstream events.                          *)
FirstEvents(d) == [k \in 1..d |-> k]

(* The first a events followed by the b after them are the first a + b.  *)
LEMMA ConcatFirst ==
    ASSUME NEW a \in Nat, NEW b \in Nat
    PROVE  FirstEvents(a) \o [k \in 1..b |-> a + k] = FirstEvents(a + b)
<1> DEFINE t == [k \in 1..b |-> a + k]
<1> SUFFICES FirstEvents(a) \o t = FirstEvents(a + b)
    OBVIOUS
<1>1. FirstEvents(a) \in Seq(Nat) /\ Len(FirstEvents(a)) = a
    BY DEF FirstEvents
<1>2. t \in Seq(Nat) /\ Len(t) = b
    OBVIOUS
<1>3. /\ FirstEvents(a) \o t \in Seq(Nat)
      /\ Len(FirstEvents(a) \o t) = Len(FirstEvents(a)) + Len(t)
      /\ \A i \in 1..(Len(FirstEvents(a)) + Len(t)) : (FirstEvents(a) \o t)[i] =
             IF i <= Len(FirstEvents(a)) THEN FirstEvents(a)[i]
             ELSE t[i - Len(FirstEvents(a))]
    <2> HIDE DEF t
    <2> QED
        BY <1>1, <1>2, ConcatProperties, Zenon
<1>4. FirstEvents(a + b) \in Seq(Nat) /\ Len(FirstEvents(a + b)) = a + b
    BY DEF FirstEvents
<1>5. \A i \in 1..(a + b) : (FirstEvents(a) \o t)[i] = FirstEvents(a + b)[i]
    BY <1>1, <1>3 DEF FirstEvents
<1>6. QED
    <2>1. Len(FirstEvents(a) \o t) = Len(FirstEvents(a + b))
        BY <1>1, <1>2, <1>3, <1>4
    <2>2. \A i \in 1..Len(FirstEvents(a) \o t) :
              (FirstEvents(a) \o t)[i] = FirstEvents(a + b)[i]
        BY <1>1, <1>2, <1>3, <1>5
    <2> HIDE DEF t
    <2>3. QED
        BY <1>3, <1>4, <2>1, <2>2, SeqEqual, Zenon

(* Files holding nothing but the first d events have no more than the   *)
(* whole binlog before the file after the last one.                       *)
LEMMA BeforeLast ==
    Before(FileOf(Len(Stream) + 1) + 1) = Len(Stream)
<1> DEFINE L == FileOf(Len(Stream) + 1)
<1>1. Len(Stream) \in Nat /\ L \in Nat
    BY StreamAssumption, FileOfNat
<1>7. L + 1 \in Int
    BY <1>1
<1>2. /\ Before(L + 1) \in 0..Len(Stream)
      /\ {j \in Idx : FileOf(j) < L + 1} = 1..Before(L + 1)
    <2> HIDE DEF L
    <2> QED
        BY <1>7, BeforeInterval, Zenon
<1>3. \A j \in Idx : FileOf(j) <= L
    BY <1>1, FileOfMono DEF Idx
<1>4. \A j \in Idx : FileOf(j) \in Nat
    BY <1>1, FileOfNat DEF Idx
<1>5. {j \in Idx : FileOf(j) < L + 1} = Idx
    BY <1>1, <1>3, <1>4
<1>6. QED
    BY <1>1, <1>2, <1>5 DEF Idx


(* How many of the first d events files 1..i hold together.              *)
UptoFile(d, i) == IF d <= Before(i + 1) THEN d ELSE Before(i + 1)

(* Reading files 1..i in order gives the first UptoFile(d, i) events:    *)
(* file 1 holds the first of them, and file i the ones after file i - 1. *)
LEMMA RelayedStep ==
    ASSUME NEW d \in 0..Len(Stream), NEW i \in Nat \ {0}
    PROVE  FirstEvents(UptoFile(d, i)) =
               IF i = 1 THEN Relayed(d, 1)
               ELSE FirstEvents(UptoFile(d, i - 1)) \o Relayed(d, i)
<1>0. Len(Stream) \in Nat /\ i \in Int
    BY StreamAssumption
<1>1. /\ Before(i) \in 0..Len(Stream)
      /\ Before(i + 1) \in 0..Len(Stream)
      /\ Before(i) <= Before(i + 1)
    BY <1>0, BeforeFacts
<1>2. /\ Upto(d, i) \in 0..(Before(i + 1) - Before(i))
      /\ d <= Before(i) => Upto(d, i) = 0
      /\ d >= Before(i + 1) => Upto(d, i) = Before(i + 1) - Before(i)
      /\ Before(i) <= d /\ d <= Before(i + 1) => Upto(d, i) = d - Before(i)
    <2>1. d \in Int
        BY <1>0
    <2>2. QED
        BY <1>0, <2>1, UptoFacts
<1>3. CASE i = 1
    <2>1. Before(1) = 0
        BY BeforeFirst
    <2>2. Upto(d, 1) = UptoFile(d, 1)
        BY <1>0, <1>1, <1>2, <1>3, <2>1 DEF UptoFile
    <2>3. QED
        BY <1>3, <2>1, <2>2 DEF Relayed, FirstEvents
<1>4. CASE i # 1
    <2>0. i - 1 \in Nat /\ (i - 1) + 1 = i
        BY <1>4
    <2>1. CASE d <= Before(i)
        <3>1. UptoFile(d, i - 1) = d /\ UptoFile(d, i) = d
            BY <1>0, <1>1, <2>0, <2>1 DEF UptoFile
        <3>2. Relayed(d, i) = [k \in 1..0 |-> d + k]
            BY <1>2, <2>1 DEF Relayed
        <3>3. FirstEvents(d) \o [k \in 1..0 |-> d + k] = FirstEvents(d + 0)
            BY <1>0, ConcatFirst
        <3>4. QED
            BY <1>0, <1>4, <3>1, <3>2, <3>3
    <2>2. CASE Before(i) < d
        <3>1. UptoFile(d, i - 1) = Before(i)
            BY <1>0, <1>1, <2>0, <2>2 DEF UptoFile
        <3>2. /\ UptoFile(d, i) - Before(i) \in Nat
              /\ Upto(d, i) = UptoFile(d, i) - Before(i)
            BY <1>0, <1>1, <1>2, <2>2 DEF UptoFile
        <3>3. Relayed(d, i) = [k \in 1..(UptoFile(d, i) - Before(i)) |-> Before(i) + k]
            BY <3>2 DEF Relayed
        <3>4. FirstEvents(Before(i)) \o [k \in 1..(UptoFile(d, i) - Before(i)) |-> Before(i) + k]
                  = FirstEvents(UptoFile(d, i))
            <4> DEFINE a == Before(i)
                       b == UptoFile(d, i) - Before(i)
            <4>1. a \in Nat /\ b \in Nat
                BY <1>1, <3>2
            <4>2. a + b = UptoFile(d, i)
                BY <1>0, <1>1 DEF UptoFile
            <4> HIDE DEF a, b
            <4>3. FirstEvents(a) \o [k \in 1..b |-> a + k] = FirstEvents(a + b)
                BY <4>1, ConcatFirst
            <4>4. QED
                BY <4>2, <4>3 DEF a, b
        <3>5. QED
            BY <1>4, <3>1, <3>3, <3>4
    <2>3. QED
        BY <1>0, <1>1, <2>1, <2>2
<1>5. QED
    BY <1>3, <1>4

(* The binlog parser reading the relay files in order, each holding its   *)
(* share of the first d upstream events, reads exactly events 1..d.       *)
(* FlattenSeq is a recursive function over 1..Len(s); the proof exhibits  *)
(* the solution of its defining equation and shows, from a least index    *)
(* where two solutions differ, that every solution agrees with it.        *)
LEMMA FlattenRelayed ==
    ASSUME NEW d \in 0..Len(Stream)
    PROVE  FlattenSeq([f \in Files |-> Relayed(d, f)]) = FirstEvents(d)
<1> DEFINE s == [f \in Files |-> Relayed(d, f)]
           L == FileOf(Len(Stream) + 1)
           G == [i \in 1..L |-> FirstEvents(UptoFile(d, i))]
           Def(h) == [i \in 1..Len(s) |-> IF i = 1 THEN s[i] ELSE h[i - 1] \o s[i]]
           fl == CHOOSE h : h = Def(h)
<1>1. /\ Len(Stream) \in Nat /\ L \in Nat \ {0}
      /\ Files = 1..L
      /\ Len(s) = L
      /\ s # <<>>
    <2>1. Len(Stream) \in Nat /\ L \in Nat \ {0}
        BY StreamAssumption, FileOfNat
    <2>2. QED
        BY <2>1 DEF Files
<1>2. FlattenSeq(s) = fl[L]
    BY <1>1 DEF FlattenSeq
<1>3. \A i \in 1..L : G[i] = IF i = 1 THEN s[i] ELSE G[i - 1] \o s[i]
    <2> SUFFICES ASSUME NEW i \in 1..L
                 PROVE  G[i] = IF i = 1 THEN s[i] ELSE G[i - 1] \o s[i]
        OBVIOUS
    <2>1. FirstEvents(UptoFile(d, i)) =
              IF i = 1 THEN Relayed(d, 1)
              ELSE FirstEvents(UptoFile(d, i - 1)) \o Relayed(d, i)
        <3>1. i \in Nat \ {0}
            BY <1>1
        <3> HIDE DEF s, G, L, fl, Def
        <3> QED
            BY <3>1, RelayedStep
    <2>2. QED
        BY <1>1, <2>1 DEF Files
<1>4. G = Def(G)
    BY <1>1, <1>3
<1>5. fl = Def(fl)
    <2> HIDE DEF Def
    <2> QED
        BY <1>4, Zenon
<1>6. \A i \in 1..L : fl[i] = G[i]
    <2> DEFINE T == {i \in 1..L : fl[i] # G[i]}
    <2> SUFFICES ASSUME T # {} PROVE FALSE
        OBVIOUS
    <2>1. PICK m \in T : \A k \in T : m <= k
        <3>1. T \in SUBSET Nat
            BY <1>1
        <3> HIDE DEF T
        <3> QED
            BY <3>1, NatMin
    <2>2. fl[m] = IF m = 1 THEN s[m] ELSE fl[m - 1] \o s[m]
        BY <1>1, <1>5, <2>1
    <2>3. CASE m = 1
        BY <1>3, <2>1, <2>2, <2>3
    <2>4. CASE m # 1
        <3>0. m \in 1..L
            BY <2>1
        <3> HIDE DEF T, fl, G
        <3>1. m - 1 \in 1..L /\ m - 1 \notin T
            BY <1>1, <2>1, <2>4, <3>0
        <3>2. fl[m - 1] = G[m - 1]
            BY <3>1 DEF T
        <3>3. fl[m] # G[m]
            BY <2>1 DEF T
        <3>4. G[m] = G[m - 1] \o s[m]
            BY <1>3, <2>4, <3>0
        <3>5. QED
            BY <2>2, <2>4, <3>2, <3>3, <3>4
    <2>5. QED
        BY <2>3, <2>4
<1>7. G[L] = FirstEvents(d)
    <2>1. Before(L + 1) = Len(Stream)
        BY BeforeLast
    <2>2. QED
        BY <1>1, <2>1 DEF UptoFile
<1>8. QED
    <2>1. L \in 1..L
        BY <1>1
    <2> HIDE DEF fl, G, Def, L
    <2> QED
        BY <2>1, <1>2, <1>6, <1>7

-----------------------------------------------------------------------------
(* The reader's view of the relay files.                                   *)

(* Files whose complete events are the first d events, split by file,    *)
(* read as events 1..d.                                                   *)
LEMMA ViewLog ==
    ASSUME NEW d \in 0..Len(Stream), NEW fs,
           \A f \in Files : CompletePrefix(fs[f]) = Relayed(d, f)
    PROVE  FlattenSeq([f \in Files |-> CompletePrefix(fs[f])]) = FirstEvents(d)
<1>1. [f \in Files |-> CompletePrefix(fs[f])] = [f \in Files |-> Relayed(d, f)]
    OBVIOUS
<1>2. QED
    BY <1>1, FlattenRelayed

(* What a reader sees is always the first events of the upstream binlog, *)
(* and the flushed meta counts no more events than it.                    *)
LogInv ==
    \E d \in 0..Len(Stream) :
        /\ RelayedLog = FirstEvents(d)
        /\ FlushedCount \in 0..d

LEMMA InvLogInv ==
    ASSUME PumpInv
    PROVE  LogInv
<1>1. PICK d \in Int :
           /\ Before(pos.file) <= d /\ d <= Before(pos.file + 1)
           /\ Cnt(dpos) <= d
           /\ \/ Holds(d)
              \/ pc = "crashed" /\ HoldsTorn(d, pos.file)
    BY DiskShape
<1>2. /\ Before(pos.file) \in 0..Len(Stream)
      /\ Before(pos.file + 1) \in 0..Len(Stream)
      /\ dpos.off \in Nat /\ dpos.file = pos.file
    BY InvFacts DEF PumpInv, PosInv
<1>3. d \in 0..Len(Stream) /\ Cnt(dpos) \in 0..d
    BY <1>1, <1>2 DEF Cnt
<1>4. \A f \in Files : \/ files[f] = Relayed(d, f)
                       \/ f = pos.file /\ files[f] = Append(Relayed(d, f), Torn)
    BY <1>1 DEF Holds, HoldsTorn
<1>5. \A f \in Files : CompletePrefix(files[f]) = Relayed(d, f)
    <2> SUFFICES ASSUME NEW f \in Files
                 PROVE  CompletePrefix(files[f]) = Relayed(d, f)
        OBVIOUS
    <2>1. f \in Int
        BY DEF Files
    <2>2. /\ CompletePrefix(Relayed(d, f)) = Relayed(d, f)
          /\ CompletePrefix(Append(Relayed(d, f), Torn)) = Relayed(d, f)
        BY <1>1, <2>1, CompletePrefixRelayed
    <2>3. QED
        BY <1>4, <2>2
<1>6. RelayedLog = FirstEvents(d)
    BY <1>3, <1>5, ViewLog DEF RelayedLog
<1>7. QED
    BY <1>3, <1>6 DEF LogInv, FlushedCount, Cnt

(* No step moves the flushed meta back over an event: the meta on disk  *)
(* only moves forward (MetaMonotonic), and a move to a later file passes  *)
(* no more events than the file of the meta holds.                        *)
LEMMA FlushedMono ==
    ASSUME ~IgnoreFakeRotate, PumpInv, PumpInv', [Next]_vars
    PROVE  FlushedCount <= FlushedCount'
<1>1. PosLeq(dpos, dpos')
    BY NextMetaMonotonic
<1>2. /\ pos.file \in Nat /\ dpos.file = pos.file
      /\ dpos.off \in Nat /\ dpos.off <= pos.off /\ pos.off \in Nat
      /\ pos.off <= Before(pos.file + 1) - Before(pos.file)
      /\ Before(pos.file) \in 0..Len(Stream)
      /\ Before(pos.file + 1) \in 0..Len(Stream)
    BY InvFacts DEF PumpInv, PosInv
<1>3. dpos' \in Positions
    BY DEF PumpInv, TypeOK
<1>4. dpos'.file \in Nat /\ dpos'.off \in Nat
    <2>1. Files \subseteq Nat /\ Len(Stream) \in Nat
        BY StreamAssumption DEF Files
    <2>2. dpos'.file \in Files /\ dpos'.off \in 0..Len(Stream)
        BY <1>3 DEF Positions
    <2>3. dpos'.file \in Nat
        BY <2>1, <2>2, Zenon
    <2>4. QED
        BY <2>1, <2>2, <2>3
<1>5. Before(dpos'.file) \in 0..Len(Stream)
    <2>1. dpos'.file \in Int
        BY <1>4
    <2>2. QED
        BY <2>1, BeforeFacts, Zenon
<1>6. CASE dpos.file = dpos'.file
    BY <1>1, <1>2, <1>4, <1>6 DEF PosLeq, FlushedCount
<1>7. CASE dpos.file < dpos'.file
    <2>1. pos.file + 1 \in Int /\ dpos'.file \in Int /\ pos.file + 1 <= dpos'.file
        BY <1>2, <1>4, <1>7
    <2>2. Before(pos.file + 1) <= Before(dpos'.file)
        BY <2>1, BeforeMono
    <2>3. QED
        BY <1>2, <1>4, <1>5, <2>2 DEF FlushedCount
<1>8. QED
    BY <1>1, <1>6, <1>7 DEF PosLeq

(* The parser's view of a relay file does not change when it reads it    *)
(* again after truncating the file to that view (the recovery's result).  *)
LEMMA ViewIdempotent ==
    ASSUME PumpInv
    PROVE  \A f \in Files : CompletePrefix(CompletePrefix(files[f])) = CompletePrefix(files[f])
<1>1. PICK d \in Int :
           \/ Holds(d)
           \/ pc = "crashed" /\ HoldsTorn(d, pos.file)
    BY DiskShape
<1> SUFFICES ASSUME NEW f \in Files
             PROVE  CompletePrefix(CompletePrefix(files[f])) = CompletePrefix(files[f])
    OBVIOUS
<1>2. f \in Int
    BY DEF Files
<1>3. /\ CompletePrefix(Relayed(d, f)) = Relayed(d, f)
      /\ CompletePrefix(Append(Relayed(d, f), Torn)) = Relayed(d, f)
    BY <1>1, <1>2, CompletePrefixRelayed
<1>4. files[f] \in {Relayed(d, f), Append(Relayed(d, f), Torn)}
    BY <1>1 DEF Holds, HoldsTorn
<1>5. QED
    BY <1>3, <1>4

(* A write of a new event appends it to what a reader sees; the flushed   *)
(* meta stays where it is.                                                *)
LEMMA WriteAppends ==
    ASSUME PumpInv, PumpInv', WriteEvent, ~Duplicate(next)
    PROVE  /\ next \in Idx
           /\ RelayedLog = FirstEvents(next - 1)
           /\ RelayedLog' = FirstEvents(next)
           /\ FlushedCount' = FlushedCount
<1>1. /\ pc = "running" /\ next \in Idx /\ pc' = "written"
      /\ next' = next /\ dpos' = dpos
    BY DEF WriteEvent
<1>2. /\ \A f \in Files : files[f] = Relayed(next - 1, f)
      /\ \A f \in Files : files'[f] = Relayed(next, f)
    BY <1>1 DEF PumpInv, DiskInv, Holds, Durable
<1>3. next \in 1..Len(Stream) /\ next - 1 \in 0..Len(Stream)
    BY <1>1, StreamAssumption DEF Idx
<1>4. /\ \A f \in Files : CompletePrefix(files[f]) = Relayed(next - 1, f)
      /\ \A f \in Files : CompletePrefix(files'[f]) = Relayed(next, f)
    <2> SUFFICES ASSUME NEW f \in Files
                 PROVE  /\ CompletePrefix(files[f]) = Relayed(next - 1, f)
                        /\ CompletePrefix(files'[f]) = Relayed(next, f)
        OBVIOUS
    <2>1. f \in Int /\ next \in Int /\ next - 1 \in Int
        BY <1>3 DEF Files
    <2>2. /\ CompletePrefix(Relayed(next - 1, f)) = Relayed(next - 1, f)
          /\ CompletePrefix(Relayed(next, f)) = Relayed(next, f)
        BY <2>1, CompletePrefixRelayed
    <2>3. QED
        BY <1>2, <2>2
<1>5. RelayedLog = FirstEvents(next - 1)
    BY <1>3, <1>4, ViewLog DEF RelayedLog
<1>6. RelayedLog' = FirstEvents(next)
    <2>1. FlattenSeq([f \in Files |-> CompletePrefix(files'[f])]) = FirstEvents(next)
        BY <1>3, <1>4, ViewLog
    <2>2. QED
        BY <2>1 DEF RelayedLog
<1>7. QED
    BY <1>1, <1>5, <1>6 DEF FlushedCount

(* Every step but the write of a new event leaves what a reader sees as  *)
(* it is: the meta, exit and resume steps do not touch the files, the     *)
(* bytes a crash leaves are dropped by the parser, and the recovery       *)
(* truncates the file of the meta to exactly what the parser reads.       *)
LEMMA KeepsLog ==
    ASSUME ~PartialWrites, PumpInv, Next, ~(WriteEvent /\ ~Duplicate(next))
    PROVE  RelayedLog' = RelayedLog
<1> SUFFICES \A f \in Files : CompletePrefix(files'[f]) = CompletePrefix(files[f])
    BY DEF RelayedLog
<1>1. DOMAIN files = Files
    BY DEF PumpInv, TypeOK
<1>2. CASE UNCHANGED files
    BY <1>2
<1>3. CASE Crash
    <2>1. /\ pc # "crashed"
          /\ \/ UNCHANGED files
             \/ /\ pc = "running" /\ next \in Idx
                /\ files' = [files EXCEPT ![FileOf(next)] = Append(@, Torn)]
        BY <1>3 DEF Crash
    <2>2. /\ \A f \in Files : files[f] = Relayed(Durable, f)
          /\ Durable \in Int
        BY <2>1, InvFacts DEF PumpInv, DiskInv, Holds, Durable
    <2>3. CASE UNCHANGED files
        BY <2>3
    <2>4. CASE files' = [files EXCEPT ![FileOf(next)] = Append(@, Torn)]
        <3> SUFFICES ASSUME NEW f \in Files
                     PROVE  CompletePrefix(files'[f]) = CompletePrefix(files[f])
            OBVIOUS
        <3>1. f \in Int
            BY DEF Files
        <3>2. /\ CompletePrefix(Relayed(Durable, f)) = Relayed(Durable, f)
              /\ CompletePrefix(Append(Relayed(Durable, f), Torn)) = Relayed(Durable, f)
            BY <2>2, <3>1, CompletePrefixRelayed
        <3>3. files'[f] \in {files[f], Append(files[f], Torn)}
            BY <1>1, <2>4
        <3>4. QED
            BY <2>2, <3>2, <3>3
    <2>5. QED
        BY <2>1, <2>3, <2>4
<1>4. CASE Restart
    <2>1. files' = [files EXCEPT ![dpos.file] = CompletePrefix(files[dpos.file])]
        BY <1>4 DEF Restart
    <2>2. \A f \in Files : CompletePrefix(CompletePrefix(files[f])) = CompletePrefix(files[f])
        BY ViewIdempotent
    <2> SUFFICES ASSUME NEW f \in Files
                 PROVE  CompletePrefix(files'[f]) = CompletePrefix(files[f])
        OBVIOUS
    <2>3. files'[f] = IF f = dpos.file THEN CompletePrefix(files[f]) ELSE files[f]
        BY <1>1, <2>1
    <2>4. QED
        BY <2>2, <2>3
<1>5. CASE FakeRotate \/ UpdateMeta \/ FlushMeta \/ Resume
    BY <1>5 DEF FakeRotate, UpdateMeta, FlushMeta, Resume
<1>6. CASE WriteEvent
    BY <1>6 DEF WriteEvent
<1>7. CASE Exit
    BY <1>7 DEF Exit
<1>8. QED
    BY <1>2, <1>3, <1>4, <1>5, <1>6, <1>7 DEF Next

-----------------------------------------------------------------------------
(* The refinement.                                                         *)

(* A fresh sub-directory is an empty relay log with nothing acknowledged. *)
LEMMA InitRefines ==
    ASSUME Init
    PROVE  Abstract!Init
<1>1. PumpInv
    BY InitPumpInv
<1>2. \A f \in Files : files[f] = Relayed(0, f)
    BY <1>1 DEF Init, PumpInv, DiskInv, Holds, Durable
<1>3. \A f \in Files : CompletePrefix(files[f]) = Relayed(0, f)
    <2> SUFFICES ASSUME NEW f \in Files
                 PROVE  CompletePrefix(files[f]) = Relayed(0, f)
        OBVIOUS
    <2>1. f \in Int
        BY DEF Files
    <2>2. CompletePrefix(Relayed(0, f)) = Relayed(0, f)
        BY <2>1, CompletePrefixRelayed
    <2>3. QED
        BY <1>2, <2>2
<1>4. RelayedLog = FirstEvents(0)
    <2>1. 0 \in 0..Len(Stream)
        BY StreamAssumption
    <2>2. QED
        BY <1>3, <2>1, ViewLog DEF RelayedLog
<1>5. FlushedCount = 0
    BY BeforeFirst DEF Init, FlushedCount
<1>6. QED
    BY <1>4, <1>5 DEF Abstract!Init, FirstEvents

(* Each step of the pump is a step of the abstract relay log: a write of  *)
(* a new event appends it, every other step moves the flushed meta        *)
(* forward within the relay log or changes nothing a reader sees.         *)
LEMMA NextRefines ==
    ASSUME ~PartialWrites, ~IgnoreFakeRotate,
           PumpInv, PumpInv', LogInv, LogInv', [Next]_vars
    PROVE  [Abstract!Next]_Abstract!vars
<1>1. FlushedCount <= FlushedCount'
    BY FlushedMono
<1>2. CASE WriteEvent /\ ~Duplicate(next)
    <2>1. /\ next \in Idx
          /\ RelayedLog = FirstEvents(next - 1)
          /\ RelayedLog' = FirstEvents(next)
          /\ FlushedCount' = FlushedCount
        BY <1>2, WriteAppends
    <2>2. /\ Len(RelayedLog) < Len(Stream)
          /\ RelayedLog' = Append(RelayedLog, Len(RelayedLog) + 1)
        BY <2>1, StreamAssumption DEF FirstEvents, Idx
    <2>3. QED
        BY <2>1, <2>2 DEF Abstract!Next, Abstract!AppendEvent
<1>3. CASE UNCHANGED vars
    <2>1. RelayedLog' = RelayedLog /\ FlushedCount' = FlushedCount
        BY <1>3 DEF vars, RelayedLog, FlushedCount
    <2>2. QED
        BY <2>1 DEF Abstract!vars
<1>4. CASE Next /\ ~(WriteEvent /\ ~Duplicate(next))
    <2>1. RelayedLog' = RelayedLog
        BY <1>4, KeepsLog
    <2>2. PICK d \in 0..Len(Stream) : RelayedLog = FirstEvents(d) /\ FlushedCount \in 0..d
        BY DEF LogInv
    <2>3. PICK e \in 0..Len(Stream) : RelayedLog' = FirstEvents(e) /\ FlushedCount' \in 0..e
        BY DEF LogInv
    <2>4. FlushedCount' \in FlushedCount..Len(RelayedLog)
        BY <1>1, <2>1, <2>2, <2>3 DEF FirstEvents
    <2>5. QED
        BY <2>1, <2>4 DEF Abstract!Next, Abstract!Acknowledge
<1>5. QED
    BY <1>2, <1>3, <1>4

(* The pump implements the safety part of the abstract relay log, for     *)
(* the Transformer and Writer of the code: what a reader of the relay     *)
(* files sees starts empty and only grows by the next upstream event, and *)
(* the position in the flushed meta (counted in events) only moves        *)
(* forward and never past what a reader sees, across crashes, torn        *)
(* writes, exits, resumes and recoveries, for every upstream binlog and   *)
(* bound on faults.                                                       *)
THEOREM RefinesRelayLogSafety ==
    ASSUME ~PartialWrites, ~IgnoreFakeRotate
    PROVE  Spec => Abstract!Init /\ [][Abstract!Next]_Abstract!vars
<1>1. PumpInv => LogInv
    BY InvLogInv
<1>2. Spec => [](PumpInv /\ LogInv)
    BY <1>1, PumpInvHolds, PTL
<1>3. Init => Abstract!Init
    BY InitRefines
<1>4. (PumpInv /\ LogInv) /\ (PumpInv /\ LogInv)' /\ [Next]_vars
         => [Abstract!Next]_Abstract!vars
    BY NextRefines
<1>5. QED
    BY <1>2, <1>3, <1>4, PTL DEF Spec

=============================================================================

---------------------------- MODULE RelayPumpProofs ----------------------------
(***************************************************************************)
(* RelayIsStreamPrefix, MetaDescribesRelay and MetaMonotonic of the relay  *)
(* pump for every upstream binlog and every bound on faults, for the       *)
(* Transformer and Writer of the code (the artificial Rotate of a dump is  *)
(* handled, a failed write leaves nothing; the runs pump_ignored_fake_-    *)
(* rotate and pump_partial_write show the properties fail otherwise).     *)
(*                                                                         *)
(* The argument has two layers.  The first is about where the events of   *)
(* Stream sit: FileOf counts the Rotate events before an event, Before(f) *)
(* is the number of events in files before f, and the events of file f   *)
(* are exactly Before(f) + 1 .. Before(f + 1).  The second is the         *)
(* inductive invariant PumpInv: the relay files hold exactly the first d  *)
(* upstream events, split by file, where d is the number of events        *)
(* written, plus at most one torn event after a crash; the positions in   *)
(* memory and on disk count events consistently with next.  None of the  *)
(* properties is inductive by itself: a restart reads the file the meta   *)
(* names and the reader resumes from the recovered position, so the proof *)
(* must know that the files, the positions and next agree.                *)
(***************************************************************************)
EXTENDS RelayPump, FiniteSetTheorems, WellFoundedInduction, TLAPS

-----------------------------------------------------------------------------
(* Where the upstream events sit in the binlog files.                      *)

(* A nonempty set of naturals has a least element (well-foundedness of <). *)
LEMMA NatMin ==
    ASSUME NEW T \in SUBSET Nat, T # {}
    PROVE  \E m \in T : \A k \in T : m <= k
<1> DEFINE Lt == OpToRel(<, Nat)
<1>1. \E x \in T : \A y \in T : ~(<<y, x>> \in Lt)
    BY NatLessThanWellFounded, WFMin
<1>2. \A x, y \in Nat : y < x => <<y, x>> \in Lt
    BY DEF OpToRel
<1> HIDE DEF Lt
<1>3. PICK x \in T : \A y \in T : ~(<<y, x>> \in Lt)
    BY <1>1
<1>4. \A y \in T : ~(y < x)
    BY <1>2, <1>3, Zenon
<1>5. QED
    BY <1>4

Rotates(i) == {j \in 1..(i - 1) : Stream[j] = "Rotate"}

(* The Rotate events before event i are finitely many, and FileOf(i)     *)
(* is one more than their number.                                        *)
LEMMA RotatesFinite ==
    ASSUME NEW i \in Nat
    PROVE  /\ IsFiniteSet(Rotates(i))
           /\ Cardinality(Rotates(i)) \in Nat
           /\ FileOf(i) = 1 + Cardinality(Rotates(i))
<1>1. IsFiniteSet(1..(i - 1))
    BY FS_Interval
<1>2. IsFiniteSet(Rotates(i))
    BY <1>1, FS_Subset DEF Rotates
<1>3. QED
    BY <1>2, FS_CardinalityType DEF FileOf, Rotates

(* Binlog files are numbered from 1.                                      *)
LEMMA FileOfNat ==
    ASSUME NEW i \in Nat
    PROVE  FileOf(i) \in Nat \ {0}
<1>1. FileOf(i) = 1 + Cardinality(Rotates(i)) /\ Cardinality(Rotates(i)) \in Nat
    BY RotatesFinite
<1>2. QED
    BY <1>1

(* The first event is in the first file, and a Rotate event is the last   *)
(* of its file: the event after it is in the next file.                   *)
LEMMA FileOfStep ==
    ASSUME NEW i \in Idx
    PROVE  /\ FileOf(1) = 1
           /\ FileOf(i + 1) = FileOf(i) + (IF Stream[i] = "Rotate" THEN 1 ELSE 0)
<1> USE StreamAssumption DEF Idx
<1>1. FileOf(1) = 1
    <2>1. Rotates(1) = {}
        BY DEF Rotates
    <2>2. FileOf(1) = 1 + Cardinality(Rotates(1))
        BY RotatesFinite
    <2>3. Cardinality(Rotates(1)) = 0
        BY <2>1, FS_EmptySet
    <2>4. QED
        BY <2>2, <2>3
<1> SUFFICES FileOf(i + 1) = FileOf(i) + (IF Stream[i] = "Rotate" THEN 1 ELSE 0)
    BY <1>1
<1>2. /\ IsFiniteSet(Rotates(i)) /\ Cardinality(Rotates(i)) \in Nat
      /\ FileOf(i) = 1 + Cardinality(Rotates(i))
      /\ FileOf(i + 1) = 1 + Cardinality(Rotates(i + 1))
    BY RotatesFinite
<1>3. i \notin Rotates(i)
    BY DEF Rotates
<1>4. CASE Stream[i] = "Rotate"
    <2>1. Rotates(i + 1) = Rotates(i) \cup {i}
        BY <1>4 DEF Rotates
    <2>2. Cardinality(Rotates(i) \cup {i}) = Cardinality(Rotates(i)) + 1
        BY <1>2, <1>3, FS_AddElement
    <2>3. Cardinality(Rotates(i + 1)) = Cardinality(Rotates(i)) + 1
        BY <2>1, <2>2, Zenon
    <2>4. QED
        BY <1>2, <1>4, <2>3
<1>5. CASE Stream[i] # "Rotate"
    <2>1. Rotates(i + 1) = Rotates(i)
        BY <1>5 DEF Rotates
    <2>2. QED
        BY <1>2, <1>5, <2>1
<1>6. QED
    BY <1>4, <1>5

(* A later event is never in an earlier file.                             *)
LEMMA FileOfMono ==
    ASSUME NEW i \in Nat, NEW j \in Nat, i <= j
    PROVE  FileOf(i) <= FileOf(j)
<1>1. Rotates(i) \subseteq Rotates(j)
    BY DEF Rotates
<1>2. /\ IsFiniteSet(Rotates(j))
      /\ FileOf(i) = 1 + Cardinality(Rotates(i))
      /\ FileOf(j) = 1 + Cardinality(Rotates(j))
      /\ Cardinality(Rotates(i)) \in Nat /\ Cardinality(Rotates(j)) \in Nat
    BY RotatesFinite
<1>3. Cardinality(Rotates(i)) <= Cardinality(Rotates(j))
    BY <1>1, <1>2, FS_Subset
<1>4. QED
    BY <1>2, <1>3

(* A set of positive naturals up to m that is closed downwards is an      *)
(* interval 1..k, k its size.                                             *)
LEMMA DownClosed ==
    ASSUME NEW m \in Nat, NEW S \in SUBSET (1..m),
           \A j \in S : \A k \in 1..j : k \in S
    PROVE  /\ Cardinality(S) \in 0..m
           /\ S = 1..Cardinality(S)
<1>1. SUFFICES \E c \in 0..m : S = 1..c
    <2>1. PICK c \in 0..m : S = 1..c
        OBVIOUS
    <2>2. Cardinality(1..c) = c
        BY FS_Interval
    <2>3. Cardinality(S) = c
        BY <2>1, <2>2, Zenon
    <2>4. QED
        BY <2>1, <2>3
<1>2. CASE S = 1..m
    BY <1>2
<1>3. CASE S # 1..m
    <2> DEFINE C == (1..m) \ S
    <2>1. PICK x \in 1..m : x \notin S
        BY <1>3
    <2>2. C \in SUBSET Nat /\ C # {}
        BY <2>1
    <2>3. PICK c \in C : \A k \in C : c <= k
        BY <2>2, NatMin
    <2>4. c \in 1..m /\ c \notin S
        OBVIOUS
    <2>5. ASSUME NEW k \in 1..(c - 1) PROVE k \in S
        BY <2>3, <2>4
    <2>6. ASSUME NEW k \in S PROVE k < c
        <3>1. SUFFICES ASSUME c <= k PROVE FALSE
            BY <2>4
        <3>2. c \in 1..k
            BY <3>1, <2>4
        <3>3. QED
            BY <3>2, <2>4
    <2>7. \A k \in S : k \in 1..(c - 1)
        BY <2>6
    <2>8. S = 1..(c - 1)
        BY <2>5, <2>7, Zenon
    <2>9. QED
        BY <2>4, <2>8
<1>4. QED
    BY <1>2, <1>3

(* The events of the files before f are the first Before(f) events.       *)
LEMMA BeforeInterval ==
    ASSUME NEW f \in Int
    PROVE  /\ Before(f) \in 0..Len(Stream)
           /\ {j \in Idx : FileOf(j) < f} = 1..Before(f)
<1> DEFINE B == {j \in Idx : FileOf(j) < f}
<1>1. \A j \in B : \A k \in 1..j : k \in B
    <2> SUFFICES ASSUME NEW j \in B, NEW k \in 1..j PROVE k \in B
        OBVIOUS
    <2>1. j \in Nat /\ k \in Nat /\ k <= j /\ k \in Idx
        BY DEF Idx
    <2>2. FileOf(k) <= FileOf(j)
        BY <2>1, FileOfMono
    <2>3. FileOf(k) \in Nat /\ FileOf(j) \in Nat
        BY <2>1, RotatesFinite
    <2>4. QED
        BY <2>1, <2>2, <2>3
<1>2. B \in SUBSET (1..Len(Stream))
    BY DEF Idx
<1>3. Len(Stream) \in Nat
    BY StreamAssumption
<1>4. QED
    BY <1>1, <1>2, <1>3, DownClosed DEF Before

(* Files further on start further on.                                     *)
LEMMA BeforeMono ==
    ASSUME NEW f \in Int, NEW g \in Int, f <= g
    PROVE  Before(f) <= Before(g)
<1>1. ASSUME NEW j \in Idx PROVE FileOf(j) \in Nat
    <2>1. j \in Nat
        BY StreamAssumption DEF Idx
    <2>2. QED
        BY <2>1, RotatesFinite
<1>2. {j \in Idx : FileOf(j) < f} \subseteq {j \in Idx : FileOf(j) < g}
    BY <1>1
<1>3. 1..Before(f) \subseteq 1..Before(g) /\ Before(f) \in Nat /\ Before(g) \in Nat
    BY <1>2, BeforeInterval
<1>4. QED
    BY <1>3

(* Event i (or the end of the binlog, i = Len(Stream) + 1) lies in a     *)
(* relay file, after the events of the files before it and among the      *)
(* first Before(FileOf(i) + 1) events.                                    *)
LEMMA EventIn ==
    ASSUME NEW i \in 1..(Len(Stream) + 1)
    PROVE  /\ FileOf(i) \in Files
           /\ Before(FileOf(i)) <= i - 1
           /\ i - 1 <= Before(FileOf(i) + 1)
           /\ i \in Idx => i <= Before(FileOf(i) + 1)
<1>1. Len(Stream) \in Nat /\ i \in Nat
    BY StreamAssumption
<1>2. FileOf(i) \in Nat \ {0}
    BY <1>1, FileOfNat
<1>3. FileOf(i) <= FileOf(Len(Stream) + 1)
    BY <1>1, FileOfMono
<1>4. /\ {j \in Idx : FileOf(j) < FileOf(i)} = 1..Before(FileOf(i))
      /\ Before(FileOf(i)) \in 0..Len(Stream)
      /\ {j \in Idx : FileOf(j) < FileOf(i) + 1} = 1..Before(FileOf(i) + 1)
      /\ Before(FileOf(i) + 1) \in 0..Len(Stream)
    <2>1. FileOf(i) \in Int /\ FileOf(i) + 1 \in Int
        BY <1>2
    <2>2. /\ {j \in Idx : FileOf(j) < FileOf(i)} = 1..Before(FileOf(i))
          /\ Before(FileOf(i)) \in 0..Len(Stream)
        BY <2>1, BeforeInterval, Zenon
    <2>3. /\ {j \in Idx : FileOf(j) < FileOf(i) + 1} = 1..Before(FileOf(i) + 1)
          /\ Before(FileOf(i) + 1) \in 0..Len(Stream)
        BY <2>1, BeforeInterval, Zenon
    <2>4. QED
        BY <2>2, <2>3
<1>5. Before(FileOf(i)) <= i - 1
    <2> SUFFICES ASSUME Before(FileOf(i)) >= i PROVE FALSE
        BY <1>1, <1>4
    <2>1. i \in 1..Before(FileOf(i))
        BY <1>1, <1>4
    <2>2. i \in {j \in Idx : FileOf(j) < FileOf(i)}
        BY <2>1, <1>4, Zenon
    <2>3. QED
        BY <2>2, <1>2
<1>6. i \in Idx => i <= Before(FileOf(i) + 1)
    <2> SUFFICES ASSUME i \in Idx PROVE i <= Before(FileOf(i) + 1)
        OBVIOUS
    <2>1. i \in {j \in Idx : FileOf(j) < FileOf(i) + 1}
        BY <1>2
    <2>2. i \in 1..Before(FileOf(i) + 1)
        BY <2>1, <1>4, Zenon
    <2>3. QED
        BY <2>2, <1>4
<1>7. i - 1 <= Before(FileOf(i) + 1)
    <2>1. CASE i = 1
        BY <2>1, <1>4
    <2>2. CASE i > 1
        <3>1. i - 1 \in Idx /\ i - 1 \in Nat
            BY <2>2, <1>1 DEF Idx
        <3>2. FileOf(i - 1) <= FileOf(i)
            BY <3>1, <1>1, FileOfMono
        <3>3. FileOf(i - 1) \in Nat
            BY <3>1, FileOfNat
        <3>4. i - 1 \in {j \in Idx : FileOf(j) < FileOf(i) + 1}
            BY <3>1, <3>2, <3>3, <1>2
        <3>5. i - 1 \in 1..Before(FileOf(i) + 1)
            BY <3>4, <1>4, Zenon
        <3>6. QED
            BY <3>5, <1>4
    <2>3. QED
        BY <2>1, <2>2, <1>1
<1>8. QED
    BY <1>2, <1>3, <1>5, <1>6, <1>7 DEF Files

(* The events of file f are those numbered Before(f) + 1 to Before(f + 1). *)
LEMMA FileEventsForm ==
    ASSUME NEW f \in Int
    PROVE  /\ Before(f) <= Before(f + 1)
           /\ FileEvents(f) = [k \in 1..(Before(f + 1) - Before(f)) |-> Before(f) + k]
<1>1. /\ {j \in Idx : FileOf(j) < f} = 1..Before(f) /\ Before(f) \in Nat
      /\ {j \in Idx : FileOf(j) < f + 1} = 1..Before(f + 1) /\ Before(f + 1) \in Nat
    BY BeforeInterval
<1>2. Before(f) <= Before(f + 1)
    BY BeforeMono
<1>3. ASSUME NEW j \in Idx PROVE FileOf(j) \in Nat
    <2>1. j \in Nat
        BY StreamAssumption DEF Idx
    <2>2. QED
        BY <2>1, RotatesFinite
<1>4. {i \in Idx : FileOf(i) = f} = (Before(f) + 1)..Before(f + 1)
    <2>1. {i \in Idx : FileOf(i) = f} =
            {j \in Idx : FileOf(j) < f + 1} \ {j \in Idx : FileOf(j) < f}
        BY <1>3
    <2>2. QED
        BY <2>1, <1>1
<1>5. Cardinality((Before(f) + 1)..Before(f + 1)) = Before(f + 1) - Before(f)
    BY <1>1, <1>2, FS_Interval
<1>6. Cardinality({i \in Idx : FileOf(i) = f}) = Before(f + 1) - Before(f)
    BY <1>4, <1>5, Zenon
<1>7. QED
    BY <1>2, <1>6 DEF FileEvents

(* A Rotate event is the last event of its file, and the file after it    *)
(* exists.                                                                *)
LEMMA RotateEnds ==
    ASSUME NEW i \in Idx, Stream[i] = "Rotate"
    PROVE  /\ Before(FileOf(i) + 1) = i
           /\ FileOf(i + 1) = FileOf(i) + 1
           /\ FileOf(i) + 1 \in Files
<1>1. Len(Stream) \in Nat /\ i \in 1..Len(Stream)
    BY StreamAssumption DEF Idx
<1>2. FileOf(i + 1) = FileOf(i) + 1 /\ FileOf(i) \in Nat
    BY <1>1, FileOfStep, FileOfNat
<1>3. i <= Before(FileOf(i) + 1) /\ FileOf(i + 1) \in Files
    BY <1>1, EventIn
<1>4. /\ {j \in Idx : FileOf(j) < FileOf(i) + 1} = 1..Before(FileOf(i) + 1)
      /\ Before(FileOf(i) + 1) \in 0..Len(Stream)
    <2>1. FileOf(i) + 1 \in Int
        BY <1>2
    <2>2. QED
        BY <2>1, BeforeInterval, Zenon
<1>5. Before(FileOf(i) + 1) <= i
    <2>1. CASE i = Len(Stream)
        BY <2>1, <1>4
    <2>2. CASE i < Len(Stream)
        <3>1. i + 1 \notin {j \in Idx : FileOf(j) < FileOf(i) + 1}
            BY <1>2
        <3>2. i + 1 \notin 1..Before(FileOf(i) + 1)
            BY <3>1, <1>4, Zenon
        <3>3. QED
            BY <2>2, <3>2, <1>1, <1>4
    <2>3. QED
        BY <1>1, <2>1, <2>2
<1>6. QED
    BY <1>2, <1>3, <1>4, <1>5

-----------------------------------------------------------------------------
(* The inductive invariant.  The relay files hold exactly the first d      *)
(* upstream events, each in its own file, d being the events written (the *)
(* reader's next event less one, or the event just written); a crash may  *)
(* add the bytes of one incomplete event to the file the meta names.  The  *)
(* meta in memory and on disk name the same file, the one on disk no      *)
(* further than the one in memory, which counts the events the reader has *)
(* consumed; each GTID set is the one of the events up to its position.   *)
Upto(d, f) ==
    IF d < Before(f) THEN 0
    ELSE IF d < Before(f + 1) THEN d - Before(f)
    ELSE Before(f + 1) - Before(f)

Relayed(d, f) == [k \in 1..Upto(d, f) |-> Before(f) + k]

Holds(d) == \A f \in Files : files[f] = Relayed(d, f)

HoldsTorn(d, t) ==
    \A f \in Files : files[f] = IF f = t THEN Append(Relayed(d, f), Torn)
                                        ELSE Relayed(d, f)

Cnt(p) == Before(p.file) + p.off

Durable == IF pc = "written" THEN next ELSE next - 1

(* The in-memory position is the place of event next - 1, inside its     *)
(* file; the flushed one is in the same file and not after it.            *)
PosInv ==
    /\ dpos.file = pos.file
    /\ dpos.off <= pos.off
    /\ pos.off <= Before(pos.file + 1) - Before(pos.file)
    /\ Cnt(pos) = next - 1

(* Each GTID set is the set of transactions up to its position.           *)
GSetInv ==
    /\ gset = GSetUpTo(Cnt(pos))
    /\ dgset = GSetUpTo(Cnt(dpos))

(* While the pump runs, the next event is in the file of the position.     *)
PcInv ==
    /\ pc \in {"running", "written", "stopped"} => FileOf(next) = pos.file
    /\ pc = "written" => next \in Idx

(* The files hold exactly the events written so far; after a crash, the   *)
(* file of the flushed position may end in the bytes of a torn event.    *)
DiskInv ==
    /\ pc # "crashed" => Holds(Durable)
    /\ pc = "crashed" =>
          \E d \in {next - 1, next} :
              /\ d <= Before(pos.file + 1)
              /\ Holds(d) \/ HoldsTorn(d, dpos.file)

PumpInv == TypeOK /\ PosInv /\ GSetInv /\ PcInv /\ DiskInv

-----------------------------------------------------------------------------
(* Lemmas about the operators of the invariant.                           *)

(* Before(f) and Before(f + 1) bound the events of file f.                *)
LEMMA BeforeFacts ==
    ASSUME NEW f \in Int
    PROVE  /\ Before(f) \in 0..Len(Stream)
           /\ Before(f + 1) \in 0..Len(Stream)
           /\ Before(f) <= Before(f + 1)
<1>1. f + 1 \in Int
    OBVIOUS
<1>2. QED
    BY <1>1, BeforeInterval, BeforeMono

(* How many of the first d events file f holds.                           *)
LEMMA UptoFacts ==
    ASSUME NEW d \in Int, NEW f \in Int
    PROVE  /\ Upto(d, f) \in 0..(Before(f + 1) - Before(f))
           /\ d <= Before(f) => Upto(d, f) = 0
           /\ d >= Before(f + 1) => Upto(d, f) = Before(f + 1) - Before(f)
           /\ Before(f) <= d /\ d <= Before(f + 1) => Upto(d, f) = d - Before(f)
<1>1. /\ Before(f) \in 0..Len(Stream)
      /\ Before(f + 1) \in 0..Len(Stream)
      /\ Before(f) <= Before(f + 1)
    BY BeforeFacts
<1>2. QED
    BY <1>1 DEF Upto

(* The first d events' part of file f is a sequence of events, numbered   *)
(* from Before(f) + 1 on.                                                 *)
LEMMA RelayedType ==
    ASSUME NEW d \in Int, NEW f \in Int
    PROVE  /\ Relayed(d, f) \in Seq(Idx)
           /\ Len(Relayed(d, f)) = Upto(d, f)
           /\ \A k \in 1..Len(Relayed(d, f)) : Relayed(d, f)[k] # Torn
<1>1. /\ Upto(d, f) \in 0..(Before(f + 1) - Before(f))
      /\ Before(f) \in 0..Len(Stream) /\ Before(f + 1) \in 0..Len(Stream)
    BY UptoFacts, BeforeFacts
<1>2. \A k \in 1..Upto(d, f) : Before(f) + k \in Idx
    BY <1>1 DEF Idx
<1>3. QED
    BY <1>1, <1>2 DEF Relayed, Torn

(* Writing event i appends it to its file and to no other.                *)
LEMMA RelayedAppend ==
    ASSUME NEW i \in Idx
    PROVE  /\ Relayed(i, FileOf(i)) = Append(Relayed(i - 1, FileOf(i)), i)
           /\ \A g \in Int : g # FileOf(i) => Relayed(i, g) = Relayed(i - 1, g)
<1>1. i \in 1..Len(Stream) /\ Len(Stream) \in Nat
    BY StreamAssumption DEF Idx
<1>2. FileOf(i) \in Nat /\ Before(FileOf(i)) <= i - 1 /\ i <= Before(FileOf(i) + 1)
    BY <1>1, EventIn, FileOfNat
<1>3. /\ Before(FileOf(i)) \in 0..Len(Stream)
      /\ Before(FileOf(i) + 1) \in 0..Len(Stream)
      /\ Before(FileOf(i)) <= Before(FileOf(i) + 1)
    <2>1. FileOf(i) \in Int
        BY <1>2
    <2>2. QED
        BY <2>1, BeforeFacts, Zenon
<1>4. /\ Upto(i, FileOf(i)) = i - Before(FileOf(i))
      /\ Upto(i - 1, FileOf(i)) = i - 1 - Before(FileOf(i))
    <2>1. FileOf(i) \in Int /\ i \in Int /\ i - 1 \in Int
        BY <1>1, <1>2
    <2>2. Before(FileOf(i)) <= i /\ i <= Before(FileOf(i) + 1)
        BY <1>1, <1>2, <1>3
    <2>3. Before(FileOf(i)) <= i - 1 /\ i - 1 <= Before(FileOf(i) + 1)
        BY <1>1, <1>2, <1>3
    <2>4. Upto(i, FileOf(i)) = i - Before(FileOf(i))
        BY <2>1, <2>2, UptoFacts, Zenon
    <2>5. Upto(i - 1, FileOf(i)) = i - 1 - Before(FileOf(i))
        BY <2>1, <2>3, UptoFacts, Zenon
    <2>6. QED
        BY <2>4, <2>5
<1>9. Relayed(i, FileOf(i)) = Append(Relayed(i - 1, FileOf(i)), i)
    <2> DEFINE b == Before(FileOf(i))
    <2>1. Relayed(i, FileOf(i)) = [k \in 1..(i - b) |-> b + k]
        BY <1>4 DEF Relayed
    <2>2. Relayed(i - 1, FileOf(i)) = [k \in 1..(i - 1 - b) |-> b + k]
        BY <1>4 DEF Relayed
    <2>3. b \in 0..(i - 1)
        BY <1>1, <1>2, <1>3
    <2> HIDE DEF b
    <2>4. [k \in 1..(i - b) |-> b + k] = Append([k \in 1..(i - 1 - b) |-> b + k], i)
        BY <2>3, <1>1
    <2>5. QED
        BY <2>1, <2>2, <2>4
<1>5. ASSUME NEW g \in Int, g # FileOf(i) PROVE Relayed(i, g) = Relayed(i - 1, g)
    <2>1. /\ Before(g) \in 0..Len(Stream) /\ Before(g + 1) \in 0..Len(Stream)
          /\ Before(g) <= Before(g + 1)
        BY BeforeFacts, Zenon
    <2>2. i \in Int /\ i - 1 \in Int /\ FileOf(i) \in Int /\ g + 1 \in Int
          /\ FileOf(i) + 1 \in Int
        BY <1>1, <1>2
    <2>3. Upto(i, g) = Upto(i - 1, g)
        <3>1. CASE g < FileOf(i)
            <4>1. g + 1 <= FileOf(i)
                BY <3>1, <2>2
            <4>2. Before(g + 1) <= Before(FileOf(i))
                BY <4>1, <2>2, BeforeMono, Zenon
            <4>3. i >= Before(g + 1) /\ i - 1 >= Before(g + 1)
                BY <4>2, <2>1, <1>1, <1>2, <1>3
            <4>4. Upto(i, g) = Before(g + 1) - Before(g)
                BY <4>3, <2>2, UptoFacts, Zenon
            <4>5. Upto(i - 1, g) = Before(g + 1) - Before(g)
                BY <4>3, <2>2, UptoFacts, Zenon
            <4>6. QED
                BY <4>4, <4>5
        <3>2. CASE g > FileOf(i)
            <4>1. FileOf(i) + 1 <= g
                BY <3>2, <2>2
            <4>2. Before(FileOf(i) + 1) <= Before(g)
                BY <4>1, <2>2, BeforeMono, Zenon
            <4>3. i <= Before(g) /\ i - 1 <= Before(g)
                BY <4>2, <2>1, <1>1, <1>2, <1>3
            <4>4. Upto(i, g) = 0
                BY <4>3, <2>2, UptoFacts, Zenon
            <4>5. Upto(i - 1, g) = 0
                BY <4>3, <2>2, UptoFacts, Zenon
            <4>6. QED
                BY <4>4, <4>5
        <3>3. QED
            BY <2>2, <1>5, <3>1, <3>2
    <2>4. QED
        BY <2>3 DEF Relayed
<1>6. QED
    BY <1>9, <1>5

(* The binlog parser reads a relay file of complete events to its end,    *)
(* and stops before the bytes of an incomplete last event.                *)
LEMMA CompletePrefixRelayed ==
    ASSUME NEW d \in Int, NEW f \in Int
    PROVE  /\ CompletePrefix(Relayed(d, f)) = Relayed(d, f)
           /\ CompletePrefix(Append(Relayed(d, f), Torn)) = Relayed(d, f)
<1> DEFINE s == Relayed(d, f)
<1>1. s \in Seq(Idx) /\ \A k \in 1..Len(s) : s[k] # Torn
    BY RelayedType
<1>2. CompletePrefix(s) = s
    BY <1>1 DEF CompletePrefix
<1>3. {k \in 1..Len(Append(s, Torn)) : Append(s, Torn)[k] = Torn} = {Len(s) + 1}
    BY <1>1
<1>4. (CHOOSE k \in {Len(s) + 1} : \A j \in {Len(s) + 1} : k <= j) = Len(s) + 1
    OBVIOUS
<1>5. CompletePrefix(Append(s, Torn)) = SubSeq(Append(s, Torn), 1, Len(s))
    <2> HIDE DEF s
    <2>1. Len(s) \in Nat
        BY <1>1
    <2> DEFINE t == Append(s, Torn)
               T == {k \in 1..Len(t) : t[k] = Torn}
    <2>2. CompletePrefix(t) = IF T = {} THEN t
                              ELSE SubSeq(t, 1, (CHOOSE k \in T : \A j \in T : k <= j) - 1)
        BY DEF CompletePrefix
    <2>3. T = {Len(s) + 1}
        BY <1>3
    <2> HIDE DEF t, T
    <2>4. (CHOOSE k \in T : \A j \in T : k <= j) = Len(s) + 1
        BY <2>3, <1>4, Zenon
    <2>5. CompletePrefix(t) = SubSeq(t, 1, Len(s))
        BY <2>1, <2>2, <2>3, <2>4
    <2>6. QED
        BY <2>5 DEF t
<1>6. QED
    BY <1>1, <1>2, <1>5

(* The GTID set up to event i adds i when i is a transaction.             *)
LEMMA GSetStep ==
    ASSUME NEW i \in Idx
    PROVE  GSetUpTo(i) = IF Stream[i] = "Trx" THEN GSetUpTo(i - 1) \cup {i}
                                             ELSE GSetUpTo(i - 1)
BY DEF GSetUpTo, Idx

(* More events carry more GTIDs.                                          *)
LEMMA GSetMono ==
    ASSUME NEW a \in Int, NEW b \in Int, a <= b
    PROVE  GSetUpTo(a) \subseteq GSetUpTo(b)
BY DEF GSetUpTo

(* The GTIDs up to an event are upstream events.                         *)
LEMMA GSetType ==
    ASSUME NEW a \in Int, a <= Len(Stream)
    PROVE  GSetUpTo(a) \subseteq Idx
BY DEF GSetUpTo, Idx


(* An event after the first Before(F) events is in file F or a later one. *)
LEMMA FileOfAfter ==
    ASSUME NEW F \in Files, NEW j \in 1..(Len(Stream) + 1), Before(F) <= j - 1
    PROVE  F <= FileOf(j)
<1>1. Len(Stream) \in Nat /\ F \in Nat /\ j \in Nat /\ FileOf(j) \in Nat
    BY StreamAssumption, FileOfNat, FileOfNat DEF Files
<1>2. CASE j \in Idx
    <2>0. F \in Int
        BY <1>1
    <2>1. /\ Before(F) \in 0..Len(Stream)
          /\ {k \in Idx : FileOf(k) < F} = 1..Before(F)
        BY <2>0, BeforeInterval, Zenon
    <2>2. ~(FileOf(j) < F)
        BY <1>1, <1>2, <2>1
    <2>3. QED
        BY <1>1, <2>2
<1>3. CASE j = Len(Stream) + 1
    BY <1>1, <1>3 DEF Files
<1>4. QED
    BY <1>1, <1>2, <1>3 DEF Idx

(* No event is in a file before the first.                                *)
LEMMA BeforeFirst == Before(1) = 0
<1>1. /\ Before(1) \in 0..Len(Stream)
      /\ {j \in Idx : FileOf(j) < 1} = 1..Before(1)
    BY BeforeInterval
<1>2. \A j \in Idx : FileOf(j) \in Nat \ {0}
    BY StreamAssumption, FileOfNat DEF Idx
<1>3. QED
    BY <1>1, <1>2

(* What the invariant says of the numbers: the in-memory position is the *)
(* place of event next - 1, in file pos.file, and the flushed one is not  *)
(* after it.                                                              *)
LEMMA InvFacts ==
    ASSUME PumpInv
    PROVE  /\ Len(Stream) \in Nat
           /\ pos.file \in Files /\ pos.file \in Nat \ {0}
           /\ next \in 1..(Len(Stream) + 1)
           /\ pos.off \in Nat /\ dpos.off \in Nat
           /\ Before(pos.file) \in 0..Len(Stream)
           /\ Before(pos.file + 1) \in 0..Len(Stream)
           /\ Before(pos.file) <= next - 1
           /\ next - 1 <= Before(pos.file + 1)
           /\ pos.off = next - 1 - Before(pos.file)
           /\ pos.file <= FileOf(next)
           /\ Cnt(dpos) <= next - 1
<1>0. Len(Stream) \in Nat /\ Len(Stream) + 1 \in Nat
    BY StreamAssumption
<1>9. FileOf(Len(Stream) + 1) \in Nat \ {0}
    BY <1>0, FileOfNat, Zenon
<1>1. /\ Len(Stream) \in Nat
      /\ pos.file \in Files /\ pos.file \in Nat \ {0}
      /\ next \in 1..(Len(Stream) + 1)
      /\ pos.off \in Nat /\ dpos.off \in Nat
    BY <1>0, <1>9 DEF PumpInv, PosInv, GSetInv, PcInv, DiskInv, TypeOK,
                      Positions, Files
<1>8. pos.file \in Int
    BY <1>1
<1>2. /\ Before(pos.file) \in 0..Len(Stream)
      /\ Before(pos.file + 1) \in 0..Len(Stream)
    BY <1>8, BeforeFacts, Zenon
<1>3. /\ Before(pos.file) <= next - 1
      /\ next - 1 <= Before(pos.file + 1)
      /\ pos.off = next - 1 - Before(pos.file)
      /\ Cnt(dpos) <= next - 1
    BY <1>1, <1>2 DEF PumpInv, PosInv, GSetInv, PcInv, DiskInv, Cnt
<1>4. pos.file <= FileOf(next)
    BY <1>1, <1>3, FileOfAfter
<1>5. QED
    BY <1>1, <1>2, <1>3, <1>4

-----------------------------------------------------------------------------
(* PumpInv is inductive: each step of the pump keeps it.                   *)

LEMMA InitPumpInv == Init => PumpInv
<1> SUFFICES ASSUME Init PROVE PumpInv
    OBVIOUS
<1>0. Len(Stream) \in Nat /\ Len(Stream) + 1 \in Nat
    BY StreamAssumption
<1>1. Len(Stream) \in Nat /\ FileOf(Len(Stream) + 1) \in Nat \ {0}
    BY <1>0, FileOfNat, Zenon
<1>2. /\ Before(1) = 0
      /\ Before(1 + 1) \in 0..Len(Stream)
    BY BeforeFirst, BeforeFacts
<1>3. ASSUME NEW f \in Files PROVE Relayed(0, f) = <<>>
    <2>1. f \in Int /\ Before(f) \in 0..Len(Stream)
        BY <1>1, BeforeFacts DEF Files
    <2>2. Upto(0, f) = 0
        BY <2>1, UptoFacts
    <2>3. Relayed(0, f) \in Seq(Idx) /\ Len(Relayed(0, f)) = Upto(0, f)
        BY <2>1, RelayedType
    <2>4. QED
        BY <2>2, <2>3
<1>4. TypeOK
    <2>1. 1 \in Files /\ 0 \in 0..Len(Stream) /\ 1 \in 1..(Len(Stream) + 1)
        BY <1>1 DEF Files
    <2>2. pos \in Positions
        BY <2>1 DEF Init, Positions
    <2>3. files \in [Files -> Seq(Idx \cup {Torn})]
        BY DEF Init
    <2>4. /\ gset \subseteq Idx /\ dirty \in BOOLEAN /\ dpos \in Positions
          /\ dgset \subseteq Idx /\ next \in 1..(Len(Stream) + 1)
          /\ pc \in {"rotating", "running", "written", "stopped", "crashed"}
          /\ faults \in 0..MaxFaults
        <3>1. gset = {} /\ dirty = FALSE /\ dpos = pos /\ dgset = {} /\ next = 1
              /\ pc = "rotating" /\ faults = 0
            BY DEF Init
        <3>2. 0 \in 0..MaxFaults
            BY MaxFaultsAssumption
        <3>3. QED
            BY <2>1, <2>2, <3>1, <3>2
    <2>5. QED
        BY <2>2, <2>3, <2>4 DEF TypeOK
<1>5. Holds(Durable)
    BY <1>3 DEF Init, Holds, Durable
<1>6. QED
    BY <1>1, <1>2, <1>4, <1>5 DEF Init, PumpInv, PosInv, GSetInv, PcInv,
                                  DiskInv, Cnt, GSetUpTo


(* The deferred flush writes the in-memory meta to disk.                  *)
LEMMA FlushMetaPumpInv ==
    ASSUME PumpInv, FlushMeta
    PROVE  PumpInv'
<1>1. /\ UNCHANGED <<files, pos, gset, next, pc, faults>>
      /\ dpos' = pos /\ dgset' = gset /\ dirty' = FALSE /\ pc # "crashed"
    BY DEF FlushMeta
<1>2. TypeOK'
    BY <1>1 DEF PumpInv, TypeOK
<1>3. PosInv'
    BY <1>1, InvFacts DEF PumpInv, PosInv
<1>4. GSetInv'
    BY <1>1 DEF PumpInv, GSetInv, Cnt
<1>5. PcInv'
    BY <1>1 DEF PumpInv, PcInv
<1>6. DiskInv'
    BY <1>1 DEF PumpInv, DiskInv, Holds, Durable
<1>7. QED
    BY <1>2, <1>3, <1>4, <1>5, <1>6 DEF PumpInv

(* handleEvents returns and flushes the meta; with whole writes only, the *)
(* files are left as they are.                                            *)
LEMMA ExitPumpInv ==
    ASSUME ~PartialWrites, PumpInv, Exit
    PROVE  PumpInv'
<1>1. /\ UNCHANGED <<files, pos, gset, next>> /\ pc = "running"
      /\ pc' = "stopped" /\ dpos' = pos /\ dgset' = gset /\ dirty' = FALSE
      /\ faults < MaxFaults /\ faults' = faults + 1
    BY DEF Exit
<1>2. TypeOK'
    <2>1. faults' \in 0..MaxFaults
        BY <1>1, MaxFaultsAssumption DEF PumpInv, TypeOK
    <2>2. QED
        BY <1>1, <2>1 DEF PumpInv, TypeOK
<1>3. PosInv'
    BY <1>1, InvFacts DEF PumpInv, PosInv
<1>4. GSetInv'
    BY <1>1 DEF PumpInv, GSetInv, Cnt
<1>5. PcInv'
    BY <1>1 DEF PumpInv, PcInv
<1>6. DiskInv'
    BY <1>1 DEF PumpInv, DiskInv, Holds, Durable
<1>7. QED
    BY <1>2, <1>3, <1>4, <1>5, <1>6 DEF PumpInv

(* Resume restarts the reader right after the in-memory position, which  *)
(* is where it stopped.                                                   *)
LEMMA ResumePumpInv ==
    ASSUME PumpInv, Resume
    PROVE  PumpInv'
<1>1. /\ UNCHANGED <<files, pos, gset, dirty, dpos, dgset, faults>>
      /\ pc = "stopped" /\ pc' = "rotating" /\ next' = NextAfter(pos)
    BY DEF Resume
<1>2. next' = next
    BY <1>1, InvFacts DEF PumpInv, PosInv, NextAfter, Cnt
<1>3. TypeOK'
    BY <1>1, <1>2 DEF PumpInv, TypeOK
<1>4. PosInv'
    BY <1>1, <1>2 DEF PumpInv, PosInv
<1>5. GSetInv'
    BY <1>1 DEF PumpInv, GSetInv
<1>6. PcInv'
    BY <1>1 DEF PcInv
<1>7. DiskInv'
    BY <1>1, <1>2 DEF PumpInv, DiskInv, Holds, Durable
<1>8. QED
    BY <1>3, <1>4, <1>5, <1>6, <1>7 DEF PumpInv

(* The artificial Rotate of a new dump moves the meta to the position    *)
(* the reader resumes from, which is the in-memory one counted from the   *)
(* start of the file of the next event.                                   *)
LEMMA FakeRotatePumpInv ==
    ASSUME ~IgnoreFakeRotate, PumpInv, FakeRotate
    PROVE  PumpInv'
<1>1. /\ UNCHANGED <<files, gset, next, faults>>
      /\ pc = "rotating" /\ pc' = "running"
      /\ pos' = DumpPos /\ dpos' = DumpPos /\ dgset' = gset /\ dirty' = FALSE
    BY DEF FakeRotate
<1>2. /\ Len(Stream) \in Nat /\ next \in 1..(Len(Stream) + 1)
      /\ Cnt(pos) = next - 1
    BY InvFacts DEF PumpInv, PosInv
<1>3. /\ FileOf(next) \in Files
      /\ Before(FileOf(next)) <= next - 1
      /\ next - 1 <= Before(FileOf(next) + 1)
    BY <1>2, EventIn
<1>4. /\ FileOf(next) \in Nat
      /\ Before(FileOf(next)) \in 0..Len(Stream)
      /\ Before(FileOf(next) + 1) \in 0..Len(Stream)
    <2>1. FileOf(next) \in Nat
        BY <1>2, FileOfNat
    <2>2. FileOf(next) \in Int
        BY <2>1
    <2>3. QED
        BY <2>1, <2>2, BeforeFacts, Zenon
<1>5. /\ DumpPos.file = FileOf(next)
      /\ DumpPos.off = next - 1 - Before(FileOf(next))
      /\ DumpPos \in Positions
    <2>1. /\ DumpPos.file = FileOf(next)
          /\ DumpPos.off = next - 1 - Before(FileOf(next))
        BY <1>2, <1>4 DEF DumpPos, OffOf
    <2>2. DumpPos.off \in 0..Len(Stream)
        BY <1>2, <1>3, <1>4, <2>1
    <2>3. DumpPos \in Positions
        BY <1>3, <2>1, <2>2 DEF DumpPos, Positions
    <2>4. QED
        BY <2>1, <2>3
<1>6. TypeOK'
    BY <1>1, <1>5 DEF PumpInv, TypeOK
<1>7. PosInv'
    BY <1>1, <1>2, <1>3, <1>4, <1>5 DEF PosInv, Cnt
<1>8. GSetInv'
    BY <1>1, <1>2, <1>4, <1>5 DEF PumpInv, GSetInv, Cnt
<1>9. PcInv'
    BY <1>1, <1>5 DEF PcInv
<1>10. DiskInv'
    BY <1>1 DEF PumpInv, DiskInv, Holds, Durable
<1>11. QED
    BY <1>6, <1>7, <1>8, <1>9, <1>10 DEF PumpInv

(* A step that changes nothing keeps the invariant.                       *)
LEMMA StutterPumpInv ==
    ASSUME PumpInv, UNCHANGED vars
    PROVE  PumpInv'
BY DEF vars, PumpInv, TypeOK, PosInv, GSetInv, PcInv, DiskInv, Holds,
       HoldsTorn, Durable, Cnt


(* The pump writes event next to the file of its position.  The file      *)
(* holds the events of that file before next, so next is not a duplicate *)
(* and is appended; then the files hold the first next events.           *)
LEMMA WriteEventPumpInv ==
    ASSUME PumpInv, WriteEvent
    PROVE  PumpInv'
<1>1. /\ pc = "running" /\ next \in Idx
      /\ UNCHANGED <<pos, gset, dirty, dpos, dgset, faults>>
      /\ IF Duplicate(next)
            THEN next' = next + 1 /\ UNCHANGED <<files, pc>>
            ELSE /\ files' = [files EXCEPT ![FileOf(next)] = Append(@, next)]
                 /\ pc' = "written"
                 /\ UNCHANGED next
    BY DEF WriteEvent
<1>2. /\ FileOf(next) = pos.file
      /\ Holds(next - 1)
    BY <1>1 DEF PumpInv, PcInv, DiskInv, Durable
<1>3. /\ Len(Stream) \in Nat /\ pos.file \in Files /\ pos.file \in Nat
      /\ next \in 1..Len(Stream) /\ next - 1 \in Int
      /\ Before(pos.file) \in 0..Len(Stream)
      /\ Before(pos.file) <= next - 1 /\ next - 1 <= Before(pos.file + 1)
    BY <1>1, InvFacts DEF Idx
<1>13. pos.file \in Int
    BY <1>3
<1>4. Len(files[pos.file]) = next - 1 - Before(pos.file)
    <2>1. files[pos.file] = Relayed(next - 1, pos.file)
        BY <1>2, <1>3 DEF Holds
    <2>2. Len(Relayed(next - 1, pos.file)) = Upto(next - 1, pos.file)
        BY <1>3, <1>13, RelayedType, Zenon
    <2>3. Upto(next - 1, pos.file) = next - 1 - Before(pos.file)
        BY <1>3, <1>13, UptoFacts, Zenon
    <2>4. QED
        BY <2>1, <2>2, <2>3
<1>5. ~Duplicate(next)
    BY <1>2, <1>3, <1>4 DEF Duplicate, OffOf
<1>6. /\ files' = [files EXCEPT ![pos.file] = Append(files[pos.file], next)]
      /\ pc' = "written" /\ next' = next
    BY <1>1, <1>2, <1>5
<1>7. Holds(next)'
    <2> SUFFICES ASSUME NEW f \in Files
                 PROVE  files'[f] = Relayed(next, f)
        BY <1>6 DEF Holds
    <2>1. /\ Relayed(next, FileOf(next)) = Append(Relayed(next - 1, FileOf(next)), next)
          /\ \A g \in Int : g # FileOf(next) => Relayed(next, g) = Relayed(next - 1, g)
        BY <1>1, RelayedAppend
    <2>2. files[f] = Relayed(next - 1, f) /\ f \in Int /\ DOMAIN files = Files
        BY <1>2 DEF Holds, Files, PumpInv, TypeOK
    <2>3. QED
        BY <1>2, <1>6, <2>1, <2>2
<1>8. TypeOK'
    BY <1>1, <1>3, <1>6 DEF PumpInv, TypeOK
<1>9. PosInv' /\ GSetInv'
    BY <1>1, <1>6 DEF PumpInv, PosInv, GSetInv, Cnt
<1>10. PcInv'
    BY <1>1, <1>2, <1>6 DEF PcInv
<1>11. DiskInv'
    BY <1>6, <1>7 DEF DiskInv, Durable
<1>12. QED
    BY <1>8, <1>9, <1>10, <1>11 DEF PumpInv


(* The meta update after a written event moves the position past it: to  *)
(* the start of the next file after a Rotate, which ends its file, and to *)
(* the end of the event otherwise; a Trx event adds its GTID.             *)
LEMMA UpdateMetaPumpInv ==
    ASSUME PumpInv, UpdateMeta
    PROVE  PumpInv'
<1>1. /\ pc = "written" /\ next' = next + 1 /\ pc' = "running"
      /\ UNCHANGED <<files, faults>>
    BY DEF UpdateMeta
<1>2. /\ next \in Idx /\ FileOf(next) = pos.file /\ Holds(next)
      /\ gset = GSetUpTo(next - 1) /\ dgset = GSetUpTo(Cnt(dpos))
    BY <1>1, InvFacts DEF PumpInv, PcInv, DiskInv, Durable, GSetInv, PosInv
<1>3. /\ Len(Stream) \in Nat /\ next \in 1..Len(Stream)
      /\ pos.file \in Files /\ pos.file \in Nat /\ pos.file \in Int
      /\ Before(pos.file) \in 0..Len(Stream)
      /\ Before(pos.file + 1) \in 0..Len(Stream)
      /\ Before(pos.file) <= next - 1
      /\ dpos.file = pos.file /\ dpos.off <= pos.off /\ dpos.off \in Nat
      /\ pos.off = next - 1 - Before(pos.file)
      /\ Cnt(dpos) <= next - 1
    BY <1>2, InvFacts DEF Idx, PumpInv, PosInv
<1>4. DiskInv'
    BY <1>1, <1>2, <1>3 DEF DiskInv, Durable, Holds
<1>5. GSetUpTo(next) \subseteq Idx
    BY <1>3, GSetType
<1>6. CASE Stream[next] = "Rotate"
    <2>1. /\ pos' = RotateTarget(next) /\ dpos' = pos' /\ dgset' = gset
          /\ dirty' = FALSE /\ gset' = gset
        BY <1>6 DEF UpdateMeta
    <2>2. /\ Before(pos.file + 1) = next
          /\ FileOf(next + 1) = pos.file + 1
          /\ pos.file + 1 \in Files
        BY <1>2, <1>6, RotateEnds
    <2>3. /\ pos.file + 1 \in Int
          /\ Before(pos.file + 1 + 1) \in 0..Len(Stream)
          /\ Before(pos.file + 1) <= Before(pos.file + 1 + 1)
        <3>1. pos.file + 1 \in Int
            BY <1>3
        <3>2. QED
            BY <3>1, BeforeFacts, Zenon
    <2>4. GSetUpTo(next) = GSetUpTo(next - 1)
        BY <1>2, <1>6, GSetStep
    <2>5. /\ pos' = [file |-> pos.file + 1, off |-> 0]
          /\ pos' \in Positions
          /\ Cnt(pos') = next
        BY <1>2, <1>3, <2>1, <2>2 DEF RotateTarget, Positions, Cnt
    <2>6. TypeOK'
        <3>1. next' \in 1..(Len(Stream) + 1)
            BY <1>1, <1>3
        <3>2. gset' \subseteq Idx /\ dgset' \subseteq Idx
            BY <2>1 DEF PumpInv, TypeOK
        <3>3. QED
            BY <1>1, <2>1, <2>5, <3>1, <3>2 DEF PumpInv, TypeOK
    <2>7. PosInv'
        BY <1>1, <1>3, <2>1, <2>2, <2>3, <2>5 DEF PosInv
    <2>8. GSetInv'
        BY <1>2, <2>1, <2>4, <2>5 DEF GSetInv
    <2>9. PcInv'
        BY <1>1, <2>2, <2>5 DEF PcInv
    <2>10. QED
        BY <1>4, <2>6, <2>7, <2>8, <2>9 DEF PumpInv
<1>7. CASE Stream[next] # "Rotate"
    <2>1. /\ pos' = EventPos(next)
          /\ gset' = IF Stream[next] = "Trx" THEN GSetUpTo(next) ELSE gset
          /\ dirty' = TRUE /\ UNCHANGED <<dpos, dgset>>
        BY <1>7 DEF UpdateMeta
    <2>2. /\ next <= Before(FileOf(next) + 1)
          /\ FileOf(next + 1) = FileOf(next)
        <3>1. next \in 1..(Len(Stream) + 1)
            BY <1>3
        <3>2. next <= Before(FileOf(next) + 1)
            BY <1>2, <3>1, EventIn
        <3>3. FileOf(next + 1) = FileOf(next)
            <4>1. FileOf(next + 1) = FileOf(next) + (IF Stream[next] = "Rotate" THEN 1 ELSE 0)
                BY <1>2, FileOfStep, Zenon
            <4>2. FileOf(next) \in Nat
                BY <1>3, FileOfNat
            <4>3. QED
                BY <1>7, <4>1, <4>2
        <3>4. QED
            BY <3>2, <3>3
    <2>3. gset' = GSetUpTo(next)
        BY <1>2, <2>1, GSetStep
    <2>4. /\ pos' = [file |-> pos.file, off |-> next - Before(pos.file)]
          /\ pos' \in Positions
          /\ Cnt(pos') = next
        BY <1>2, <1>3, <2>1, <2>2 DEF EventPos, OffOf, Positions, Cnt
    <2>5. TypeOK'
        BY <1>1, <1>3, <1>5, <2>1, <2>3, <2>4 DEF PumpInv, TypeOK
    <2>6. PosInv'
        BY <1>1, <1>2, <1>3, <2>1, <2>2, <2>4 DEF PosInv
    <2>7. GSetInv'
        BY <1>2, <2>1, <2>3, <2>4 DEF GSetInv
    <2>8. PcInv'
        BY <1>1, <1>2, <2>2, <2>4 DEF PcInv
    <2>9. QED
        BY <1>4, <2>5, <2>6, <2>7, <2>8 DEF PumpInv
<1>8. QED
    BY <1>6, <1>7


(* A crash loses memory but not the files.  A crash in the middle of the  *)
(* write of event next leaves its torn bytes at the end of the file of    *)
(* the position, after the first next - 1 events.                         *)
LEMMA CrashPumpInv ==
    ASSUME PumpInv, Crash
    PROVE  PumpInv'
<1>1. /\ pc # "crashed" /\ pc' = "crashed"
      /\ faults < MaxFaults /\ faults' = faults + 1
      /\ UNCHANGED <<pos, gset, dirty, dpos, dgset, next>>
      /\ \/ UNCHANGED files
         \/ /\ pc = "running" /\ next \in Idx /\ ~Duplicate(next)
            /\ files' = [files EXCEPT ![FileOf(next)] = Append(@, Torn)]
    BY DEF Crash
<1>2. /\ Len(Stream) \in Nat /\ pos.file \in Files /\ pos.file \in Int
      /\ next \in 1..(Len(Stream) + 1)
      /\ next - 1 <= Before(pos.file + 1)
      /\ dpos.file = pos.file
      /\ Holds(Durable)
      /\ DOMAIN files = Files
    BY <1>1, InvFacts DEF PumpInv, PosInv, DiskInv, TypeOK
<1>3. TypeOK'
    <2>1. faults' \in 0..MaxFaults
        BY <1>1, MaxFaultsAssumption DEF PumpInv, TypeOK
    <2>2. files' \in [Files -> Seq(Idx \cup {Torn})]
        <3>1. CASE UNCHANGED files
            BY <3>1 DEF PumpInv, TypeOK
        <3>2. CASE /\ pc = "running" /\ next \in Idx /\ ~Duplicate(next)
                   /\ files' = [files EXCEPT ![FileOf(next)] = Append(@, Torn)]
            <4>1. /\ files \in [Files -> Seq(Idx \cup {Torn})]
                  /\ pc = "running" /\ FileOf(next) = pos.file
                  /\ pos.file \in Files
                BY <1>2, <3>2 DEF PumpInv, TypeOK, PcInv
            <4>2. Append(files[FileOf(next)], Torn) \in Seq(Idx \cup {Torn})
                BY <4>1
            <4>3. QED
                BY <3>2, <4>1, <4>2
        <3>3. QED
            BY <1>1, <3>1, <3>2
    <2>3. QED
        BY <1>1, <2>1, <2>2 DEF PumpInv, TypeOK
<1>4. PosInv' /\ GSetInv' /\ PcInv'
    BY <1>1 DEF PumpInv, PosInv, GSetInv, PcInv, Cnt
<1>5. DiskInv'
    <2> SUFFICES \E d \in {next - 1, next} :
                     /\ d <= Before(pos.file + 1)
                     /\ Holds(d)' \/ HoldsTorn(d, dpos.file)'
        BY <1>1 DEF DiskInv
    <2>1. CASE UNCHANGED files
        <3>1. Durable \in {next - 1, next}
            BY DEF Durable
        <3>2. Durable <= Before(pos.file + 1)
            <4>1. CASE pc = "written"
                <5>1. next \in Idx /\ FileOf(next) = pos.file
                    BY <4>1 DEF PumpInv, PcInv
                <5>2. next <= Before(FileOf(next) + 1)
                    BY <1>2, <5>1, EventIn
                <5>3. QED
                    BY <4>1, <5>1, <5>2 DEF Durable
            <4>2. CASE pc # "written"
                BY <1>2, <4>2 DEF Durable
            <4>3. QED
                BY <4>1, <4>2
        <3>3. \A f \in Files : files'[f] = Relayed(Durable, f)
            BY <1>2, <2>1 DEF Holds
        <3>4. QED
            BY <3>1, <3>2, <3>3 DEF Holds
    <2>2. CASE /\ pc = "running" /\ next \in Idx /\ ~Duplicate(next)
               /\ files' = [files EXCEPT ![FileOf(next)] = Append(@, Torn)]
        <3>1. FileOf(next) = pos.file /\ Durable = next - 1
            BY <2>2 DEF PumpInv, PcInv, Durable
        <3>2. \A f \in Files :
                  files'[f] = IF f = dpos.file THEN Append(Relayed(next - 1, f), Torn)
                                               ELSE Relayed(next - 1, f)
            BY <1>1, <1>2, <2>2, <3>1 DEF Holds
        <3>3. QED
            BY <1>1, <1>2, <3>2 DEF HoldsTorn
    <2>3. QED
        BY <1>1, <2>1, <2>2
<1>6. QED
    BY <1>3, <1>4, <1>5 DEF PumpInv


(* Recovery truncates the file of the flushed position to its complete    *)
(* events, which are the first d events for the d the crash left; the     *)
(* GTID set computed from the file is the one up to d, and it contains   *)
(* the flushed one, so the recovered set is the one up to d whichever    *)
(* branch tryRecoverLatestFile takes; the reader resumes at event d + 1.  *)
LEMMA RestartPumpInv ==
    ASSUME PumpInv, Restart
    PROVE  PumpInv'
<1>1. /\ pc = "crashed" /\ pc' = "rotating" /\ UNCHANGED faults
      /\ files' = [files EXCEPT ![dpos.file] = CompletePrefix(files[dpos.file])]
      /\ pos' = [file |-> dpos.file, off |-> Len(CompletePrefix(files[dpos.file]))]
      /\ gset' = RecoveredGSet(dpos.file, CompletePrefix(files[dpos.file]))
      /\ dpos' = pos' /\ dgset' = gset' /\ dirty' = FALSE
      /\ next' = NextAfter(pos')
    BY DEF Restart
<1>2. /\ Len(Stream) \in Nat /\ pos.file \in Files /\ pos.file \in Int
      /\ next \in 1..(Len(Stream) + 1)
      /\ Before(pos.file) \in 0..Len(Stream)
      /\ Before(pos.file + 1) \in 0..Len(Stream)
      /\ Before(pos.file) <= next - 1
      /\ dpos.file = pos.file
      /\ Cnt(dpos) <= next - 1 /\ Cnt(dpos) \in Int
      /\ dgset = GSetUpTo(Cnt(dpos))
      /\ DOMAIN files = Files
    BY <1>1, InvFacts DEF PumpInv, PosInv, GSetInv, TypeOK, Cnt
<1>3. PICK d \in {next - 1, next} :
          /\ d <= Before(pos.file + 1)
          /\ Holds(d) \/ HoldsTorn(d, dpos.file)
    BY <1>1 DEF PumpInv, DiskInv
<1>4. /\ d \in Int /\ Before(pos.file) <= d /\ d <= Len(Stream)
      /\ Cnt(dpos) <= d
    BY <1>2, <1>3
<1>5. CompletePrefix(files[dpos.file]) = Relayed(d, pos.file)
    <2>1. /\ CompletePrefix(Relayed(d, pos.file)) = Relayed(d, pos.file)
          /\ CompletePrefix(Append(Relayed(d, pos.file), Torn)) = Relayed(d, pos.file)
        BY <1>2, <1>4, CompletePrefixRelayed, Zenon
    <2>2. files[pos.file] \in {Relayed(d, pos.file), Append(Relayed(d, pos.file), Torn)}
        BY <1>2, <1>3 DEF Holds, HoldsTorn
    <2>3. QED
        BY <1>2, <2>1, <2>2
<1>6. /\ Relayed(d, pos.file) \in Seq(Idx)
      /\ Len(Relayed(d, pos.file)) = d - Before(pos.file)
    <2>1. /\ Relayed(d, pos.file) \in Seq(Idx)
          /\ Len(Relayed(d, pos.file)) = Upto(d, pos.file)
        BY <1>2, <1>4, RelayedType, Zenon
    <2>2. Upto(d, pos.file) = d - Before(pos.file)
        BY <1>2, <1>3, <1>4, UptoFacts, Zenon
    <2>3. QED
        BY <2>1, <2>2
<1>7. /\ pos' = [file |-> pos.file, off |-> d - Before(pos.file)]
      /\ pos' \in Positions
      /\ Cnt(pos') = d
      /\ next' = d + 1
    BY <1>1, <1>2, <1>4, <1>5, <1>6 DEF Positions, Cnt, NextAfter
<1>8. gset' = GSetUpTo(d)
    <2>1. gset' = IF GSetUpTo(d) \subseteq dgset THEN dgset ELSE GSetUpTo(d)
        <3>1. Before(dpos.file) + Len(CompletePrefix(files[dpos.file])) = d
            BY <1>2, <1>4, <1>5, <1>6
        <3>2. QED
            BY <1>1, <3>1 DEF RecoveredGSet
    <2>2. dgset \subseteq GSetUpTo(d)
        BY <1>2, <1>4, GSetMono
    <2>3. QED
        BY <2>1, <2>2
<1>9. \A f \in Files : files'[f] = Relayed(d, f)
    BY <1>1, <1>2, <1>3, <1>5 DEF Holds, HoldsTorn
<1>10. TypeOK'
    <2>1. files' \in [Files -> Seq(Idx \cup {Torn})]
        BY <1>1, <1>2, <1>5, <1>6 DEF PumpInv, TypeOK
    <2>2. gset' \subseteq Idx /\ next' \in 1..(Len(Stream) + 1)
        BY <1>2, <1>3, <1>4, <1>7, <1>8, GSetType
    <2>3. QED
        BY <1>1, <1>7, <2>1, <2>2 DEF PumpInv, TypeOK
<1>11. PosInv'
    BY <1>1, <1>2, <1>3, <1>4, <1>7 DEF PosInv
<1>12. GSetInv'
    BY <1>1, <1>7, <1>8 DEF GSetInv
<1>13. PcInv'
    BY <1>1 DEF PcInv
<1>14. DiskInv'
    BY <1>1, <1>4, <1>7, <1>9 DEF DiskInv, Durable, Holds
<1>15. QED
    BY <1>10, <1>11, <1>12, <1>13, <1>14 DEF PumpInv


(* With the Transformer handling the artificial Rotate and WriteEvent     *)
(* writing whole events, every step of the pump keeps PumpInv.            *)
LEMMA NextPumpInv ==
    ASSUME ~PartialWrites, ~IgnoreFakeRotate
    PROVE  PumpInv /\ [Next]_vars => PumpInv'
<1> SUFFICES ASSUME PumpInv, [Next]_vars PROVE PumpInv'
    OBVIOUS
<1>1. CASE FakeRotate
    BY <1>1, FakeRotatePumpInv
<1>2. CASE WriteEvent
    BY <1>2, WriteEventPumpInv
<1>3. CASE UpdateMeta
    BY <1>3, UpdateMetaPumpInv
<1>4. CASE FlushMeta
    BY <1>4, FlushMetaPumpInv
<1>5. CASE Exit
    BY <1>5, ExitPumpInv
<1>6. CASE Resume
    BY <1>6, ResumePumpInv
<1>7. CASE Crash
    BY <1>7, CrashPumpInv
<1>8. CASE Restart
    BY <1>8, RestartPumpInv
<1>9. CASE UNCHANGED vars
    BY <1>9, StutterPumpInv
<1>10. QED
    BY <1>1, <1>2, <1>3, <1>4, <1>5, <1>6, <1>7, <1>8, <1>9 DEF Next

-----------------------------------------------------------------------------
(* The properties, from the invariant.                                    *)

(* The files hold the first d events, for a d between the start of the   *)
(* file of the position and its end, and not before the flushed position; *)
(* only after a crash may that file end in a torn event.                  *)
LEMMA DiskShape ==
    ASSUME PumpInv
    PROVE  \E d \in Int :
               /\ Before(pos.file) <= d /\ d <= Before(pos.file + 1)
               /\ Cnt(dpos) <= d
               /\ \/ Holds(d)
                  \/ pc = "crashed" /\ HoldsTorn(d, pos.file)
<1>1. /\ Len(Stream) \in Nat /\ pos.file \in Files /\ pos.file \in Int
      /\ next \in 1..(Len(Stream) + 1)
      /\ Before(pos.file) \in 0..Len(Stream)
      /\ Before(pos.file + 1) \in 0..Len(Stream)
      /\ Before(pos.file) <= next - 1 /\ next - 1 <= Before(pos.file + 1)
      /\ Cnt(dpos) <= next - 1 /\ dpos.file = pos.file
    BY InvFacts DEF PumpInv, PosInv
<1>9. Cnt(dpos) \in Int
    BY <1>1, InvFacts DEF Cnt
<1>2. CASE pc = "crashed"
    <2>1. PICK d \in {next - 1, next} :
              /\ d <= Before(pos.file + 1)
              /\ Holds(d) \/ HoldsTorn(d, dpos.file)
        BY <1>2 DEF PumpInv, DiskInv
    <2>2. /\ d \in Int /\ Before(pos.file) <= d /\ d <= Before(pos.file + 1)
          /\ Cnt(dpos) <= d
        BY <1>1, <1>9, <2>1
    <2>3. Holds(d) \/ HoldsTorn(d, pos.file)
        BY <1>1, <2>1
    <2>4. QED
        BY <1>2, <2>2, <2>3, Zenon
<1>3. CASE pc # "crashed"
    <2>1. Holds(Durable) /\ Durable \in {next - 1, next}
        BY <1>3 DEF PumpInv, DiskInv, Durable
    <2>2. Durable <= Before(pos.file + 1)
        <3>1. CASE pc = "written"
            <4>1. next \in Idx /\ FileOf(next) = pos.file
                BY <3>1 DEF PumpInv, PcInv
            <4>2. next <= Before(FileOf(next) + 1)
                BY <1>1, <4>1, EventIn
            <4>3. QED
                BY <3>1, <4>1, <4>2 DEF Durable
        <3>2. CASE pc # "written"
            BY <1>1, <3>2 DEF Durable
        <3>3. QED
            BY <3>1, <3>2
    <2>3. /\ Durable \in Int /\ Before(pos.file) <= Durable /\ Cnt(dpos) <= Durable
        BY <1>1, <1>9, <2>1
    <2>4. QED
        BY <2>1, <2>2, <2>3, Zenon
<1>4. QED
    BY <1>2, <1>3

(* The meta on disk describes the relay log, from the invariant.          *)
LEMMA InvMetaDescribesRelay ==
    ASSUME PumpInv
    PROVE  MetaDescribesRelay
<1>1. PICK d \in Int :
          /\ Before(pos.file) <= d /\ d <= Before(pos.file + 1)
          /\ Cnt(dpos) <= d
          /\ \/ Holds(d)
             \/ pc = "crashed" /\ HoldsTorn(d, pos.file)
    BY DiskShape
<1>2. /\ pos.file \in Files /\ pos.file \in Int /\ dpos.file = pos.file
      /\ DOMAIN files = Files
      /\ Before(pos.file) \in 0..Len(Stream)
      /\ dpos.off \in Nat
    BY InvFacts DEF PumpInv, PosInv, TypeOK
<1>3. CompletePrefix(files[dpos.file]) = Relayed(d, pos.file)
    <2>1. /\ CompletePrefix(Relayed(d, pos.file)) = Relayed(d, pos.file)
          /\ CompletePrefix(Append(Relayed(d, pos.file), Torn)) = Relayed(d, pos.file)
        BY <1>2, CompletePrefixRelayed, Zenon
    <2>2. files[pos.file] \in {Relayed(d, pos.file), Append(Relayed(d, pos.file), Torn)}
        BY <1>1, <1>2 DEF Holds, HoldsTorn
    <2>3. QED
        BY <1>2, <2>1, <2>2
<1>4. Len(Relayed(d, pos.file)) = d - Before(pos.file)
    <2>1. Len(Relayed(d, pos.file)) = Upto(d, pos.file)
        BY <1>2, RelayedType, Zenon
    <2>2. Upto(d, pos.file) = d - Before(pos.file)
        BY <1>1, <1>2, UptoFacts, Zenon
    <2>3. QED
        BY <2>1, <2>2
<1>5. dpos.off <= Len(CompletePrefix(files[dpos.file]))
    BY <1>1, <1>2, <1>3, <1>4 DEF Cnt
<1>6. QED
    BY <1>5 DEF MetaDescribesRelay, PumpInv, GSetInv, Cnt


(* The first d events' part of a file is a prefix of the file in the      *)
(* upstream binlog, and all of it once d reaches the file's end.          *)
LEMMA RelayedPrefix ==
    ASSUME NEW d \in Int, NEW f \in Int
    PROVE  /\ IsPrefix(Relayed(d, f), FileEvents(f))
           /\ d >= Before(f + 1) => Relayed(d, f) = FileEvents(f)
<1>1. /\ Before(f) \in 0..Len(Stream) /\ Before(f + 1) \in 0..Len(Stream)
      /\ FileEvents(f) = [k \in 1..(Before(f + 1) - Before(f)) |-> Before(f) + k]
    BY BeforeFacts, FileEventsForm
<1>2. /\ Upto(d, f) \in 0..(Before(f + 1) - Before(f))
      /\ d >= Before(f + 1) => Upto(d, f) = Before(f + 1) - Before(f)
    BY UptoFacts
<1>3. IsPrefix(Relayed(d, f), FileEvents(f))
    BY <1>1, <1>2 DEF IsPrefix, Relayed
<1>4. d >= Before(f + 1) => Relayed(d, f) = FileEvents(f)
    BY <1>1, <1>2 DEF Relayed
<1>5. QED
    BY <1>3, <1>4

(* Every relay file is a prefix of its upstream file, from the invariant. *)
LEMMA InvRelayIsStreamPrefix ==
    ASSUME PumpInv
    PROVE  RelayIsStreamPrefix
<1>1. PICK d \in Int :
          /\ Before(pos.file) <= d /\ d <= Before(pos.file + 1)
          /\ Cnt(dpos) <= d
          /\ \/ Holds(d)
             \/ pc = "crashed" /\ HoldsTorn(d, pos.file)
    BY DiskShape
<1>2. /\ pos.file \in Files /\ pos.file \in Int
      /\ Before(pos.file + 1) \in 0..Len(Stream)
      /\ Files \subseteq Int
    BY InvFacts DEF Files
<1>3. ASSUME NEW f \in Files
      PROVE  /\ CompletePrefix(files[f]) = Relayed(d, f)
             /\ \/ files[f] = Relayed(d, f)
                \/ /\ pc = "crashed" /\ f = pos.file
                   /\ files[f] = Append(Relayed(d, f), Torn)
    <2>1. f \in Int
        BY <1>2
    <2>2. /\ CompletePrefix(Relayed(d, f)) = Relayed(d, f)
          /\ CompletePrefix(Append(Relayed(d, f), Torn)) = Relayed(d, f)
        BY <2>1, CompletePrefixRelayed, Zenon
    <2>3. \/ files[f] = Relayed(d, f)
          \/ /\ pc = "crashed" /\ f = pos.file
             /\ files[f] = Append(Relayed(d, f), Torn)
        BY <1>1 DEF Holds, HoldsTorn
    <2>4. QED
        BY <2>2, <2>3
<1>4. ASSUME NEW f \in Files
      PROVE  /\ IsPrefix(CompletePrefix(files[f]), FileEvents(f))
             /\ files[f] # CompletePrefix(files[f]) =>
                   /\ pc = "crashed"
                   /\ files[f] = CompletePrefix(files[f]) \o <<Torn>>
    <2>1. f \in Int
        BY <1>2
    <2>2. IsPrefix(Relayed(d, f), FileEvents(f)) /\ Relayed(d, f) \in Seq(Idx)
        BY <2>1, RelayedPrefix, RelayedType, Zenon
    <2>3. /\ CompletePrefix(files[f]) = Relayed(d, f)
          /\ \/ files[f] = Relayed(d, f)
             \/ /\ pc = "crashed" /\ f = pos.file
                /\ files[f] = Append(Relayed(d, f), Torn)
        BY <1>3
    <2>4. Append(Relayed(d, f), Torn) = Relayed(d, f) \o <<Torn>>
        BY <2>2
    <2>5. QED
        BY <2>2, <2>3, <2>4
<1>5. ASSUME NEW f \in Files, NEW g \in Files, f < g, files[g] # <<>>
      PROVE  files[f] = FileEvents(f)
    <2>1. f \in Int /\ g \in Int /\ f + 1 \in Int /\ f + 1 <= g
        BY <1>2, <1>5
    <2>2. /\ Before(g) \in 0..Len(Stream)
          /\ d <= Before(g) => Upto(d, g) = 0
          /\ Len(Relayed(d, g)) = Upto(d, g) /\ Relayed(d, g) \in Seq(Idx)
        BY <2>1, BeforeFacts, UptoFacts, RelayedType, Zenon
    <2>3. files[g] = Relayed(d, g) => Before(g) < d
        BY <1>5, <2>2
    <2>4. Before(f + 1) <= Before(g)
        BY <2>1, BeforeMono, Zenon
    <2>5. Before(f + 1) \in 0..Len(Stream)
        BY <2>1, BeforeFacts, Zenon
    <2>6. Before(g) <= d
        BY <1>1, <1>3, <2>2, <2>3
    <2>7. Relayed(d, f) = FileEvents(f)
        <3>1. d >= Before(f + 1)
            BY <2>2, <2>4, <2>5, <2>6
        <3>2. QED
            BY <2>1, <3>1, RelayedPrefix, Zenon
    <2>8. files[f] = Relayed(d, f)
        <3>1. CASE f = pos.file
            <4>1. g # pos.file /\ Before(pos.file + 1) <= Before(g)
                <5>1. g # pos.file
                    BY <1>5, <2>1, <3>1
                <5>2. Before(pos.file + 1) <= Before(g)
                    BY <2>4, <3>1
                <5>3. QED
                    BY <5>1, <5>2
            <4>2. files[g] = Relayed(d, g)
                BY <1>3, <4>1
            <4>3. QED
                BY <1>1, <1>2, <1>3, <2>2, <2>3, <3>1, <4>1, <4>2
        <3>2. CASE f # pos.file
            BY <1>3, <3>2
        <3>3. QED
            BY <3>1, <3>2
    <2>9. QED
        BY <2>7, <2>8
<1>6. QED
    BY <1>4, <1>5 DEF RelayIsStreamPrefix


(* No step moves the flushed position back.  The artificial Rotate flushes *)
(* the position of the next event, which is not before the in-memory one; *)
(* a real Rotate flushes the start of the next file; the flushes flush the *)
(* in-memory position; recovery flushes the end of the complete events of *)
(* the flushed file, which the flushed position does not pass.            *)
LEMMA NextMetaMonotonic ==
    ASSUME ~IgnoreFakeRotate, PumpInv, [Next]_vars
    PROVE  PosLeq(dpos, dpos')
<1>1. /\ pos.file \in Nat /\ dpos.file = pos.file
      /\ pos.off \in Nat /\ dpos.off \in Nat /\ dpos.off <= pos.off
      /\ next \in 1..(Len(Stream) + 1) /\ Len(Stream) \in Nat
      /\ pos.off = next - 1 - Before(pos.file)
      /\ pos.file <= FileOf(next)
    BY InvFacts DEF PumpInv, PosInv
<1>2. CASE UNCHANGED dpos
    BY <1>1, <1>2 DEF PosLeq
<1>3. CASE dpos' = pos
    BY <1>1, <1>3 DEF PosLeq
<1>4. CASE FakeRotate
    <2>1. dpos' = DumpPos
        BY <1>4 DEF FakeRotate
    <2>2. FileOf(next) \in Nat /\ FileOf(next) \in Int
        BY <1>1, FileOfNat
    <2>3. Before(FileOf(next)) \in 0..Len(Stream)
        BY <2>2, BeforeFacts, Zenon
    <2>4. /\ DumpPos.file = FileOf(next)
          /\ DumpPos.off = next - 1 - Before(FileOf(next))
        BY <1>1, <2>3 DEF DumpPos, OffOf
    <2>5. QED
        BY <1>1, <2>1, <2>2, <2>4 DEF PosLeq
<1>5. CASE UpdateMeta
    <2>1. CASE Stream[next] = "Rotate"
        <3>1. pc = "written" /\ dpos' = RotateTarget(next)
            BY <1>5, <2>1 DEF UpdateMeta
        <3>2. FileOf(next) = pos.file
            BY <3>1 DEF PumpInv, PcInv
        <3>3. QED
            BY <1>1, <3>1, <3>2 DEF RotateTarget, PosLeq
    <2>5. CASE Stream[next] # "Rotate"
        BY <1>2, <1>5, <2>5 DEF UpdateMeta
    <2>6. QED
        BY <2>1, <2>5
<1>6. CASE Restart
    <2>1. dpos' = [file |-> dpos.file, off |-> Len(CompletePrefix(files[dpos.file]))]
        BY <1>6 DEF Restart
    <2>2. dpos.off <= Len(CompletePrefix(files[dpos.file]))
        BY InvMetaDescribesRelay DEF MetaDescribesRelay
    <2>3. QED
        BY <1>1, <2>1, <2>2 DEF PosLeq
<1>7. QED
    <2>1. CASE WriteEvent \/ Resume \/ Crash \/ UNCHANGED vars
        BY <1>2, <2>1 DEF WriteEvent, Resume, Crash, vars
    <2>2. CASE FlushMeta \/ Exit
        BY <1>3, <2>2 DEF FlushMeta, Exit
    <2>3. QED
        BY <1>4, <1>5, <1>6, <2>1, <2>2 DEF Next

-----------------------------------------------------------------------------
(* The pump invariant for the code's Transformer and Writer: the          *)
(* artificial Rotate is handled, and a failed write leaves nothing.       *)
THEOREM PumpInvHolds ==
    ASSUME ~PartialWrites, ~IgnoreFakeRotate
    PROVE  Spec => []PumpInv
BY InitPumpInv, NextPumpInv, PTL DEF Spec

(* Across crashes, torn writes, exits and restarts, every relay file of   *)
(* the pump holds a prefix of its upstream binlog file, complete files    *)
(* before the last one, and incomplete bytes only at the end of a file    *)
(* of a crashed process, for every upstream binlog and bound on faults.   *)
THEOREM RelayIsStreamPrefixHolds ==
    ASSUME ~PartialWrites, ~IgnoreFakeRotate
    PROVE  Spec => []RelayIsStreamPrefix
<1>1. PumpInv => RelayIsStreamPrefix
    BY InvRelayIsStreamPrefix
<1>2. QED
    BY <1>1, PumpInvHolds, PTL

(* The meta relay.meta on disk never names a position past the complete  *)
(* events of its relay file, and its GTID set is exactly the transactions *)
(* up to that position, for every upstream binlog and bound on faults.    *)
THEOREM MetaDescribesRelayHolds ==
    ASSUME ~PartialWrites, ~IgnoreFakeRotate
    PROVE  Spec => []MetaDescribesRelay
<1>1. PumpInv => MetaDescribesRelay
    BY InvMetaDescribesRelay
<1>2. QED
    BY <1>1, PumpInvHolds, PTL

(* No step of the pump, recovery included, moves the flushed meta         *)
(* position back (spec.md 8.3), for every upstream binlog and bound on    *)
(* faults.                                                                *)
THEOREM MetaMonotonicHolds ==
    ASSUME ~PartialWrites, ~IgnoreFakeRotate
    PROVE  Spec => MetaMonotonic
<1>1. PumpInv /\ [Next]_vars => [PosLeq(dpos, dpos')]_vars
    BY NextMetaMonotonic
<1>2. QED
    BY <1>1, PumpInvHolds, PTL DEF Spec, MetaMonotonic


(* Every relay file reads to its end: incomplete bytes, if any, are its   *)
(* last event, so the binlog parser of a reader loses no complete event,  *)
(* for every upstream binlog and bound on faults, when a failed write     *)
(* leaves nothing behind.                                                 *)
THEOREM RelayParsableHolds ==
    ASSUME ~PartialWrites, ~IgnoreFakeRotate
    PROVE  Spec => []RelayParsable
<1>1. RelayIsStreamPrefix => RelayParsable
    BY DEF RelayIsStreamPrefix, RelayParsable
<1>2. QED
    BY <1>1, RelayIsStreamPrefixHolds, PTL


(* The pump's state keeps its types in every reachable state: the meta   *)
(* positions name offsets of the upstream files, relay files hold event  *)
(* numbers or torn bytes, the next event to relay is at most one past    *)
(* the end of the binlog and the fault counter stays within MaxFaults,   *)
(* for every upstream binlog and bound on faults.                        *)
(* TypeOK alone is not inductive (Resume and Restart rely on the         *)
(* position bounds of PosInv), so it follows from PumpInv.               *)
THEOREM PumpTypeOKHolds ==
    ASSUME ~PartialWrites, ~IgnoreFakeRotate
    PROVE  Spec => []TypeOK
<1>1. PumpInv => TypeOK
    BY DEF PumpInv
<1>2. QED
    BY <1>1, PumpInvHolds, PTL

=============================================================================

--------------------------- MODULE RelayIndexProofs ---------------------------
(***************************************************************************)
(* IndexMatchesDisk for every bound on suffixes and reconnections.  With  *)
(* TypeOK it is inductive.  The one step that needs an argument is        *)
(* reSetupMeta without an override: the new suffix is the last one plus   *)
(* one, and the last suffix of a strictly increasing index is its         *)
(* largest, so the index stays strictly increasing.                       *)
(***************************************************************************)
EXTENDS RelayIndex, TLAPS

IInv == TypeOK /\ IndexMatchesDisk

LEMMA InitIInv == Init => IInv
BY BoundsAssumption DEF Init, IInv, TypeOK, IndexMatchesDisk, ToSet

(* Appending a suffix above every element keeps a sequence strictly       *)
(* increasing and adds the suffix to its set of elements.                 *)
LEMMA AppendAbove ==
    ASSUME NEW seq \in Seq(Nat), NEW s \in Nat,
           \A i, j \in 1..Len(seq) : i < j => seq[i] < seq[j],
           \A i \in 1..Len(seq) : seq[i] < s
    PROVE  /\ \A i, j \in 1..Len(Append(seq, s)) :
                  i < j => Append(seq, s)[i] < Append(seq, s)[j]
           /\ ToSet(Append(seq, s)) = ToSet(seq) \cup {s}
<1>1. \A i, j \in 1..Len(Append(seq, s)) :
          i < j => Append(seq, s)[i] < Append(seq, s)[j]
    BY DEF ToSet
<1>2. ToSet(Append(seq, s)) = ToSet(seq) \cup {s}
    BY DEF ToSet
<1>3. QED
    BY <1>1, <1>2

(* The last suffix of a strictly increasing index is its largest.         *)
LEMMA LastIsMax ==
    ASSUME NEW seq \in Seq(Nat), seq # <<>>,
           \A i, j \in 1..Len(seq) : i < j => seq[i] < seq[j]
    PROVE  \A i \in 1..Len(seq) : seq[i] < Last(seq) + 1
BY DEF Last

LEMMA NextIInv == IInv /\ [Next]_vars => IInv'
<1> SUFFICES ASSUME IInv, [Next]_vars PROVE IInv'
    OBVIOUS
<1> USE BoundsAssumption DEF IInv
<1>1. ASSUME NEW s \in DirSuffixes, Bind(s) PROVE IInv'
    BY <1>1 DEF Bind, TypeOK, IndexMatchesDisk, DirSuffixes
<1>2. CASE ReSetupMeta
    <2> DEFINE base == IF cfgSuffix > 0 THEN <<>> ELSE index
               kept == IF cfgSuffix > 0 THEN {} ELSE onDisk
               s == NewSuffix(base, cfgSuffix)
    <2>1. /\ Len(history) < MaxSetups
          /\ s <= MaxSuffix
          /\ index' = Append(base, s)
          /\ onDisk' = kept \cup {s}
          /\ pos' = IF Len(index') = 1 THEN "start" ELSE "min"
          /\ cfgSuffix' = 0
          /\ history' = Append(history, s)
        BY <1>2 DEF ReSetupMeta
    <2>2. base \in Seq(DirSuffixes) /\ kept = ToSet(base)
          /\ \A i, j \in 1..Len(base) : i < j => base[i] < base[j]
        BY DEF TypeOK, IndexMatchesDisk, ToSet
    <2>3. s \in DirSuffixes /\ \A i \in 1..Len(base) : base[i] < s
        <3>1. CASE cfgSuffix > 0
            BY <3>1, <2>1 DEF NewSuffix, TypeOK, DirSuffixes
        <3>2. CASE cfgSuffix = 0 /\ index = <<>>
            BY <3>2, <2>1 DEF NewSuffix, TypeOK, DirSuffixes
        <3>3. CASE cfgSuffix = 0 /\ index # <<>>
            <4>1. index \in Seq(Nat) /\ base = index
                BY <3>3 DEF TypeOK, DirSuffixes
            <4>2. s = Last(index) + 1
                BY <3>3 DEF NewSuffix
            <4>3. \A i \in 1..Len(index) : index[i] < Last(index) + 1
                BY <3>3, <4>1, LastIsMax DEF IndexMatchesDisk
            <4>4. Last(index) \in Nat
                BY <3>3, <4>1 DEF Last
            <4>5. QED
                BY <2>1, <4>1, <4>2, <4>3, <4>4 DEF DirSuffixes
        <3>4. QED
            BY <3>1, <3>2, <3>3 DEF TypeOK
    <2>4. IndexMatchesDisk'
        <3>1. base \in Seq(Nat) /\ s \in Nat
            BY <2>2, <2>3 DEF DirSuffixes
        <3>2. QED
            BY <2>1, <2>2, <2>3, <3>1, AppendAbove DEF IndexMatchesDisk
    <2>5. TypeOK'
        BY <2>1, <2>2, <2>3 DEF TypeOK, ToSet
    <2>6. QED
        BY <2>4, <2>5
<1>3. CASE UNCHANGED vars
    BY <1>3 DEF vars, TypeOK, IndexMatchesDisk
<1>4. QED
    BY <1>1, <1>2, <1>3 DEF Next

(* Whatever bindings with suffix overrides and reconnections happen, the  *)
(* index is strictly increasing and lists exactly the sub-directories in  *)
(* the relay directory, for every bound on suffixes and reconnections.    *)
THEOREM IndexMatchesDiskHolds == Spec => []IndexMatchesDisk
<1>1. IInv => IndexMatchesDisk
    BY DEF IInv
<1>2. QED
    BY <1>1, InitIInv, NextIInv, PTL DEF Spec

(* Type correctness of the index, the directory, the meta's start        *)
(* position and the pending override, within the bounds on suffixes and   *)
(* reconnections.                                                         *)
THEOREM IndexTypeOKHolds == Spec => []TypeOK
<1>1. IInv => TypeOK
    BY DEF IInv
<1>2. QED
    BY <1>1, InitIInv, NextIInv, PTL DEF Spec

=============================================================================

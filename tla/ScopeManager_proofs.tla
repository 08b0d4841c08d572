------------------------- MODULE ScopeManager_proofs -------------------------
(***************************************************************************)
(* A scope is set to the whole of the last acquisition that reached it.    *)
(* The invariant behind it: the driver of a scope is never in sink mode,   *)
(* so that what it writes arrives, and what clients name is a scope of the *)
(* FPGA, whose registers are all apart, or touches no setting of one.      *)
(*                                                                         *)
(* And a capture is answered with what was sampled.  The loops over the    *)
(* buffer and over the channels are folds, taken one step at a time: the   *)
(* lists have, of the samples up to here, those of their channel at their  *)
(* ranks; the answer has, of the channels up to here, those that are on.   *)
(***************************************************************************)
EXTENDS ScopeManager, FpgaBridge_proofs, FiniteFolds, SequenceTheorems

Index(address) == register_address_to_index(address)

\* A run of stores to mapped addresses is performed to its end.
Mapped(stores) == \A i \in DOMAIN stores : ControlMapped(stores[i][1])

LEMMA AllPerformed ==
  ASSUME NEW stores \in Seq(Int \X Int), Mapped(stores)
  PROVE  Performed(stores) = DOMAIN stores
<1>1. ASSUME NEW i \in DOMAIN stores, NEW j \in 1 .. i
      PROVE  ControlMapped(stores[j][1])
  BY <1>1 DEF Mapped
<1> QED BY <1>1 DEF Performed

\* A word that one store alone hits holds what that store wrote.
LEMMA StoredOnce ==
  ASSUME NEW stores \in Seq(Int \X Int), Mapped(stores), NEW i \in DOMAIN stores,
         Index(stores[i][1]) \in 0 .. ControlWords - 1,
         \A j \in DOMAIN stores : Index(stores[j][1]) = Index(stores[i][1]) => j = i
  PROVE  Stored(stores)[Index(stores[i][1])] = stores[i][2]
<1> DEFINE k == Index(stores[i][1])
           hit == LastHit(stores, Performed(stores), k)
<1>1. hit = {i}
  <2>1. Performed(stores) = DOMAIN stores
    BY AllPerformed
  <2>2. i <= i
    OBVIOUS
  <2> QED BY <2>1, <2>2 DEF LastHit, Index
<1>2. (CHOOSE j \in hit : TRUE) = i
  BY <1>1
<1>3. hit # {}
  BY <1>1
<1>4. Stored(stores)[k] = IF hit = {} THEN registers[k] ELSE stores[CHOOSE j \in hit : TRUE][2]
  BY DEF Stored
<1> HIDE DEF k, hit
<1> QED BY <1>2, <1>3, <1>4 DEF k

\* A word that no store hits is left as it is.
LEMMA StoredNowhere ==
  ASSUME NEW stores \in Seq(Int \X Int), NEW k \in 0 .. ControlWords - 1,
         \A j \in DOMAIN stores : Index(stores[j][1]) # k
  PROVE  Stored(stores)[k] = registers[k]
<1>1. LastHit(stores, Performed(stores), k) = {}
  BY DEF LastHit, Performed, Index
<1> QED BY <1>1 DEF Stored

----------------------------------------------------------------------------
(* The registers of the scopes *)

LEMMA ScopeWords ==
  ASSUME NEW b \in ScopeAddresses, NEW i \in DOMAIN ScopeOffsets
  PROVE  /\ b + ScopeOffsets[i] \in Int
         /\ Index(b + ScopeOffsets[i]) \in 0 .. ControlWords - 1
<1>1. ControlMapped(b + ScopeOffsets[i])
  BY ScopesApart
<1>2. b + ScopeOffsets[i] \in Int
  BY ScopeAssumption DEF ScopeOffsets
<1> HIDE DEF ScopeOffsets
<1> QED BY <1>1, <1>2, BusAssumption DEF ControlMapped, Index, register_address_to_index

LEMMA OffsetNamesAt ==
  ASSUME NEW b \in Nat
  PROVE  /\ DOMAIN ScopeOffsets = 1 .. 11
         /\ MuxCtrl(b) = b + ScopeOffsets[1]    /\ TbCtrl(b) = b + ScopeOffsets[2]
         /\ TbPeriod(b) = b + ScopeOffsets[3]   /\ TbThreshold(b) = b + ScopeOffsets[4]
         /\ TrgMode(b) = b + ScopeOffsets[5]    /\ TrgLvl(b) = b + ScopeOffsets[6]
         /\ BufLow(b) = b + ScopeOffsets[7]     /\ TrgSrc(b) = b + ScopeOffsets[8]
         /\ TrgPoint(b) = b + ScopeOffsets[9]   /\ AcqMode(b) = b + ScopeOffsets[10]
         /\ TrgStatus(b) = b + ScopeOffsets[11]
BY ScopeAssumption DEF ScopeOffsets, MuxCtrl, TbCtrl, TbPeriod, TbThreshold, TrgMode, TrgLvl,
     BufLow, TrgSrc, TrgPoint, AcqMode, TrgStatus

LEMMA OffsetNames ==
  ASSUME NEW b \in ScopeAddresses
  PROVE  /\ DOMAIN ScopeOffsets = 1 .. 11
         /\ MuxCtrl(b) = b + ScopeOffsets[1]    /\ TbCtrl(b) = b + ScopeOffsets[2]
         /\ TbPeriod(b) = b + ScopeOffsets[3]   /\ TbThreshold(b) = b + ScopeOffsets[4]
         /\ TrgMode(b) = b + ScopeOffsets[5]    /\ TrgLvl(b) = b + ScopeOffsets[6]
         /\ BufLow(b) = b + ScopeOffsets[7]     /\ TrgSrc(b) = b + ScopeOffsets[8]
         /\ TrgPoint(b) = b + ScopeOffsets[9]   /\ AcqMode(b) = b + ScopeOffsets[10]
         /\ TrgStatus(b) = b + ScopeOffsets[11]
<1>1. b \in Nat
  BY ScopeAssumption
<1> QED BY <1>1, OffsetNamesAt

\* No address a client sends, with the offset it sends or, if it is of no scope,
\* with any of a scope's, is of a setting of a scope.
LEMMA SettingsSpared ==
  ASSUME NEW a \in Bases, NEW b \in ScopeAddresses, NEW i \in Compared
  PROVE  /\ \A offset \in BufferOffsets : Index(a + offset) # Index(b + ScopeOffsets[i])
         /\ a \notin ScopeAddresses =>
              \A j \in DOMAIN ScopeOffsets : Index(a + ScopeOffsets[j]) # Index(b + ScopeOffsets[i])
BY RequestsApart DEF Index

\* Registers of different names are apart, whichever scopes they are of.
LEMMA OffsetsApart ==
  ASSUME NEW b \in ScopeAddresses, NEW c \in ScopeAddresses,
         NEW i \in DOMAIN ScopeOffsets, NEW j \in DOMAIN ScopeOffsets, i # j
  PROVE  Index(b + ScopeOffsets[i]) # Index(c + ScopeOffsets[j])
BY ScopesApart, Zenon DEF Index

\* Registers that hold what they held keep a scope set to what it was set to.
LEMMA SetToKept ==
  ASSUME NEW b \in ScopeAddresses, NEW a, SetTo(b, a),
         \A i \in Compared : registers'[Index(b + ScopeOffsets[i])]
                                = registers[Index(b + ScopeOffsets[i])]
  PROVE  SetTo(b, a)'
<1>1. /\ Register(TbPeriod(b))' = Register(TbPeriod(b))
      /\ Register(TrgMode(b))' = Register(TrgMode(b))
      /\ Register(TrgLvl(b))' = Register(TrgLvl(b))
      /\ Register(TrgSrc(b))' = Register(TrgSrc(b))
      /\ Register(TrgPoint(b))' = Register(TrgPoint(b))
      /\ Register(AcqMode(b))' = Register(AcqMode(b))
  BY OffsetNames DEF Compared, Register, Index, TbPeriod, TrgMode, TrgLvl, TrgSrc, TrgPoint, AcqMode
<1> QED BY <1>1 DEF SetTo

----------------------------------------------------------------------------
(* set_acquisition *)

Order == <<5, 8, 6, 10, 9, 2, 3, 4>>   \* the offsets it writes, in turn

LEMMA OrderOnce ==
  /\ \A i \in 1 .. 8 : Order[i] \in 1 .. 11
  /\ \A i, j \in 1 .. 8 : Order[i] = Order[j] => i = j
BY DEF Order

LEMMA AcquisitionStoresShapeAt ==
  ASSUME NEW b \in Nat, NEW a \in Acquisitions
  PROVE  LET stores == AcquisitionStores(b, a)
         IN /\ stores \in Seq(Int \X Int)
            /\ DOMAIN stores = 1 .. (IF a.prescaler > 2 THEN 8 ELSE 5)
            /\ \A i \in DOMAIN stores : stores[i][1] = b + ScopeOffsets[Order[i]]
            /\ stores[1][2] = TriggerCode(a.trigger)
            /\ stores[2][2] = (a.source - 1) % WordModulus
            /\ stores[3][2] = a.level
            /\ stores[4][2] = ModeCode(a.mode)
            /\ stores[5][2] = a.point
            /\ a.prescaler > 2 => stores[7][2] = a.prescaler
<1> DEFINE first == <<<<TrgMode(b), TriggerCode(a.trigger)>>,
                      <<TrgSrc(b), (a.source - 1) % WordModulus>>,
                      <<TrgLvl(b), a.level>>,
                      <<AcqMode(b), ModeCode(a.mode)>>,
                      <<TrgPoint(b), a.point>>>>
           second == <<<<TbCtrl(b), 1>>, <<TbPeriod(b), a.prescaler>>, <<TbThreshold(b), 1>>>>
           stores == AcquisitionStores(b, a)
<1>1. /\ a.source \in Nat /\ a.level \in Nat /\ a.point \in Nat /\ a.prescaler \in Nat
      /\ a.source < WordModulus
  BY AcquisitionsAreWords, BusAssumption DEF Word
<1>2. /\ TriggerCode(a.trigger) \in Int /\ ModeCode(a.mode) \in Int
      /\ (a.source - 1) % WordModulus \in Int
  BY <1>1, BusAssumption DEF TriggerCode, ModeCode
<1>3. \A i \in 1 .. 11 : b + ScopeOffsets[i] \in Int
  <2>1. \A i \in 1 .. 11 : ScopeOffsets[i] \in Int
    BY ScopeAssumption DEF ScopeOffsets
  <2> QED BY <2>1
<1>4. /\ TrgMode(b) \in Int /\ TrgSrc(b) \in Int /\ TrgLvl(b) \in Int /\ AcqMode(b) \in Int
      /\ TrgPoint(b) \in Int /\ TbCtrl(b) \in Int /\ TbPeriod(b) \in Int /\ TbThreshold(b) \in Int
  BY <1>3, OffsetNamesAt
<1>5. first \in Seq(Int \X Int) /\ Len(first) = 5
  BY <1>1, <1>2, <1>4
<1>6. second \in Seq(Int \X Int) /\ Len(second) = 3
  BY <1>1, <1>4
<1>7. /\ \A i \in 1 .. 5 : first[i][1] = b + ScopeOffsets[Order[i]]
      /\ \A i \in 1 .. 3 : second[i][1] = b + ScopeOffsets[Order[i + 5]]
  BY OffsetNamesAt DEF Order
<1>8. /\ first[1][2] = TriggerCode(a.trigger) /\ first[2][2] = (a.source - 1) % WordModulus
      /\ first[3][2] = a.level /\ first[4][2] = ModeCode(a.mode) /\ first[5][2] = a.point
      /\ second[2][2] = a.prescaler
  OBVIOUS
<1>9. CASE a.prescaler > 2
  <2>1. stores = first \o second
    BY <1>9 DEF AcquisitionStores
  <2> HIDE DEF first, second, stores
  <2>2. /\ stores \in Seq(Int \X Int) /\ DOMAIN stores = 1 .. 8
        /\ \A i \in 1 .. 5 : stores[i] = first[i]
        /\ \A i \in 6 .. 8 : stores[i] = second[i - 5]
    <3> DEFINE Pairs == Int \X Int
    <3>1. first \in Seq(Pairs) /\ second \in Seq(Pairs)
      BY <1>5, <1>6
    <3> HIDE DEF Pairs
    <3>2. /\ first \o second \in Seq(Pairs)
          /\ Len(first \o second) = Len(first) + Len(second)
          /\ \A i \in 1 .. Len(first) + Len(second) :
               (first \o second)[i] = IF i <= Len(first) THEN first[i] ELSE second[i - Len(first)]
      BY <3>1, ConcatProperties, Zenon
    <3>3. /\ stores \in Seq(Int \X Int)
          /\ Len(stores) = 8
          /\ \A i \in 1 .. 8 : stores[i] = IF i <= 5 THEN first[i] ELSE second[i - 5]
      <4>1. Len(first) + Len(second) = 8
        BY <1>5, <1>6
      <4>2. stores \in Seq(Int \X Int)
        BY <2>1, <3>2, Zenon DEF Pairs
      <4>3. Len(stores) = 8
        BY <2>1, <3>2, <4>1, Zenon
      <4>4. \A i \in 1 .. 8 : stores[i] = IF i <= 5 THEN first[i] ELSE second[i - 5]
        BY <2>1, <3>2, <4>1, <1>5, Zenon
      <4> QED BY <4>2, <4>3, <4>4
    <3>4. \A i \in 6 .. 8 : i \in 1 .. 8 /\ ~(i <= 5)
      OBVIOUS
    <3>5. \A i \in 1 .. 5 : i \in 1 .. 8 /\ i <= 5
      OBVIOUS
    <3>6. DOMAIN stores = 1 .. 8
      BY <3>3
    <3>7. \A i \in 6 .. 8 : stores[i] = second[i - 5]
      BY <3>3, <3>4, <1>5
    <3>8. \A i \in 1 .. 5 : stores[i] = first[i]
      BY <3>3, <3>5, <1>5
    <3> QED BY <3>3, <3>6, <3>7, <3>8
  <2>3. \A i \in 1 .. 8 : stores[i][1] = b + ScopeOffsets[Order[i]]
    <3>1. ASSUME NEW i \in 6 .. 8 PROVE stores[i][1] = b + ScopeOffsets[Order[i]]
      <4>1. i - 5 \in 1 .. 3 /\ (i - 5) + 5 = i
        OBVIOUS
      <4> QED BY <4>1, <2>2, <1>7
    <3> QED BY <3>1, <2>2, <1>7
  <2>4. /\ stores[1][2] = TriggerCode(a.trigger)
        /\ stores[2][2] = (a.source - 1) % WordModulus
        /\ stores[3][2] = a.level /\ stores[4][2] = ModeCode(a.mode)
        /\ stores[5][2] = a.point /\ stores[7][2] = a.prescaler
    BY <2>2, <1>8
  <2> QED BY <2>2, <2>3, <2>4, <1>9, Zenon DEF stores
<1>10. CASE ~(a.prescaler > 2)
  <2>1. stores = first \o <<>>
    BY <1>10 DEF AcquisitionStores
  <2> HIDE DEF first, stores
  <2>2. stores = first
    BY <2>1, <1>5
  <2>3. DOMAIN stores = 1 .. 5 /\ stores \in Seq(Int \X Int)
    BY <2>2, <1>5
  <2>4. \A i \in 1 .. 5 : stores[i][1] = b + ScopeOffsets[Order[i]]
    BY <2>2, <1>7
  <2> QED BY <2>2, <2>3, <2>4, <1>8, <1>10, Zenon DEF stores
<1> QED BY <1>9, <1>10

LEMMA AcquisitionStoresShape ==
  ASSUME NEW b \in ScopeAddresses, NEW a \in Acquisitions
  PROVE  LET stores == AcquisitionStores(b, a)
         IN /\ stores \in Seq(Int \X Int)
            /\ DOMAIN stores = 1 .. (IF a.prescaler > 2 THEN 8 ELSE 5)
            /\ \A i \in DOMAIN stores : stores[i][1] = b + ScopeOffsets[Order[i]]
            /\ stores[1][2] = TriggerCode(a.trigger)
            /\ stores[2][2] = (a.source - 1) % WordModulus
            /\ stores[3][2] = a.level
            /\ stores[4][2] = ModeCode(a.mode)
            /\ stores[5][2] = a.point
            /\ a.prescaler > 2 => stores[7][2] = a.prescaler
<1>1. b \in Nat
  BY ScopeAssumption
<1> QED BY <1>1, AcquisitionStoresShapeAt, Zenon

\* They stay within the scope.
LEMMA StoresOnScope ==
  ASSUME NEW b \in Nat, NEW a \in Acquisitions, NEW j \in DOMAIN AcquisitionStores(b, a)
  PROVE  \E i \in DOMAIN ScopeOffsets : AcquisitionStores(b, a)[j][1] = b + ScopeOffsets[i]
<1>1. j \in 1 .. 8
  <2>1. \/ DOMAIN AcquisitionStores(b, a) = 1 .. 8
        \/ DOMAIN AcquisitionStores(b, a) = 1 .. 5
    BY AcquisitionStoresShapeAt, Zenon
  <2> QED BY <2>1
<1>2. Order[j] \in DOMAIN ScopeOffsets
  BY <1>1, OrderOnce, OffsetNamesAt, Zenon
<1>3. AcquisitionStores(b, a)[j][1] = b + ScopeOffsets[Order[j]]
  BY AcquisitionStoresShapeAt, Zenon
<1> QED BY <1>2, <1>3

\* The stores of an acquisition set the scope to the whole of it.
LEMMA AcquisitionSets ==
  ASSUME NEW b \in ScopeAddresses, NEW a \in Acquisitions,
         registers' = Stored(AcquisitionStores(b, a))
  PROVE  /\ Performed(AcquisitionStores(b, a)) = DOMAIN AcquisitionStores(b, a)
         /\ SetTo(b, a)'
<1> DEFINE stores == AcquisitionStores(b, a)
<1>1. /\ stores \in Seq(Int \X Int)
      /\ DOMAIN stores = 1 .. (IF a.prescaler > 2 THEN 8 ELSE 5)
      /\ \A i \in DOMAIN stores : stores[i][1] = b + ScopeOffsets[Order[i]]
      /\ stores[1][2] = TriggerCode(a.trigger)
      /\ stores[2][2] = (a.source - 1) % WordModulus
      /\ stores[3][2] = a.level
      /\ stores[4][2] = ModeCode(a.mode)
      /\ stores[5][2] = a.point
      /\ a.prescaler > 2 => stores[7][2] = a.prescaler
  BY AcquisitionStoresShape
<1> HIDE DEF stores
<1>2. /\ \A i \in DOMAIN stores : i \in 1 .. 8
      /\ \A i \in 1 .. 5 : i \in DOMAIN stores
  <2>1. DOMAIN stores = 1 .. 8 \/ DOMAIN stores = 1 .. 5
    BY <1>1, Zenon
  <2> QED BY <2>1
<1>3. \A i \in DOMAIN stores : Order[i] \in 1 .. 11
  BY <1>2, OrderOnce
<1>4. \A i, j \in DOMAIN stores : Order[i] = Order[j] => i = j
  BY <1>2, OrderOnce
<1>5. Mapped(stores)
  <2>1. \A i \in 1 .. 11 : ControlMapped(b + ScopeOffsets[i])
    BY ScopesApart, OffsetNames
  <2> QED BY <1>1, <1>3, <2>1, Zenon DEF Mapped
<1>6. ASSUME NEW i \in DOMAIN stores
      PROVE  registers'[Index(b + ScopeOffsets[Order[i]])] = stores[i][2]
  <2>1. Index(stores[i][1]) \in 0 .. ControlWords - 1
    BY <1>1, <1>3, ScopeWords, OffsetNames, Zenon
  <2>2. \A j \in DOMAIN stores : Index(stores[j][1]) = Index(stores[i][1]) => j = i
    <3>1. SUFFICES ASSUME NEW j \in DOMAIN stores, Index(stores[j][1]) = Index(stores[i][1])
                   PROVE  j = i
      OBVIOUS
    <3>2. Index(b + ScopeOffsets[Order[j]]) = Index(b + ScopeOffsets[Order[i]])
      BY <1>1, <3>1, Zenon
    <3>3. Order[j] \in DOMAIN ScopeOffsets /\ Order[i] \in DOMAIN ScopeOffsets
      BY <1>3, OffsetNames, Zenon
    <3>4. Order[j] = Order[i]
      BY <3>2, <3>3, ScopesApart, Zenon DEF Index
    <3> QED BY <1>4, <3>4, Zenon
  <2>3. Stored(stores)[Index(stores[i][1])] = stores[i][2]
    BY <1>1, <1>5, <2>1, <2>2, StoredOnce
  <2> QED BY <2>3, <1>1 DEF stores
<1>7. /\ Register(TrgMode(b))' = TriggerCode(a.trigger)
      /\ Register(TrgSrc(b))' = (a.source - 1) % WordModulus
      /\ Register(TrgLvl(b))' = a.level
      /\ Register(AcqMode(b))' = ModeCode(a.mode)
      /\ Register(TrgPoint(b))' = a.point
  <2>1. \A i \in 1 .. 5 : registers'[Index(b + ScopeOffsets[Order[i]])] = stores[i][2]
    BY <1>2, <1>6, Zenon
  <2>2. /\ registers'[Index(b + ScopeOffsets[5])] = stores[1][2]
        /\ registers'[Index(b + ScopeOffsets[8])] = stores[2][2]
        /\ registers'[Index(b + ScopeOffsets[6])] = stores[3][2]
        /\ registers'[Index(b + ScopeOffsets[10])] = stores[4][2]
        /\ registers'[Index(b + ScopeOffsets[9])] = stores[5][2]
    BY <2>1 DEF Order
  <2>3. /\ Register(TrgMode(b))' = stores[1][2] /\ Register(TrgSrc(b))' = stores[2][2]
        /\ Register(TrgLvl(b))' = stores[3][2] /\ Register(AcqMode(b))' = stores[4][2]
        /\ Register(TrgPoint(b))' = stores[5][2]
    BY <2>2, OffsetNames DEF Register, Index, TrgMode, TrgSrc, TrgLvl, AcqMode, TrgPoint
  <2> QED BY <2>3, <1>1, Zenon
<1>8. ASSUME a.prescaler > 2 PROVE Register(TbPeriod(b))' = a.prescaler
  <2>1. 7 \in DOMAIN stores
    BY <1>1, <1>8
  <2> QED BY <2>1, <1>1, <1>6, <1>8, OffsetNames DEF Order, Register, Index, TbPeriod
<1>9. /\ a.trigger \in {"rising_edge", "falling_edge", "both"}
      /\ a.mode \in {"continuous", "single", "free_running"}
      /\ a.source \in 0 .. WordModulus - 1
  BY AcquisitionsAreWords DEF Word
<1>10. TriggerOf(TriggerCode(a.trigger)) = a.trigger /\ ModeOf(ModeCode(a.mode)) = a.mode
  BY <1>9 DEF TriggerOf, TriggerCode, ModeOf, ModeCode
<1>11. (((a.source - 1) % WordModulus) + 1) % WordModulus = a.source
  <2>1. CASE a.source = 0
    <3>1. (0 - 1) % WordModulus = WordModulus - 1
      BY BusAssumption
    <3>2. WordModulus % WordModulus = 0
      BY BusAssumption
    <3> QED BY <2>1, <3>1, <3>2, BusAssumption
  <2>2. CASE a.source # 0
    <3>1. a.source - 1 \in 0 .. WordModulus - 1
      BY <1>9, <2>2, BusAssumption
    <3>2. (a.source - 1) % WordModulus = a.source - 1
      BY <3>1, BusAssumption
    <3> QED BY <1>9, <3>2, BusAssumption
  <2> QED BY <2>1, <2>2
<1>12. SetTo(b, a)'
  BY <1>7, <1>8, <1>10, <1>11 DEF SetTo
<1>13. Performed(stores) = DOMAIN stores
  BY <1>1, <1>5, AllPerformed
<1> QED BY <1>12, <1>13 DEF stores

----------------------------------------------------------------------------
(* The inductive invariant *)

ScopeInvariant ==
  /\ sink_mode = FALSE
  /\ scope_base_address \in Bases \union {0}
  /\ acquired \in [ScopeAddresses -> SUBSET Acquisitions]
  /\ DOMAIN registers = 0 .. ControlWords - 1
  /\ AcquisitionInHardware

\* What a step may do that sets no scope: leave the compared registers alone.
Elsewhere ==
  /\ sink_mode' = FALSE
  /\ scope_base_address' \in Bases \union {0}
  /\ acquired' = acquired
  /\ DOMAIN registers' = 0 .. ControlWords - 1
  /\ \A b \in ScopeAddresses, i \in Compared :
       registers'[Index(b + ScopeOffsets[i])] = registers[Index(b + ScopeOffsets[i])]

LEMMA ElsewhereKeeps ==
  ASSUME ScopeInvariant, Elsewhere PROVE ScopeInvariant'
<1>1. ASSUME NEW b \in ScopeAddresses, NEW a \in acquired'[b] PROVE SetTo(b, a)'
  <2>1. a \in acquired[b]
    BY DEF Elsewhere
  <2>2. SetTo(b, a)
    BY <2>1 DEF ScopeInvariant, AcquisitionInHardware
  <2> QED BY <2>2, SetToKept DEF Elsewhere
<1>2. AcquisitionInHardware'
  BY <1>1 DEF AcquisitionInHardware
<1> QED BY <1>2 DEF Elsewhere, ScopeInvariant

\* A write to a register no acquisition is compared with, mapped or not.
LEMMA WriteElsewhere ==
  ASSUME ScopeInvariant, NEW address \in Int, NEW value \in Int, write_direct(address, value),
         \A b \in ScopeAddresses, i \in Compared : Index(address) # Index(b + ScopeOffsets[i]),
         acquired' = acquired, scope_base_address' \in Bases \union {0}
  PROVE  Elsewhere
<1> DEFINE stores == <<<<address, value>>>>
<1>1. stores \in Seq(Int \X Int) /\ \A j \in DOMAIN stores : stores[j][1] = address
  OBVIOUS
<1>2. CASE fpga_loaded
  <2>1. registers' = Stored(stores) /\ sink_mode' = FALSE
    BY <1>2, Zenon DEF write_direct, write_direct_all, write_registers, ScopeInvariant
  <2>2. DOMAIN registers' = 0 .. ControlWords - 1
    BY <2>1 DEF Stored
  <2>3. ASSUME NEW b \in ScopeAddresses, NEW i \in Compared
        PROVE  registers'[Index(b + ScopeOffsets[i])] = registers[Index(b + ScopeOffsets[i])]
    <3>1. Index(b + ScopeOffsets[i]) \in 0 .. ControlWords - 1
      BY ScopeWords, OffsetNames DEF Compared
    <3> HIDE DEF stores
    <3> QED BY <1>1, <2>1, <3>1, StoredNowhere
  <2> QED BY <2>1, <2>2, <2>3 DEF Elsewhere
<1>3. CASE ~fpga_loaded
  BY <1>3 DEF write_direct, write_direct_all, busVars, ScopeInvariant, Elsewhere
<1> QED BY <1>2, <1>3

LEMMA RegistersKept ==
  ASSUME ScopeInvariant, registers' = registers, sink_mode' = FALSE,
         acquired' = acquired, scope_base_address' \in Bases \union {0}
  PROVE  ScopeInvariant'
BY ElsewhereKeeps DEF Elsewhere, ScopeInvariant

\* scope_manager::set_acquisition.
LEMMA AcquisitionKeeps ==
  ASSUME ScopeInvariant, NEW a \in Acquisitions, set_acquisition(a), UNCHANGED scopeVars
  PROVE  ScopeInvariant'
<1>1. scope_base_address' = scope_base_address
  BY DEF scopeVars
<1>2. CASE scope_base_address = 0 \/ ~fpga_loaded
  <2>1. UNCHANGED <<registers, sink_mode, acquired>>
    BY <1>2, Zenon DEF set_acquisition, write_direct_all, busVars
  <2> QED BY <1>1, <2>1, RegistersKept DEF ScopeInvariant
<1>3. CASE scope_base_address # 0 /\ fpga_loaded /\ scope_base_address \in ScopeAddresses
  <2>1. PICK b \in ScopeAddresses : b = scope_base_address
    BY <1>3
  <2>2. write_registers([i \in DOMAIN AcquisitionStores(b, a) |->
                           BusOp(<<AcquisitionStores(b, a)[i][1]>>,
                                 <<AcquisitionStores(b, a)[i][2]>>, "control_plane_write")],
                        AcquisitionStores(b, a))
    BY <1>3, <2>1, Zenon DEF set_acquisition, write_direct_all
  <2>3. /\ registers' = Stored(AcquisitionStores(b, a)) /\ sink_mode' = FALSE
        /\ up' = (Performed(AcquisitionStores(b, a)) = DOMAIN AcquisitionStores(b, a))
    BY <2>2, Zenon DEF write_registers, ScopeInvariant
  <2>4. up' /\ SetTo(b, a)'
    <3>1. /\ Performed(AcquisitionStores(b, a)) = DOMAIN AcquisitionStores(b, a)
          /\ SetTo(b, a)'
      BY <2>3, AcquisitionSets
    <3> QED BY <2>3, <3>1, Zenon
  <2>5. acquired' = [acquired EXCEPT ![b] = {a}]
    BY <1>3, <2>1, <2>4, Zenon DEF set_acquisition
  <2>6. acquired' \in [ScopeAddresses -> SUBSET Acquisitions]
    BY <2>1, <2>5 DEF ScopeInvariant
  <2>7. DOMAIN registers' = 0 .. ControlWords - 1
    BY <2>3 DEF Stored
  <2>8. ASSUME NEW c \in ScopeAddresses, NEW x \in acquired'[c] PROVE SetTo(c, x)'
    <3>1. CASE c = b
      <4>1. acquired'[b] = {a}
        BY <2>5 DEF ScopeInvariant
      <4>2. x = a
        BY <2>8, <3>1, <4>1
      <4> QED BY <2>4, <3>1, <4>2, Zenon
    <3>2. CASE c # b
      <4>1. x \in acquired[c]
        BY <2>5, <2>8, <3>2 DEF ScopeInvariant
      <4>2. SetTo(c, x)
        BY <4>1 DEF ScopeInvariant, AcquisitionInHardware
      <4>3. ASSUME NEW i \in Compared
            PROVE  registers'[Index(c + ScopeOffsets[i])] = registers[Index(c + ScopeOffsets[i])]
        <5>1. i \in DOMAIN ScopeOffsets
          BY OffsetNames DEF Compared
        <5>2. ASSUME NEW j \in DOMAIN AcquisitionStores(b, a)
              PROVE  Index(AcquisitionStores(b, a)[j][1]) # Index(c + ScopeOffsets[i])
          <6>1. PICK n \in DOMAIN ScopeOffsets :
                       AcquisitionStores(b, a)[j][1] = b + ScopeOffsets[n]
            BY <2>1, <5>2, ScopeAssumption, StoresOnScope
          <6> QED BY <3>2, <5>1, <6>1, ScopesApart, Zenon DEF Index
        <5>3. AcquisitionStores(b, a) \in Seq(Int \X Int)
          BY <2>1, AcquisitionStoresShape
        <5>4. Index(c + ScopeOffsets[i]) \in 0 .. ControlWords - 1
          BY <5>1, ScopeWords
        <5> QED BY <2>3, <5>2, <5>3, <5>4, StoredNowhere, Zenon
      <4> QED BY <4>2, <4>3, SetToKept
    <3> QED BY <3>1, <3>2
  <2>9. AcquisitionInHardware'
    BY <2>8, Zenon DEF AcquisitionInHardware
  <2> QED BY <1>1, <2>3, <2>6, <2>7, <2>9, Zenon DEF ScopeInvariant
<1>4. CASE scope_base_address # 0 /\ fpga_loaded /\ scope_base_address \notin ScopeAddresses
  <2>1. PICK b \in Bases : b = scope_base_address
    BY <1>4 DEF ScopeInvariant
  <2>2. b \in Nat /\ b \notin ScopeAddresses
    BY <1>4, <2>1, ScopeAssumption
  <2>3. write_registers([i \in DOMAIN AcquisitionStores(b, a) |->
                           BusOp(<<AcquisitionStores(b, a)[i][1]>>,
                                 <<AcquisitionStores(b, a)[i][2]>>, "control_plane_write")],
                        AcquisitionStores(b, a))
    BY <1>4, <2>1, Zenon DEF set_acquisition, write_direct_all
  <2>4. registers' = Stored(AcquisitionStores(b, a)) /\ sink_mode' = FALSE
    BY <2>3, Zenon DEF write_registers, ScopeInvariant
  <2>5. acquired' = acquired
    BY <1>4, Zenon DEF set_acquisition
  <2>6. DOMAIN registers' = 0 .. ControlWords - 1
    BY <2>4 DEF Stored
  <2>7. ASSUME NEW c \in ScopeAddresses, NEW i \in Compared
        PROVE  registers'[Index(c + ScopeOffsets[i])] = registers[Index(c + ScopeOffsets[i])]
    <3>1. i \in DOMAIN ScopeOffsets
      BY OffsetNames DEF Compared
    <3>2. ASSUME NEW j \in DOMAIN AcquisitionStores(b, a)
          PROVE  Index(AcquisitionStores(b, a)[j][1]) # Index(c + ScopeOffsets[i])
      <4>1. PICK n \in DOMAIN ScopeOffsets :
                   AcquisitionStores(b, a)[j][1] = b + ScopeOffsets[n]
        BY <2>2, <3>2, StoresOnScope
      <4> QED BY <2>2, <4>1, SettingsSpared, Zenon
    <3>3. AcquisitionStores(b, a) \in Seq(Int \X Int)
      BY <2>2, AcquisitionStoresShapeAt
    <3>4. Index(c + ScopeOffsets[i]) \in 0 .. ControlWords - 1
      BY <3>1, ScopeWords
    <3> QED BY <2>4, <3>2, <3>3, <3>4, StoredNowhere, Zenon
  <2>8. Elsewhere
    BY <1>1, <2>4, <2>5, <2>6, <2>7 DEF Elsewhere, ScopeInvariant
  <2> QED BY <2>8, ElsewhereKeeps
<1> QED BY <1>2, <1>3, <1>4

LEMMA ScopeInvariantInit ==
  Init => ScopeInvariant
<1> SUFFICES ASSUME Init PROVE ScopeInvariant
  OBVIOUS
<1>1. acquired = [b \in ScopeAddresses |-> {}]
  BY DEF Init
<1>2. DOMAIN registers = 0 .. ControlWords - 1
  BY DEF Init, BusInit
<1>3. AcquisitionInHardware
  BY <1>1 DEF AcquisitionInHardware
<1> QED BY <1>1, <1>2, <1>3 DEF Init, BusInit, ScopeInit, ScopeInvariant

\* A command that leaves the registers and the bus mode alone.
LEMMA QuietStep ==
  ASSUME ScopeInvariant, UNCHANGED <<registers, sink_mode, acquired, scope_base_address>>
  PROVE  ScopeInvariant'
BY RegistersKept DEF ScopeInvariant

LEMMA DieKeeps ==
  ASSUME ScopeInvariant, NEW of, Die(of) PROVE ScopeInvariant'
BY QuietStep DEF Die, process_exit, hardwareVars, scopeVars

LEMMA RejectKeeps ==
  ASSUME ScopeInvariant, Reject PROVE ScopeInvariant'
BY QuietStep DEF Reject, busVars, scopeVars

LEMMA ScopeInvariantStep ==
  ScopeInvariant /\ [Next]_vars => ScopeInvariant'
<1> SUFFICES ASSUME ScopeInvariant, [Next]_vars PROVE ScopeInvariant'
  OBVIOUS
<1>1. CASE SetAcquisition
  <2>1. PICK a \in Acquisitions, complete \in BOOLEAN : process_set_acquisition(a, complete)
    BY <1>1 DEF SetAcquisition
  <2>2. CASE Die("type_error")
    BY <2>2, DieKeeps
  <2>3. CASE set_acquisition(a) /\ UNCHANGED scopeVars
    BY <2>3, AcquisitionKeeps
  <2> QED BY <2>1, <2>2, <2>3, Zenon DEF process_set_acquisition
<1>2. CASE SetScopeAddress
  <2>1. PICK form \in {"null", "not_object", "not_unsigned", "valid"},
             a \in Bases, offset \in BufferOffsets, buffer \in Buffers :
               process_set_scope_address(form, a, offset, buffer)
    BY <1>2 DEF SetScopeAddress
  <2>2. CASE UNCHANGED <<busVars, scopeVars, acquired>>
    BY <2>2, QuietStep DEF busVars, scopeVars
  <2>3. CASE Reject
    BY <2>3, RejectKeeps
  <2>4. CASE Die("type_error")
    BY <2>4, DieKeeps
  <2>5. CASE /\ set_scope_data(a + offset, buffer) /\ scope_base_address' = a
             /\ UNCHANGED acquired
    <3>1. a + offset \in Int /\ buffer % WordModulus \in Int
      BY ScopeAssumption, BusAssumption
    <3>2. \A b \in ScopeAddresses, i \in Compared : Index(a + offset) # Index(b + ScopeOffsets[i])
      BY SettingsSpared
    <3>3. write_direct(a + offset, buffer % WordModulus)
      BY <2>5 DEF set_scope_data
    <3>4. Elsewhere
      BY <2>5, <3>1, <3>2, <3>3, WriteElsewhere
    <3> QED BY <3>4, ElsewhereKeeps
  <2> QED BY <2>1, <2>2, <2>3, <2>4, <2>5, Zenon DEF process_set_scope_address
<1>3. CASE DisableDma
  <2>1. PICK form \in {"missing", "valid"}, status \in {0, 1} : process_disable_dma(form, status)
    BY <1>3 DEF DisableDma
  <2>2. CASE Die("type_error")
    BY <2>2, DieKeeps
  <2>3. CASE UNCHANGED <<busVars, scope_base_address, acquired>>
    BY <2>3, QuietStep DEF busVars
  <2>4. CASE /\ write_direct(MuxCtrl(scope_base_address), status)
             /\ UNCHANGED <<scopeVars, acquired>>
    <3>1. MuxCtrl(scope_base_address) \in Int
      BY ScopeAssumption DEF ScopeInvariant, MuxCtrl
    <3>2. ASSUME NEW b \in ScopeAddresses, NEW i \in Compared
          PROVE  Index(MuxCtrl(scope_base_address)) # Index(b + ScopeOffsets[i])
      <4>1. i \in DOMAIN ScopeOffsets /\ 1 \in DOMAIN ScopeOffsets /\ i # 1
        BY OffsetNames DEF Compared
      <4>2. CASE scope_base_address = 0
        <5>1. MuxCtrl(0) < ControlAddr /\ MuxCtrl(0) \in Int
          BY ScopesApart, ScopeAssumption DEF MuxCtrl
        <5>2. Index(MuxCtrl(0)) < 0
          BY <5>1, BusAssumption DEF Index, register_address_to_index
        <5>3. Index(b + ScopeOffsets[i]) \in 0 .. ControlWords - 1
          BY <4>1, ScopeWords
        <5> QED BY <4>2, <5>2, <5>3
      <4>3. CASE scope_base_address \in Bases
        <5>1. MuxCtrl(scope_base_address) = scope_base_address + ScopeOffsets[1]
          BY <4>3, OffsetNamesAt, ScopeAssumption
        <5>2. CASE scope_base_address \in ScopeAddresses
          BY <4>1, <5>1, <5>2, OffsetsApart
        <5>3. CASE scope_base_address \notin ScopeAddresses
          BY <4>1, <4>3, <5>1, <5>3, SettingsSpared
        <5> QED BY <5>2, <5>3
      <4> QED BY <4>2, <4>3 DEF ScopeInvariant
    <3>3. scope_base_address' \in Bases \union {0}
      BY <2>4 DEF scopeVars, ScopeInvariant
    <3>4. Elsewhere
      BY <2>4, <3>1, <3>2, <3>3, WriteElsewhere
    <3> QED BY <3>4, ElsewhereKeeps
  <2> QED BY <2>1, <2>2, <2>3, <2>4, Zenon DEF process_disable_dma, scopeVars
<1>4. CASE GetAcquisitionStatus
  <2>1. UNCHANGED <<registers, sink_mode>>
    BY <1>4, Zenon DEF GetAcquisitionStatus, process_get_acquisition_status, read_direct,
         read_register, busVars, hardwareVars
  <2> QED BY <1>4, <2>1, QuietStep
          DEF GetAcquisitionStatus, process_get_acquisition_status, scopeVars
<1>5. CASE ReadData
  BY <1>5, QuietStep DEF ReadData, process_read_data, busVars, scopeVars
<1>6. CASE SetScalingFactors
  <2>1. PICK sf \in Scalings, numeric \in BOOLEAN : process_set_scaling_factors(sf, numeric)
    BY <1>6 DEF SetScalingFactors
  <2>2. CASE Reject
    BY <2>2, RejectKeeps
  <2>3. CASE Die("fault")
    BY <2>3, DieKeeps
  <2>4. CASE UNCHANGED <<busVars, scope_base_address, acquired>>
    BY <2>4, QuietStep DEF busVars
  <2> QED BY <2>1, <2>2, <2>3, <2>4, Zenon DEF process_set_scaling_factors
<1>7. CASE SetChannelStatus
  <2>1. PICK form \in {"not_object", "not_number", "not_boolean", "valid"}, on \in Statuses :
               process_set_channel_status(form, on)
    BY <1>7 DEF SetChannelStatus
  <2>2. CASE Reject
    BY <2>2, RejectKeeps
  <2>3. CASE Die("invalid_argument") \/ Die("type_error")
    BY <2>3, DieKeeps
  <2>4. CASE UNCHANGED <<busVars, scope_base_address, acquired>>
    BY <2>4, QuietStep DEF busVars
  <2> QED BY <2>1, <2>2, <2>3, <2>4, Zenon DEF process_set_channel_status
<1>8. CASE ClearOperations
  BY <1>8, QuietStep DEF ClearOperations, clear_operations_vector, hardwareVars, scopeVars
<1>9. CASE LoadBitstream
  <2>1. PICK reported \in BOOLEAN, fate \in {"kept", "programmed", "lost"} :
               /\ load_bitstream(reported, fate)
               /\ acquired' = IF fate = "kept" THEN acquired ELSE [b \in ScopeAddresses |-> {}]
               /\ UNCHANGED scopeVars
    BY <1>9 DEF LoadBitstream
  <2>2. CASE fate = "kept"
    BY <2>1, <2>2, QuietStep DEF load_bitstream, scopeVars
  <2>3. CASE fate # "kept"
    <3>1. acquired' = [b \in ScopeAddresses |-> {}] /\ sink_mode' = sink_mode
          /\ scope_base_address' = scope_base_address
      BY <2>1, <2>3 DEF load_bitstream, scopeVars
    <3>2. DOMAIN registers' = 0 .. ControlWords - 1
      BY <2>1, <2>3 DEF load_bitstream
    <3>3. AcquisitionInHardware'
      BY <3>1 DEF AcquisitionInHardware
    <3> QED BY <3>1, <3>2, <3>3 DEF ScopeInvariant
  <2> QED BY <2>2, <2>3
<1>10. CASE Capture
  BY <1>10, QuietStep DEF Capture, busVars, scopeVars
<1>11. CASE Trigger
  <2>1. PICK b \in ScopeAddresses, status \in TriggerStatuses :
               registers' = [registers EXCEPT ![Index(TrgStatus(b))] = status]
    BY <1>11 DEF Trigger, Index
  <2>2. ASSUME NEW c \in ScopeAddresses, NEW i \in Compared
        PROVE  registers'[Index(c + ScopeOffsets[i])] = registers[Index(c + ScopeOffsets[i])]
    <3>1. i \in DOMAIN ScopeOffsets /\ 11 \in DOMAIN ScopeOffsets /\ i # 11
      BY OffsetNames DEF Compared
    <3>2. Index(c + ScopeOffsets[i]) # Index(TrgStatus(b))
      <4>1. TrgStatus(b) = b + ScopeOffsets[11]
        BY OffsetNames
      <4> QED BY <3>1, <4>1, OffsetsApart
    <3>3. Index(c + ScopeOffsets[i]) \in DOMAIN registers
      BY <3>1, ScopeWords DEF ScopeInvariant
    <3> QED BY <2>1, <3>2, <3>3, Zenon
  <2>3. Elsewhere
    BY <1>11, <2>1, <2>2 DEF Trigger, scopeVars, ScopeInvariant, Elsewhere
  <2> QED BY <2>3, ElsewhereKeeps
<1>12. CASE Terminate
  BY <1>12, DieKeeps DEF Terminate
<1>13. CASE Relaunch
  BY <1>13, RegistersKept DEF Relaunch, launch, hardwareVars
<1>14. CASE UNCHANGED vars
  BY <1>14, QuietStep DEF vars, busVars, scopeVars
<1> QED BY <1>1, <1>2, <1>3, <1>4, <1>5, <1>6, <1>7, <1>8, <1>9, <1>10, <1>11, <1>12, <1>13,
           <1>14 DEF Next

\* Whatever clients, signals, bitstreams and the trigger do, a scope stays set
\* to the whole of the last acquisition that reached it, until another one does.
THEOREM AcquisitionStays ==
  Spec => []AcquisitionInHardware
<1>1. ScopeInvariant => AcquisitionInHardware
  BY DEF ScopeInvariant
<1> QED BY <1>1, ScopeInvariantInit, ScopeInvariantStep, PTL DEF Spec

----------------------------------------------------------------------------
(* The metadata of a channel *)

\* The width less 8, and the two control bits above it.
LEMMA MetadataValue ==
  ASSUME WordModulus >= 16,
         NEW size \in 8 .. 23, NEW is_signed \in BOOLEAN, NEW is_float \in BOOLEAN
  PROVE  get_metadata_value(size, is_signed, is_float)
           = size - 8 + (IF is_signed THEN 16 ELSE 0) + (IF is_float THEN 32 ELSE 0)
<1> DEFINE width == size - 8
<1>1. width \in 0 .. 15 /\ width % WordModulus = width
  BY BusAssumption
<1>2. SetBit(width, 16) = width + 16 /\ SetBit(width, 32) = width + 32
  BY <1>1 DEF SetBit
<1>3. SetBit(width + 16, 32) = width + 48
  BY <1>1 DEF SetBit
<1> QED BY <1>1, <1>2, <1>3 DEF get_metadata_value

\* The two control bits lie above the width's four: for the widths that fit
\* them, get_metadata_value is undone by channel_metadata's get_size,
\* is_signed and is_float.
THEOREM MetadataRoundTrip ==
  ASSUME WordModulus >= 16,
         NEW size \in 8 .. 23, NEW is_signed \in BOOLEAN, NEW is_float \in BOOLEAN
  PROVE  LET raw == get_metadata_value(size, is_signed, is_float)
         IN /\ get_size(raw) = size
            /\ is_signed_bit(raw) <=> is_signed
            /\ is_float_bit(raw) <=> is_float
<1> DEFINE width == size - 8
<1>1. width \in 0 .. 15
  OBVIOUS
<1>2. \A offset \in {0, 16, 32, 48} :
        /\ get_size(width + offset) = size
        /\ is_signed_bit(width + offset) <=> offset \in {16, 48}
        /\ is_float_bit(width + offset) <=> offset \in {32, 48}
  BY <1>1 DEF get_size, is_signed_bit, is_float_bit
<1> QED BY <1>1, <1>2, MetadataValue

\* sign_extend is the inverse of taking the low bits of a value that fits them.
THEOREM SignExtendRoundTrip ==
  ASSUME NEW mask \in Nat \ {0}, NEW value \in -mask .. mask - 1
  PROVE  sign_extend(value % (2 * mask), mask) = value
<1>1. CASE value >= 0
  <2>1. value % (2 * mask) = value
    BY <1>1
  <2>2. QED
    BY <1>1, <2>1 DEF sign_extend
<1>2. CASE value < 0
  <2>1. value % (2 * mask) = value + 2 * mask
    BY <1>2
  <2>2. QED
    BY <1>2, <2>1 DEF sign_extend
<1>3. QED
  BY <1>1, <1>2

----------------------------------------------------------------------------
(* The low bits of a sample *)

\* Division with remainder, of any integer.
LEMMA Remainder ==
  ASSUME NEW v \in Int, NEW m \in Nat \ {0}
  PROVE  \E q \in Int, r \in 0 .. m - 1 : v = m * q + r /\ r = v % m
OBVIOUS

\* Only one number below m differs from v by a multiple of m.
LEMMA RemainderIsOnly ==
  ASSUME NEW v \in Int, NEW m \in Nat \ {0}, NEW q \in Int, NEW r \in 0 .. m - 1, v = m * q + r
  PROVE  v % m = r
<1>1. PICK p \in Int, s \in 0 .. m - 1 : v = m * p + s /\ s = v % m
  BY Remainder
<1>2. PICK d \in Int : d = p - q
  OBVIOUS
<1>3. m * d = r - s
  <2>1. m * d = m * p - m * q
    BY <1>2
  <2>2. PICK x \in Int, y \in Int : x = m * p /\ y = m * q
    OBVIOUS
  <2>3. v = y + r /\ v = x + s
    BY <1>1, <2>2
  <2> QED BY <2>1, <2>2, <2>3
<1>4. d = 0
  <2>1. r - s < m /\ r - s > -m
    OBVIOUS
  <2>2. d >= 1 => m * d >= m
    OBVIOUS
  <2>3. d <= -1 => m * d <= -m
    OBVIOUS
  <2> QED BY <1>3, <2>1, <2>2, <2>3
<1>5. r = s
  <2>1. m * 0 = 0
    OBVIOUS
  <2> QED BY <1>3, <1>4, <2>1
<1> QED BY <1>1, <1>5

\* The low bits of the low bits.
LEMMA RemainderOfRemainder ==
  ASSUME NEW v \in Int, NEW m \in Nat \ {0}, NEW n \in Nat \ {0}, NEW k \in Nat, n = m * k
  PROVE  (v % n) % m = v % m
<1>1. PICK q \in Int, r \in 0 .. n - 1 : v = n * q + r /\ r = v % n
  BY Remainder
<1>2. PICK p \in Int, s \in 0 .. m - 1 : r = m * p + s /\ s = r % m
  <2>1. r \in Int
    BY <1>1
  <2> QED BY <2>1, Remainder
<1>3. v = m * (k * q + p) + s
  <2>1. n * q = m * (k * q)
    OBVIOUS
  <2>2. PICK x \in Int : x = k * q
    OBVIOUS
  <2>3. m * (x + p) = m * x + m * p
    BY <2>2
  <2>4. PICK a \in Int, b \in Int : a = m * x /\ b = m * p
    BY <2>2
  <2>5. v = a + b + s
    <3>1. n * q = a
      BY <2>1, <2>2, <2>4
    <3>2. v = a + r
      BY <1>1, <3>1
    <3>3. r = b + s
      BY <1>2, <2>4
    <3>4. a \in Int /\ b \in Int /\ s \in Int
      BY <1>2, <2>4
    <3> QED BY <3>2, <3>3, <3>4
  <2>6. v = m * (x + p) + s
    BY <2>3, <2>4, <2>5
  <2> QED BY <2>2, <2>6
<1>4. k * q + p \in Int
  OBVIOUS
<1>5. v % m = s
  BY <1>3, <1>4, RemainderIsOnly
<1> QED BY <1>1, <1>2, <1>5

\* What the width of a channel is a power for.
Halves(w) ==
  /\ 2^w \in Nat \ {0} /\ 2^(w - 1) \in Nat \ {0} /\ 2^w = 2 * 2^(w - 1)
  /\ 2^23 = 2^w * 2^(23 - w) /\ 2^(23 - w) \in Nat

\* Words that such widths divide.
LEMMA WideWords ==
  ASSUME NEW words \in Nat \ {0}, words % 2^23 = 0
  PROVE  words >= 256 /\ \E k \in Nat : words = 2^23 * k
BY SMT

LEMMA WidthsHalve == \A w \in 8 .. 23 : Halves(w)
<1> SUFFICES ASSUME NEW w \in 8 .. 23 PROVE Halves(w)
  OBVIOUS
<1>8. CASE w = 8
  BY <1>8 DEF Halves
<1>9. CASE w = 9
  BY <1>9 DEF Halves
<1>10. CASE w = 10
  BY <1>10 DEF Halves
<1>11. CASE w = 11
  BY <1>11 DEF Halves
<1>12. CASE w = 12
  BY <1>12 DEF Halves
<1>13. CASE w = 13
  BY <1>13 DEF Halves
<1>14. CASE w = 14
  BY <1>14 DEF Halves
<1>15. CASE w = 15
  BY <1>15 DEF Halves
<1>16. CASE w = 16
  BY <1>16 DEF Halves
<1>17. CASE w = 17
  BY <1>17 DEF Halves
<1>18. CASE w = 18
  BY <1>18 DEF Halves
<1>19. CASE w = 19
  BY <1>19 DEF Halves
<1>20. CASE w = 20
  BY <1>20 DEF Halves
<1>21. CASE w = 21
  BY <1>21 DEF Halves
<1>22. CASE w = 22
  BY <1>22 DEF Halves
<1>23. CASE w = 23
  BY <1>23 DEF Halves
<1>24. w = 8 \/ w = 9 \/ w = 10 \/ w = 11 \/ w = 12 \/ w = 13 \/ w = 14 \/ w = 15
       \/ w = 16 \/ w = 17 \/ w = 18 \/ w = 19 \/ w = 20 \/ w = 21 \/ w = 22 \/ w = 23
  OBVIOUS
<1> QED BY <1>8, <1>9, <1>10, <1>11, <1>12, <1>13, <1>14, <1>15, <1>16, <1>17, <1>18, <1>19, <1>20, <1>21, <1>22, <1>23, <1>24

----------------------------------------------------------------------------
(* What becomes of a sample *)

Samples == [channel : Nat, value : Int,
            slot : [width : Nat, is_signed : BOOLEAN, is_float : BOOLEAN]]
Raws == [data : Int, channel : Nat, metadata : Int]

\* The value shunt_data takes a word of the buffer for.
Value(raw, garbage) ==
  scale_data(raw.data, get_size(raw.metadata),
             IF raw.channel < Len(scaling_factors) THEN scaling_factors[raw.channel + 1]
                                                   ELSE garbage,
             is_signed_bit(raw.metadata), is_float_bit(raw.metadata))

\* It is a number, whatever the word.
LEMMA ValueIsNumber ==
  ASSUME scaling_factors \in Seq(Int), NEW raw \in Raws, NEW garbage \in Int
  PROVE  Value(raw, garbage) \in Int
<1> DEFINE size == get_size(raw.metadata)
           masked == raw.data % 2^size
           factor == IF raw.channel < Len(scaling_factors) THEN scaling_factors[raw.channel + 1]
                     ELSE garbage
<1>1. raw.data \in Int /\ raw.channel \in Nat /\ raw.metadata \in Int
  BY DEF Raws
<1>2. size \in 8 .. 23
  <2>1. PICK m \in Int : m = raw.metadata
    BY <1>1
  <2>2. m % 16 \in 0 .. 15
    OBVIOUS
  <2> QED BY <2>1, <2>2 DEF get_size
<1> HIDE DEF size
<1>3. 2^size \in Nat \ {0} /\ 2^(size - 1) \in Nat \ {0}
  BY <1>2, WidthsHalve DEF Halves
<1>4. masked \in Int
  <2>1. PICK d \in Int, m \in Nat \ {0} : d = raw.data /\ m = 2^size
    BY <1>1, <1>3
  <2>2. d % m \in Int
    OBVIOUS
  <2> QED BY <2>1, <2>2
<1> HIDE DEF masked
<1>5. sign_extend(masked, 2^(size - 1)) \in Int
  BY <1>3, <1>4 DEF sign_extend
<1>6. factor \in Int
  BY <1>1
<1> HIDE DEF factor
<1>7. factor * masked \in Int /\ factor * sign_extend(masked, 2^(size - 1)) \in Int
  BY <1>4, <1>5, <1>6
<1> QED BY <1>1, <1>7 DEF Value, scale_data, size, masked, factor

\* The word of a sample whose slot the metadata can tell is taken for what it means.
LEMMA SampleMeant ==
  ASSUME scaling_factors \in Seq(Int), ScalingsGiven, NEW sample \in Samples,
         sample.channel \in Channels, Representable(sample.slot), SampleFits(sample), NEW garbage
  PROVE  Value(RawSample(sample), garbage) = Meaning(sample)
<1> DEFINE w == sample.slot.width
           v == sample.value
           is_signed == sample.slot.is_signed
           raw == RawSample(sample)
           factor == scaling_factors[sample.channel + 1]
           low(metadata) == metadata % 65536
<1>1. /\ w \in Nat /\ v \in Int /\ is_signed \in BOOLEAN /\ sample.slot.is_float \in BOOLEAN
      /\ sample.channel \in Nat
  BY DEF Samples
<1>2. WordModulus \in Nat \ {0}
  BY BusAssumption
<1>3. WordModulus >= 256 /\ \E k \in Nat : WordModulus = 2^23 * k
  BY <1>2, WideWords DEF SampleFits
<1>4. raw.channel = sample.channel /\ raw.data = v % WordModulus
      /\ raw.metadata = low(StampedMetadata(sample.slot))
  BY SMT DEF RawSample
<1>5. factor = IF raw.channel < Len(scaling_factors) THEN scaling_factors[raw.channel + 1]
               ELSE garbage
  <2>1. sample.channel < NChannels /\ NChannels <= Len(scaling_factors)
    BY ScopeAssumption DEF Channels, ScalingsGiven
  <2>2. NChannels \in Nat /\ Len(scaling_factors) \in Nat
    BY ScopeAssumption
  <2> QED BY <1>1, <1>4, <2>1, <2>2
<1> HIDE DEF raw, factor, low
<1>6. CASE sample.slot.is_float
  <2>1. StampedMetadata(sample.slot) = 56
    <3>1. 24 % WordModulus = 24
      BY <1>2, <1>3
    <3>2. SetBit(24, 16) = 24 /\ SetBit(24, 32) = 56
      BY DEF SetBit
    <3> QED BY <1>6, <3>1, <3>2 DEF StampedMetadata, get_metadata_value
  <2>2. raw.metadata = 56
    <3>1. low(56) = 56
      BY SMT DEF low
    <3> QED BY <1>4, <2>1, <3>1, Zenon
  <2>3. is_float_bit(raw.metadata)
    BY <2>2 DEF is_float_bit
  <2> QED BY <1>4, <1>6, <2>3 DEF Value, Meaning, scale_data, raw
<1>7. CASE ~sample.slot.is_float
  <2>1. w \in 8 .. 23
    BY <1>7 DEF Representable
  <2>2. StampedMetadata(sample.slot) = get_metadata_value(w, is_signed, FALSE)
    BY <1>7 DEF StampedMetadata
  <2> HIDE DEF w, v, is_signed
  <2>3. raw.metadata = get_metadata_value(w, is_signed, FALSE)
    <3>1. get_metadata_value(w, is_signed, FALSE)
            = w - 8 + (IF is_signed THEN 16 ELSE 0) + (IF FALSE THEN 32 ELSE 0)
      <4>1. w \in Nat /\ is_signed \in BOOLEAN /\ WordModulus >= 16
        BY <1>1, <1>2, <1>3 DEF w, is_signed
      <4> QED BY <2>1, <4>1, MetadataValue, Zenon
    <3>2. w - 8 + (IF is_signed THEN 16 ELSE 0) + (IF FALSE THEN 32 ELSE 0) \in 0 .. 31
      BY <2>1
    <3>3. PICK m \in 0 .. 31 : m = get_metadata_value(w, is_signed, FALSE)
      BY <3>1, <3>2
    <3>4. low(m) = m
      BY SMT DEF low
    <3> QED BY <1>4, <2>2, <3>3, <3>4, Zenon
  <2>4. /\ get_size(raw.metadata) = w
        /\ is_signed_bit(raw.metadata) <=> is_signed
        /\ ~is_float_bit(raw.metadata)
    <3>1. w \in Nat /\ is_signed \in BOOLEAN /\ WordModulus >= 16
      BY <1>1, <1>2, <1>3 DEF w, is_signed
    <3> QED BY <2>1, <2>3, <3>1, MetadataRoundTrip
  <2>5. Halves(w)
    BY <2>1, WidthsHalve
  <2>6. raw.data % 2^w = v % 2^w
    <3>1. PICK m \in Nat \ {0}, n \in Nat : m = 2^w /\ 2^23 = m * n
      BY <2>5 DEF Halves
    <3>2. PICK k \in Nat : WordModulus = 2^23 * k
      BY <1>3
    <3>3. WordModulus = m * (n * k) /\ n * k \in Nat
      <4>1. WordModulus = (m * n) * k
        BY <3>1, <3>2
      <4>2. (m * n) * k = m * (n * k)
        BY <3>1, <3>2
      <4> QED BY <3>1, <3>2, <4>1, <4>2
    <3>4. (v % WordModulus) % m = v % m
      BY <1>1, <1>2, <3>1, <3>3, RemainderOfRemainder
    <3> QED BY <1>4, <3>1, <3>4
  <2>7. CASE is_signed
    <3>1. v \in -(2^(w - 1)) .. 2^(w - 1) - 1
      BY <1>7, <2>7 DEF SampleFits, w, v, is_signed
    <3>2. sign_extend(v % 2^w, 2^(w - 1)) = v
      BY <2>5, <3>1, SignExtendRoundTrip DEF Halves
    <3> QED BY <1>5, <1>7, <2>4, <2>6, <2>7, <3>2
            DEF Value, Meaning, scale_data, raw, factor, v
  <2>8. CASE ~is_signed
    <3>1. v \in 0 .. 2^w - 1
      BY <1>7, <2>8 DEF SampleFits, w, v, is_signed
    <3>2. v % 2^w = v
      <4>1. PICK m \in Nat \ {0} : m = 2^w
        BY <2>5 DEF Halves
      <4>2. v \in Int /\ v >= 0 /\ v < m
        BY <1>1, <3>1, <4>1 DEF v
      <4>3. v % m = v
        BY <4>2
      <4> QED BY <4>1, <4>3
    <3> QED BY <1>5, <1>7, <2>4, <2>6, <2>8, <3>2
            DEF Value, Meaning, scale_data, raw, factor, v
  <2> QED BY <2>7, <2>8
<1> QED BY <1>6, <1>7

----------------------------------------------------------------------------
(* Samples to lists *)

Pushed(lists, raw, garbage) ==
  IF raw.channel \in Channels
    THEN [lists EXCEPT ![raw.channel] = Append(@, Value(raw, garbage))] ELSE lists

Lists == [Channels -> Seq(Int)]

LEMMA PushedIsLists ==
  ASSUME scaling_factors \in Seq(Int), NEW lists \in Lists, NEW raw \in Raws, NEW garbage \in Int
  PROVE  Pushed(lists, raw, garbage) \in Lists
<1>1. PICK v \in Int : v = Value(raw, garbage)
  BY ValueIsNumber
<1>2. ASSUME NEW ch \in Channels PROVE Append(lists[ch], v) \in Seq(Int)
  BY DEF Lists
<1> QED BY <1>1, <1>2 DEF Pushed, Lists

\* shunt_data takes the words of the buffer one after the other.
LEMMA ShuntSteps ==
  ASSUME scaling_factors \in Seq(Int), NEW garbage \in Int, NEW N \in Nat, NEW buffer,
         DOMAIN buffer = 1 .. N, \A i \in 1 .. N : buffer[i] \in Raws
  PROVE  \E t \in [0 .. N -> Lists] :
           /\ \A ch \in Channels : t[0][ch] = <<>>
           /\ t[N] = shunt_data(buffer, garbage)
           /\ \A i \in 1 .. N : t[i] = Pushed(t[i - 1], buffer[i], garbage)
<1> DEFINE S == 1 .. N
           base == [ch \in Channels |-> <<>>]
           op == [x \in Lists \X Raws |-> Pushed(x[1], x[2], garbage)]
<1>1. base \in Lists
  BY DEF Lists
<1>2. op \in [Lists \X Raws -> Lists]
  <2>1. ASSUME NEW x \in Lists \X Raws PROVE Pushed(x[1], x[2], garbage) \in Lists
    <3>1. x[1] \in Lists /\ x[2] \in Raws
      OBVIOUS
    <3> QED BY <3>1, PushedIsLists
  <2> QED BY <2>1
<1> HIDE DEF base
<1>3. PICK g \in [SUBSET S -> Lists] :
        \A s \in SUBSET S : g[s] = IF s = {} THEN base ELSE op[<<g[s \ {Max(s)}], buffer[Max(s)]>>]
  <2> HIDE DEF op
  <2>1. FoldOf(N, buffer, Lists, Raws, base, op)
    BY <1>1, <1>2 DEF FoldOf
  <2>2. \E g \in [SUBSET S -> Lists] : IsFold(g, N, buffer, base, op)
    BY <2>1, SequenceFold, Zenon
  <2> QED BY <2>2 DEF IsFold
<1>4. g = [s \in SUBSET S |-> IF s = {} THEN base
                              ELSE Pushed(g[s \ {Max(s)}], buffer[Max(s)], garbage)]
  <2>1. ASSUME NEW s \in SUBSET S
        PROVE  g[s] = IF s = {} THEN base ELSE Pushed(g[s \ {Max(s)}], buffer[Max(s)], garbage)
    <3>1. s # {} => <<g[s \ {Max(s)}], buffer[Max(s)]>> \in Lists \X Raws
      <4>1. s # {} => Max(s) \in S
        BY LargestExists
      <4> QED BY <4>1
    <3>2. s # {} => op[<<g[s \ {Max(s)}], buffer[Max(s)]>>]
                      = Pushed(g[s \ {Max(s)}], buffer[Max(s)], garbage)
      BY <3>1
    <3> HIDE DEF op
    <3> QED BY <1>3, <3>2
  <2> QED BY <2>1
<1> DEFINE f == CHOOSE f : f = [s \in SUBSET (DOMAIN buffer) |->
                  IF s = {} THEN [ch \in Channels |-> <<>>]
                  ELSE Pushed(f[s \ {Max(s)}], buffer[Max(s)], garbage)]
<1>5. f = [s \in SUBSET S |-> IF s = {} THEN base
                              ELSE Pushed(f[s \ {Max(s)}], buffer[Max(s)], garbage)]
  BY <1>4 DEF base
<1>6. shunt_data(buffer, garbage) = f[S]
  BY DEF shunt_data, FoldLeft, MapThenFoldSet, Pushed, Value
<1> HIDE DEF f, op
<1>7. /\ f[1 .. 0] = base
      /\ \A i \in 1 .. N : f[1 .. i] = Pushed(f[1 .. i - 1], buffer[i], garbage)
  <2>1. f[1 .. 0] = base
    <3>1. 1 .. 0 = {}
      OBVIOUS
    <3> QED BY <1>5, <3>1
  <2>2. ASSUME NEW i \in 1 .. N PROVE f[1 .. i] = Pushed(f[1 .. i - 1], buffer[i], garbage)
    <3>1. 1 .. i \in SUBSET S /\ 1 .. i # {}
      <4>1. i \in 1 .. i /\ \A k \in 1 .. i : k \in S
        OBVIOUS
      <4> QED BY <4>1
    <3>2. Max(1 .. i) = i /\ (1 .. i) \ {i} = 1 .. i - 1
      BY FirstNumbers
    <3> QED BY <1>5, <3>1, <3>2
  <2> QED BY <2>1, <2>2
<1> DEFINE t == [i \in 0 .. N |-> f[1 .. i]]
           G == {i \in Nat : i <= N => t[i] \in Lists}
<1>8. /\ t[0] = base /\ t[N] = shunt_data(buffer, garbage)
      /\ \A i \in 1 .. N : t[i] = Pushed(t[i - 1], buffer[i], garbage)
  <2>1. 0 \in 0 .. N /\ N \in 0 .. N /\ \A i \in 1 .. N : i \in 0 .. N /\ i - 1 \in 0 .. N
    OBVIOUS
  <2> QED BY <1>6, <1>7, <2>1
<1> HIDE DEF t
<1>9. \A i \in Nat : i \in G
  <2>1. 0 \in G
    BY <1>1, <1>8
  <2>2. ASSUME NEW i \in Nat, i \in G PROVE i + 1 \in G
    <3>1. SUFFICES ASSUME i + 1 <= N PROVE t[i + 1] \in Lists
      OBVIOUS
    <3>2. t[i] \in Lists /\ i + 1 \in 1 .. N /\ (i + 1) - 1 = i
      BY <2>2, <3>1
    <3>3. t[i + 1] = Pushed(t[i], buffer[i + 1], garbage) /\ buffer[i + 1] \in Raws
      BY <1>8, <3>2
    <3> QED BY <3>2, <3>3, PushedIsLists
  <2> HIDE DEF G
  <2> QED BY <2>1, <2>2, AllNumbers
<1>10. t \in [0 .. N -> Lists]
  <2>1. \A i \in 0 .. N : t[i] \in Lists
    BY <1>9
  <2> QED BY <2>1 DEF t
<1> QED BY <1>8, <1>10 DEF base

\* Each list has the samples of its channel, at their places among them.
IsBuffer(buffer, N) == DOMAIN buffer = 1 .. N /\ \A i \in 1 .. N : buffer[i] \in Raws
HasOwn(lists, ch, own, buffer, N, garbage) ==
  /\ lists \in Lists
  /\ Len(lists[ch]) = Rank(own, N)
  /\ \A n \in own : lists[ch][Rank(own, n)] = Value(buffer[n], garbage)

LEMMA ListsOfChannels ==
  ASSUME scaling_factors \in Seq(Int), NEW garbage \in Int, NEW N \in Nat, NEW buffer,
         IsBuffer(buffer, N), NEW ch \in Channels,
         NEW own, own = {m \in 1 .. N : buffer[m].channel = ch}
  PROVE  HasOwn(shunt_data(buffer, garbage), ch, own, buffer, N, garbage)
<1> USE DEF IsBuffer, HasOwn
<1>1. PICK t \in [0 .. N -> Lists] :
        /\ t[0][ch] = <<>>
        /\ t[N] = shunt_data(buffer, garbage)
        /\ \A i \in 1 .. N : t[i] = Pushed(t[i - 1], buffer[i], garbage)
  BY ShuntSteps
<1> DEFINE Holds(i) == /\ Len(t[i][ch]) = Rank(own, i)
                       /\ \A n \in own : n <= i =>
                            /\ Rank(own, n) \in 1 .. Len(t[i][ch])
                            /\ t[i][ch][Rank(own, n)] = Value(buffer[n], garbage)
           G == {i \in Nat : i <= N => Holds(i)}
<1>2. \A i \in 0 .. N : t[i][ch] \in Seq(Int)
  BY DEF Lists
<1>3. 0 \in G
  <2>1. Rank(own, 0) = 0
    BY RankGrows
  <2>2. \A n \in own : ~(n <= 0)
    OBVIOUS
  <2> QED BY <1>1, <2>1, <2>2
<1>4. ASSUME NEW i \in Nat, i \in G PROVE i + 1 \in G
  <2> HIDE DEF Holds
  <2>1. SUFFICES ASSUME i + 1 <= N PROVE Holds(i + 1)
    OBVIOUS
  <2>2. Holds(i) /\ i \in 0 .. N /\ i + 1 \in 1 .. N /\ (i + 1) - 1 = i
    <3>1. i \in 0 .. N /\ i + 1 \in 1 .. N /\ (i + 1) - 1 = i
      BY <2>1
    <3> QED BY <1>4, <2>1, <3>1
  <2> USE DEF Holds
  <2>3. t[i + 1] = Pushed(t[i], buffer[i + 1], garbage) /\ buffer[i + 1] \in Raws
    BY <1>1, <2>2
  <2>4. PICK v : v = Value(buffer[i + 1], garbage)
    OBVIOUS
  <2>5. v \in Int
    BY <2>3, <2>4, ValueIsNumber
  <2>6. /\ Rank(own, i) \in Nat
        /\ Rank(own, i + 1) = IF i + 1 \in own THEN Rank(own, i) + 1 ELSE Rank(own, i)
    BY RankGrows
  <2>7. i + 1 \in own <=> buffer[i + 1].channel = ch
    BY <2>2
  <2>8. t[i] \in Lists /\ t[i][ch] \in Seq(Int)
    BY <1>2, <2>2
  <2>9. CASE buffer[i + 1].channel = ch
    <3>1. t[i + 1][ch] = Append(t[i][ch], v)
      BY <2>3, <2>4, <2>8, <2>9 DEF Pushed, Lists
    <3>2. PICK list \in Seq(Int) : list = t[i][ch]
      BY <2>8
    <3>3. /\ Len(Append(list, v)) = Len(list) + 1
          /\ Append(list, v)[Len(list) + 1] = v
          /\ \A k \in 1 .. Len(list) : Append(list, v)[k] = list[k]
      BY <2>5
    <3>4. Len(t[i + 1][ch]) = Rank(own, i + 1) /\ Rank(own, i + 1) = Len(list) + 1
      BY <2>2, <2>6, <2>7, <2>9, <3>1, <3>2, <3>3
    <3>5. ASSUME NEW n \in own, n <= i + 1
          PROVE  /\ Rank(own, n) \in 1 .. Len(t[i + 1][ch])
                 /\ t[i + 1][ch][Rank(own, n)] = Value(buffer[n], garbage)
      <4>1. CASE n = i + 1
        <5>1. Len(list) + 1 \in 1 .. Len(list) + 1
          BY <3>2
        <5> QED BY <2>4, <3>1, <3>2, <3>3, <3>4, <4>1, <5>1
      <4>2. CASE n # i + 1
        <5>1. n <= i
          BY <3>5, <4>2
        <5>2. Rank(own, n) \in 1 .. Len(list) /\ list[Rank(own, n)] = Value(buffer[n], garbage)
          BY <2>2, <3>2, <5>1
        <5>3. Len(t[i + 1][ch]) = Len(list) + 1 /\ Len(list) \in Nat
          BY <3>2, <3>4
        <5> QED BY <3>1, <3>2, <3>3, <5>2, <5>3
      <4> QED BY <4>1, <4>2
    <3> QED BY <3>4, <3>5
  <2>10. CASE buffer[i + 1].channel # ch
    <3>1. t[i + 1][ch] = t[i][ch]
      BY <2>3, <2>8, <2>10 DEF Pushed, Lists
    <3>2. \A n \in own : n <= i + 1 => n <= i
      BY <2>7, <2>10
    <3> QED BY <2>2, <2>6, <2>7, <2>10, <3>1, <3>2
  <2> QED BY <2>9, <2>10
<1> HIDE DEF G
<1>5. N \in G
  BY <1>3, <1>4, AllNumbers
<1> QED BY <1>1, <1>5 DEF G

----------------------------------------------------------------------------
(* Lists to an answer *)

Entries == Seq([channel : Channels, data : Seq(Int)])

Added(answer, ch, lists) ==
  IF ch \in channel_status THEN Append(answer, [channel |-> ch, data |-> lists[ch]]) ELSE answer

LEMMA AddedIsEntries ==
  ASSUME NEW answer \in Entries, NEW ch \in Channels, NEW lists \in Lists
  PROVE  Added(answer, ch, lists) \in Entries
<1>1. PICK e \in [channel : Channels, data : Seq(Int)] : e = [channel |-> ch, data |-> lists[ch]]
  BY DEF Lists
<1>2. Append(answer, e) \in Entries
  BY DEF Entries
<1> QED BY <1>1, <1>2 DEF Added

\* read_data goes through the channels.
LEMMA AnsweredSteps ==
  ASSUME NEW lists \in Lists
  PROVE  \E t \in [0 .. NChannels -> Entries] :
           /\ t[0] = <<>>
           /\ t[NChannels] = Answered(lists)
           /\ \A i \in 1 .. NChannels : t[i] = Added(t[i - 1], i - 1, lists)
<1> DEFINE N == NChannels
           S == 1 .. N
           each == [i \in 1 .. N |-> i - 1]
           op == [x \in Entries \X Channels |-> Added(x[1], x[2], lists)]
<1>1. N \in Nat
  BY ScopeAssumption
<1> HIDE DEF N
<1>2. /\ <<>> \in Entries
      /\ DOMAIN each = S /\ \A i \in 1 .. N : each[i] = i - 1 /\ each[i] \in Channels
  BY <1>1 DEF Entries, Channels, N
<1>3. op \in [Entries \X Channels -> Entries]
  <2>1. ASSUME NEW x \in Entries \X Channels PROVE Added(x[1], x[2], lists) \in Entries
    <3>1. x[1] \in Entries /\ x[2] \in Channels
      OBVIOUS
    <3> QED BY <3>1, AddedIsEntries
  <2> QED BY <2>1
<1> HIDE DEF each
<1>4. PICK g \in [SUBSET S -> Entries] :
        \A s \in SUBSET S : g[s] = IF s = {} THEN <<>> ELSE op[<<g[s \ {Max(s)}], each[Max(s)]>>]
  <2> HIDE DEF op
  <2>1. FoldOf(N, each, Entries, Channels, <<>>, op)
    BY <1>1, <1>2, <1>3 DEF FoldOf
  <2>2. \E g \in [SUBSET S -> Entries] : IsFold(g, N, each, <<>>, op)
    BY <2>1, SequenceFold, Zenon
  <2> QED BY <2>2 DEF IsFold
<1>5. g = [s \in SUBSET S |-> IF s = {} THEN <<>>
                              ELSE Added(g[s \ {Max(s)}], each[Max(s)], lists)]
  <2>1. ASSUME NEW s \in SUBSET S
        PROVE  g[s] = IF s = {} THEN <<>> ELSE Added(g[s \ {Max(s)}], each[Max(s)], lists)
    <3>1. s # {} => <<g[s \ {Max(s)}], each[Max(s)]>> \in Entries \X Channels
      <4>1. s # {} => Max(s) \in S
        BY <1>1, LargestExists
      <4> QED BY <1>2, <4>1
    <3>2. s # {} => op[<<g[s \ {Max(s)}], each[Max(s)]>>]
                      = Added(g[s \ {Max(s)}], each[Max(s)], lists)
      BY <3>1
    <3> HIDE DEF op
    <3> QED BY <1>4, <3>2
  <2> QED BY <2>1
<1> DEFINE f == CHOOSE f : f = [s \in SUBSET (DOMAIN each) |->
                  IF s = {} THEN <<>> ELSE Added(f[s \ {Max(s)}], each[Max(s)], lists)]
<1>6. f = [s \in SUBSET S |-> IF s = {} THEN <<>>
                              ELSE Added(f[s \ {Max(s)}], each[Max(s)], lists)]
  BY <1>2, <1>5
<1>7. Answered(lists) = f[S]
  BY <1>2 DEF Answered, FoldLeft, MapThenFoldSet, Added, each, N
<1> HIDE DEF f, op
<1>8. /\ f[1 .. 0] = <<>>
      /\ \A i \in 1 .. N : f[1 .. i] = Added(f[1 .. i - 1], i - 1, lists)
  <2>1. f[1 .. 0] = <<>>
    <3>1. 1 .. 0 = {}
      OBVIOUS
    <3> QED BY <1>6, <3>1
  <2>2. ASSUME NEW i \in 1 .. N PROVE f[1 .. i] = Added(f[1 .. i - 1], i - 1, lists)
    <3>1. 1 .. i \in SUBSET S /\ 1 .. i # {}
      <4>1. i \in 1 .. i /\ \A k \in 1 .. i : k \in S
        BY <1>1
      <4> QED BY <4>1
    <3>2. Max(1 .. i) = i /\ (1 .. i) \ {i} = 1 .. i - 1
      BY <1>1, FirstNumbers
    <3> QED BY <1>2, <1>6, <3>1, <3>2
  <2> QED BY <2>1, <2>2
<1> DEFINE t == [i \in 0 .. N |-> f[1 .. i]]
           G == {i \in Nat : i <= N => t[i] \in Entries}
<1>9. /\ t[0] = <<>> /\ t[N] = Answered(lists)
      /\ \A i \in 1 .. N : t[i] = Added(t[i - 1], i - 1, lists)
  <2>1. 0 \in 0 .. N /\ N \in 0 .. N /\ \A i \in 1 .. N : i \in 0 .. N /\ i - 1 \in 0 .. N
    BY <1>1
  <2> QED BY <1>7, <1>8, <2>1
<1> HIDE DEF t
<1>10. \A i \in Nat : i \in G
  <2>1. 0 \in G
    BY <1>2, <1>9
  <2>2. ASSUME NEW i \in Nat, i \in G PROVE i + 1 \in G
    <3>1. SUFFICES ASSUME i + 1 <= N PROVE t[i + 1] \in Entries
      OBVIOUS
    <3>2. t[i] \in Entries /\ i + 1 \in 1 .. N /\ (i + 1) - 1 = i /\ i \in Channels
      BY <1>1, <2>2, <3>1 DEF Channels, N
    <3>3. t[i + 1] = Added(t[i], i, lists)
      BY <1>9, <3>2
    <3> QED BY <3>2, <3>3, AddedIsEntries
  <2> HIDE DEF G
  <2> QED BY <2>1, <2>2, AllNumbers
<1>11. t \in [0 .. N -> Entries]
  <2>1. \A i \in 0 .. N : t[i] \in Entries
    BY <1>1, <1>10
  <2> QED BY <2>1 DEF t
<1> QED BY <1>9, <1>11 DEF N

\* The channels that are on, in their order, each with its list.
LEMMA AnswerOfChannels ==
  ASSUME NEW lists \in Lists, channel_status \subseteq Channels
  PROVE  LET answer == Answered(lists)
         IN /\ answer \in Entries
            /\ {answer[i].channel : i \in DOMAIN answer} = channel_status
            /\ \A i, j \in DOMAIN answer : i < j => answer[i].channel < answer[j].channel
            /\ \A i \in DOMAIN answer : /\ answer[i].channel \in Channels
                                        /\ answer[i].data = lists[answer[i].channel]
<1> DEFINE N == NChannels
<1>1. N \in Nat /\ Channels = 0 .. N - 1
  BY ScopeAssumption DEF Channels
<1>2. PICK t \in [0 .. N -> Entries] :
        /\ t[0] = <<>>
        /\ t[N] = Answered(lists)
        /\ \A i \in 1 .. N : t[i] = Added(t[i - 1], i - 1, lists)
  BY AnsweredSteps
<1> HIDE DEF N
<1> DEFINE Own(a, n) == \A i \in DOMAIN a : /\ a[i].channel \in channel_status /\ a[i].channel < n
                                            /\ a[i].data = lists[a[i].channel]
           All(a, n) == \A c \in channel_status : c < n => \E i \in DOMAIN a : a[i].channel = c
           InOrder(a) == \A i, j \in DOMAIN a : i < j => a[i].channel < a[j].channel
           Holds(n) == Own(t[n], n) /\ All(t[n], n) /\ InOrder(t[n])
           G == {n \in Nat : n <= N => Holds(n)}
<1>3. 0 \in G
  <2>1. \A c \in channel_status : ~(c < 0)
    BY <1>1
  <2> QED BY <1>2, <2>1
<1>4. ASSUME NEW n \in Nat, n \in G PROVE n + 1 \in G
  <2> HIDE DEF Holds
  <2>1. SUFFICES ASSUME n + 1 <= N PROVE Holds(n + 1)
    OBVIOUS
  <2>2. Holds(n) /\ n \in 0 .. N /\ n + 1 \in 1 .. N /\ (n + 1) - 1 = n /\ n \in Channels
    BY <1>1, <1>4, <2>1
  <2>3. t[n + 1] = Added(t[n], n, lists) /\ t[n] \in Entries
    BY <1>2, <2>2
  <2>4. PICK a \in Entries : a = t[n] /\ Own(a, n) /\ All(a, n) /\ InOrder(a)
    BY <2>2, <2>3, Zenon DEF Holds
  <2>5. \A c \in channel_status : c \in Nat
    BY <1>1
  <2>6. CASE n \in channel_status
    <3> DEFINE e == [channel |-> n, data |-> lists[n]]
               b == Append(a, e)
    <3>1. t[n + 1] = b
      BY <2>3, <2>4, <2>6 DEF Added
    <3>2. /\ Len(a) \in Nat /\ DOMAIN a = 1 .. Len(a) /\ DOMAIN b = 1 .. Len(a) + 1
          /\ b[Len(a) + 1] = e /\ \A i \in 1 .. Len(a) : b[i] = a[i]
      BY DEF Entries
    <3>3. e.channel = n /\ e.data = lists[n]
      OBVIOUS
    <3> HIDE DEF b, e
    <3>4. \A i \in DOMAIN b : i \in DOMAIN a \/ i = Len(a) + 1
      BY <3>2
    <3>5. Own(b, n + 1)
      <4>1. SUFFICES ASSUME NEW i \in DOMAIN b
                     PROVE  /\ b[i].channel \in channel_status /\ b[i].channel < n + 1
                            /\ b[i].data = lists[b[i].channel]
        OBVIOUS
      <4>2. CASE i \in DOMAIN a
        <5>1. b[i] = a[i]
          BY <3>2, <4>2
        <5>2. /\ a[i].channel \in channel_status /\ a[i].channel < n
              /\ a[i].data = lists[a[i].channel]
          BY <2>4, <4>2
        <5>3. a[i].channel < n + 1
          BY <2>5, <5>2
        <5> QED BY <5>1, <5>2, <5>3
      <4>3. CASE i = Len(a) + 1
        BY <2>6, <3>2, <3>3, <4>3
      <4> QED BY <3>4, <4>2, <4>3
    <3>6. All(b, n + 1)
      <4>1. SUFFICES ASSUME NEW c \in channel_status, c < n + 1
                     PROVE  \E i \in DOMAIN b : b[i].channel = c
        OBVIOUS
      <4>2. CASE c < n
        <5>1. PICK i \in DOMAIN a : a[i].channel = c
          BY <2>4, <4>2
        <5> QED BY <3>2, <5>1
      <4>3. CASE ~(c < n)
        <5>1. c = n
          BY <2>5, <4>1, <4>3
        <5>2. Len(a) + 1 \in DOMAIN b
          BY <3>2
        <5> QED BY <3>2, <3>3, <5>1, <5>2
      <4> QED BY <4>2, <4>3
    <3>7. InOrder(b)
      <4>1. SUFFICES ASSUME NEW i \in DOMAIN b, NEW j \in DOMAIN b, i < j
                     PROVE  b[i].channel < b[j].channel
        OBVIOUS
      <4>2. i \in DOMAIN a /\ b[i] = a[i]
        BY <3>2, <4>1
      <4>3. CASE j \in DOMAIN a
        <5>1. b[j] = a[j]
          BY <3>2, <4>3
        <5> QED BY <2>4, <4>1, <4>2, <4>3, <5>1
      <4>4. CASE j = Len(a) + 1
        <5>1. a[i].channel < n
          BY <2>4, <4>2
        <5> QED BY <3>2, <3>3, <4>2, <4>4, <5>1
      <4> QED BY <3>4, <4>3, <4>4
    <3> HIDE DEF Own, All, InOrder
    <3> QED BY <3>1, <3>5, <3>6, <3>7 DEF Holds
  <2>7. CASE n \notin channel_status
    <3>1. t[n + 1] = a
      BY <2>3, <2>4, <2>7 DEF Added
    <3>2. Own(a, n + 1)
      <4>1. SUFFICES ASSUME NEW i \in DOMAIN a
                     PROVE  /\ a[i].channel \in channel_status /\ a[i].channel < n + 1
                            /\ a[i].data = lists[a[i].channel]
        OBVIOUS
      <4>2. /\ a[i].channel \in channel_status /\ a[i].channel < n
            /\ a[i].data = lists[a[i].channel]
        BY <2>4
      <4>3. a[i].channel < n + 1
        BY <2>5, <4>2
      <4> QED BY <4>2, <4>3
    <3>3. All(a, n + 1)
      <4>1. \A c \in channel_status : c < n + 1 => c < n
        BY <2>5, <2>7
      <4> QED BY <2>4, <4>1
    <3> HIDE DEF Own, All, InOrder
    <3> QED BY <2>4, <3>1, <3>2, <3>3 DEF Holds
  <2> QED BY <2>6, <2>7
<1> HIDE DEF G
<1>5. N \in G
  BY <1>1, <1>3, <1>4, AllNumbers
<1>6. PICK a \in Entries : a = Answered(lists) /\ Own(a, N) /\ All(a, N) /\ InOrder(a)
  <2>1. Holds(N) /\ t[N] \in Entries
    BY <1>1, <1>2, <1>5 DEF G
  <2> HIDE DEF Own, All, InOrder
  <2> QED BY <1>2, <2>1
<1>7. {a[i].channel : i \in DOMAIN a} = channel_status
  <2>1. \A c \in channel_status : c < N
    BY <1>1
  <2>2. \A c \in channel_status : \E i \in DOMAIN a : a[i].channel = c
    BY <1>6, <2>1
  <2>3. \A i \in DOMAIN a : a[i].channel \in channel_status
    BY <1>6
  <2> QED BY <2>2, <2>3
<1>8. \A i \in DOMAIN a : a[i].channel \in Channels
  BY <1>6
<1> QED BY <1>6, <1>7, <1>8

----------------------------------------------------------------------------
(* Types *)

ScopeTypes ==
  /\ scope_base_address \in Bases \union {0}
  /\ first_load \in BOOLEAN
  /\ scaling_factors \in Seq(Int)
  /\ channel_status \subseteq Channels
DataTypes == data \in Entries /\ kernel \in Captures \union {Nothing}
AcquiredTypes ==
  /\ acquired \in [ScopeAddresses -> SUBSET Acquisitions]
  /\ \A b \in ScopeAddresses : Cardinality(acquired[b]) <= 1

ScopeTypesHold == BusTypeOK /\ ScopeTypes /\ DataTypes /\ AcquiredTypes

LEMMA ScopeTypesAreTypes == ScopeTypesHold => TypeOK
<1> SUFFICES ASSUME ScopeTypesHold PROVE TypeOK
  OBVIOUS
<1>1. \A i \in DOMAIN data : data[i].channel \in Channels /\ data[i].data \in Seq(Int)
  <2> DEFINE E == [channel : Channels, data : Seq(Int)]
  <2>1. data \in Seq(E)
    BY DEF ScopeTypesHold, DataTypes, Entries
  <2> HIDE DEF E
  <2>2. \A i \in DOMAIN data : data[i] \in E
    BY <2>1
  <2> QED BY <2>2 DEF E
<1> QED BY <1>1 DEF ScopeTypesHold, ScopeTypes, AcquiredTypes, TypeOK

\* What set_acquisition stores are words at addresses.
LEMMA AcquisitionStoresAreStores ==
  ASSUME NEW b \in Nat, NEW a \in Acquisitions
  PROVE  AcquisitionStores(b, a) \in Stores
<1> DEFINE first == <<<<TrgMode(b), TriggerCode(a.trigger)>>,
                      <<TrgSrc(b), (a.source - 1) % WordModulus>>,
                      <<TrgLvl(b), a.level>>,
                      <<AcqMode(b), ModeCode(a.mode)>>,
                      <<TrgPoint(b), a.point>>>>
           second == <<<<TbCtrl(b), 1>>, <<TbPeriod(b), a.prescaler>>, <<TbThreshold(b), 1>>>>
           Pairs == Nat \X Word
<1>1. /\ TrgMode(b) \in Nat /\ TrgSrc(b) \in Nat /\ TrgLvl(b) \in Nat /\ AcqMode(b) \in Nat
      /\ TrgPoint(b) \in Nat /\ TbCtrl(b) \in Nat /\ TbPeriod(b) \in Nat /\ TbThreshold(b) \in Nat
  BY ScopeAssumption
     DEF TrgMode, TrgSrc, TrgLvl, AcqMode, TrgPoint, TbCtrl, TbPeriod, TbThreshold
<1>2. /\ a.source \in Word /\ a.level \in Word /\ a.point \in Word /\ a.prescaler \in Word
      /\ 0 \in Word /\ 1 \in Word /\ 2 \in Word
  BY AcquisitionsAreWords
<1>3. TriggerCode(a.trigger) \in Word /\ ModeCode(a.mode) \in Word
  BY <1>2 DEF TriggerCode, ModeCode
<1>4. (a.source - 1) % WordModulus \in Word
  <2>1. a.source - 1 \in Int /\ WordModulus \in Nat \ {0}
    BY <1>2, BusAssumption DEF Word
  <2> QED BY <2>1 DEF Word
<1>5. first \in Seq(Pairs) /\ second \in Seq(Pairs) /\ <<>> \in Seq(Pairs)
  BY <1>1, <1>2, <1>3, <1>4
<1> HIDE DEF first, second, Pairs
<1>6. first \o second \in Seq(Pairs) /\ first \o <<>> \in Seq(Pairs)
  BY <1>5
<1>7. AcquisitionStores(b, a) = first \o IF a.prescaler > 2 THEN second ELSE <<>>
  BY DEF AcquisitionStores, first, second
<1> QED BY <1>6, <1>7 DEF Stores, Pairs

\* What read_data answers has a list of numbers for each channel.
LEMMA AnswerType ==
  ASSUME ScopeTypes, NEW garbage \in Garbage, NEW N \in Nat, NEW buffer,
         DOMAIN buffer = 1 .. N, \A i \in 1 .. N : buffer[i] \in Raws
  PROVE  Answered(shunt_data(buffer, garbage)) \in Entries
<1>1. garbage \in Int /\ scaling_factors \in Seq(Int) /\ channel_status \subseteq Channels
  BY ScopeDataAssumption DEF ScopeTypes
<1>2. PICK lists \in Lists : lists = shunt_data(buffer, garbage)
  <2>1. PICK t \in [0 .. N -> Lists] : t[N] = shunt_data(buffer, garbage)
    BY <1>1, ShuntSteps
  <2> QED BY <2>1
<1> QED BY <1>1, <1>2, AnswerOfChannels

\* The words of a buffer of samples.
LEMMA RawsOfCapture ==
  ASSUME NEW c \in Seq(Samples)
  PROVE  /\ Len(c) \in Nat /\ DOMAIN c = 1 .. Len(c) /\ \A i \in 1 .. Len(c) : c[i] \in Samples
         /\ DOMAIN Words(c) = 1 .. Len(c) /\ \A i \in 1 .. Len(c) : Words(c)[i] \in Raws
<1>1. c \in Seq(Samples)
  OBVIOUS
<1>2. /\ Len(c) \in Nat /\ DOMAIN c = 1 .. Len(c) /\ \A i \in 1 .. Len(c) : c[i] \in Samples
  BY <1>1
<1>3. ASSUME NEW sample \in Samples PROVE RawSample(sample) \in Raws
  <2>1. /\ sample.channel \in Nat /\ sample.value \in Int /\ sample.slot.width \in Nat
        /\ WordModulus \in Nat \ {0}
    BY BusAssumption DEF Samples
  <2>2. ASSUME NEW v \in Nat, NEW b \in {16, 32} PROVE SetBit(v, b) \in Nat
    BY DEF SetBit
  <2>3. ASSUME NEW size \in Nat, NEW signed, NEW float
        PROVE  get_metadata_value(size, signed, float) \in Nat
    <3>1. PICK v \in Nat : v = (size - 8) % WordModulus
      BY <2>1
    <3>2. PICK u \in Nat : u = IF signed THEN SetBit(v, 16) ELSE v
      BY <2>2
    <3>3. (IF float THEN SetBit(u, 32) ELSE u) \in Nat
      BY <2>2
    <3> QED BY <3>1, <3>2, <3>3 DEF get_metadata_value
  <2>4. PICK m \in Nat : m = StampedMetadata(sample.slot)
    BY <2>1, <2>3 DEF StampedMetadata
  <2>5. m % 65536 \in Int
    BY SMT
  <2>6. sample.value % WordModulus \in Int
    BY <2>1
  <2> QED BY <2>1, <2>4, <2>5, <2>6, SMT DEF RawSample, Raws
<1> HIDE DEF Raws
<1> QED BY <1>2, <1>3 DEF Words

\* The buffer holds what the read handed over, and zeros after it.
LEMMA FilledBuffer ==
  ASSUME NEW c \in Captures \union {Nothing}
  PROVE  /\ Filled(c) \in Seq(Samples)
         /\ \A i \in DOMAIN Filled(c) :
              Filled(c)[i] = ZeroSample \/ \E j \in DOMAIN c : Filled(c)[i] = c[j]
<1>1. c \in Seq(Samples) /\ ZeroSample \in Samples
  <2>1. Captures \subseteq Seq(Samples)
    BY ScopeDataAssumption DEF Samples
  <2>2. Nothing \in Seq(Samples)
    BY DEF Nothing
  <2>3. ZeroSample \in Samples
    BY DEF ZeroSample, Samples
  <2> QED BY <2>1, <2>2, <2>3
<1>2. Len(c) \in 0 .. NChannels * BufferSize
  BY ScopeDataAssumption, ScopeAssumption DEF Nothing
<1>3. PICK room \in Nat : room = NChannels * BufferSize - Len(c)
  <2>1. NChannels * BufferSize \in Nat
    BY ScopeAssumption
  <2> QED BY <1>2, <2>1
<1> DEFINE zeros == [i \in 1 .. room |-> ZeroSample]
<1>4. zeros \in Seq(Samples) /\ Len(zeros) = room /\ \A i \in 1 .. room : zeros[i] = ZeroSample
  BY <1>1
<1>5. Filled(c) = c \o zeros
  BY <1>3 DEF Filled
<1> HIDE DEF zeros
<1>6. /\ c \o zeros \in Seq(Samples) /\ Len(c \o zeros) = Len(c) + Len(zeros)
      /\ \A i \in 1 .. Len(c) + Len(zeros) :
           (c \o zeros)[i] = IF i <= Len(c) THEN c[i] ELSE zeros[i - Len(c)]
  BY <1>1, <1>4, ConcatProperties, Zenon
<1>7. ASSUME NEW i \in DOMAIN Filled(c)
      PROVE  Filled(c)[i] = ZeroSample \/ \E j \in DOMAIN c : Filled(c)[i] = c[j]
  <2>1. Len(c) \in Nat /\ DOMAIN c = 1 .. Len(c) /\ i \in 1 .. Len(c) + room
    BY <1>1, <1>4, <1>5, <1>6
  <2>2. CASE i <= Len(c)
    BY <1>4, <1>5, <1>6, <2>1, <2>2
  <2>3. CASE ~(i <= Len(c))
    <3>1. i - Len(c) \in 1 .. room
      BY <2>1, <2>3
    <3>2. Filled(c)[i] = zeros[i - Len(c)]
      BY <1>4, <1>5, <1>6, <2>1, <2>3
    <3> QED BY <1>4, <3>1, <3>2
  <2> QED BY <2>2, <2>3
<1> QED BY <1>5, <1>6, <1>7

\* A command that leaves the scope and what it acquired alone.
LEMMA BusStepTypes ==
  ASSUME ScopeTypesHold, BusTypeOK', UNCHANGED <<scopeVars, data, kernel, acquired>>
  PROVE  ScopeTypesHold'
BY DEF ScopeTypesHold, ScopeTypes, DataTypes, AcquiredTypes, Entries, scopeVars

LEMMA UnchangedBusTypes ==
  ASSUME BusTypeOK, UNCHANGED busVars PROVE BusTypeOK'
BY DEF busVars, BusTypeOK

LEMMA DieTypes ==
  ASSUME ScopeTypesHold, NEW of, Die(of) PROVE ScopeTypesHold'
<1>1. BusTypeOK'
  BY AccessControlType DEF Die, ScopeTypesHold
<1> QED BY <1>1, BusStepTypes DEF Die

LEMMA RejectTypes ==
  ASSUME ScopeTypesHold, Reject PROVE ScopeTypesHold'
<1>1. BusTypeOK'
  BY UnchangedBusTypes DEF Reject, ScopeTypesHold
<1> QED BY <1>1, BusStepTypes DEF Reject

\* scope_manager::set_acquisition.
LEMMA AcquisitionTypes ==
  ASSUME ScopeTypesHold, NEW a \in Acquisitions, set_acquisition(a),
         UNCHANGED <<scopeVars, data, kernel>>
  PROVE  ScopeTypesHold'
<1>1. CASE scope_base_address = 0
  <2>1. UNCHANGED <<busVars, acquired>>
    BY <1>1, Zenon DEF set_acquisition
  <2>2. BusTypeOK'
    BY <2>1, UnchangedBusTypes DEF ScopeTypesHold
  <2> QED BY <2>1, <2>2, BusStepTypes
<1>2. CASE scope_base_address # 0
  <2>1. PICK b \in Nat : b = scope_base_address
    BY <1>2, ScopeAssumption DEF ScopeTypesHold, ScopeTypes
  <2>2. /\ write_direct_all(AcquisitionStores(b, a))
        /\ acquired' = IF fpga_loaded /\ up' /\ b \in ScopeAddresses
                       THEN [acquired EXCEPT ![b] = {a}] ELSE acquired
    BY <1>2, <2>1, Zenon DEF set_acquisition
  <2>3. BusTypeOK'
    BY <2>2, AcquisitionStoresAreStores, DirectWritesType DEF ScopeTypesHold
  <2>4. AcquiredTypes'
    <3>1. Cardinality({a}) = 1
      BY FS_Singleton
    <3>2. AcquiredTypes
      BY DEF ScopeTypesHold
    <3>3. CASE acquired' = acquired
      BY <3>2, <3>3 DEF AcquiredTypes
    <3>4. CASE acquired' = [acquired EXCEPT ![b] = {a}] /\ b \in ScopeAddresses
      <4>1. acquired' \in [ScopeAddresses -> SUBSET Acquisitions]
        BY <3>2, <3>4 DEF AcquiredTypes
      <4>2. ASSUME NEW c \in ScopeAddresses PROVE Cardinality(acquired'[c]) <= 1
        <5>1. acquired'[c] = IF c = b THEN {a} ELSE acquired[c]
          BY <3>2, <3>4 DEF AcquiredTypes
        <5> QED BY <3>1, <3>2, <5>1 DEF AcquiredTypes
      <4> QED BY <4>1, <4>2 DEF AcquiredTypes
    <3> QED BY <2>2, <3>3, <3>4, Zenon
  <2> QED BY <2>3, <2>4 DEF ScopeTypesHold, ScopeTypes, DataTypes, Entries, scopeVars
<1> QED BY <1>1, <1>2

\* scope_accessor::read_data.
LEMMA ReadTypes ==
  ASSUME ScopeTypesHold, NEW failed \in BOOLEAN, process_read_data(failed)
  PROVE  ScopeTypesHold'
<1>1. ScopeTypes /\ data \in Entries /\ kernel \in Captures \union {Nothing} /\ <<>> \in Entries
  BY DEF ScopeTypesHold, DataTypes, Entries
<1>2. \/ data' = <<>>
      \/ \E garbage \in Garbage, c \in Captures \union {Nothing} :
           data' = Answered(shunt_data(Words(Filled(c)), garbage))
  <2>1. CASE ~failed /\ kernel = Nothing
    BY <2>1 DEF process_read_data
  <2>2. CASE ~(~failed /\ kernel = Nothing)
    <3>1. (IF failed THEN <<>> ELSE kernel) \in Captures \union {Nothing}
      BY <1>1 DEF Nothing
    <3> QED BY <2>2, <3>1, Zenon DEF process_read_data
  <2> QED BY <2>1, <2>2
<1>3. ASSUME NEW garbage \in Garbage, NEW c \in Captures \union {Nothing}
      PROVE  Answered(shunt_data(Words(Filled(c)), garbage)) \in Entries
  <2>1. Filled(c) \in Seq(Samples)
    BY FilledBuffer
  <2>2. PICK buffer : buffer = Words(Filled(c))
    OBVIOUS
  <2>3. PICK N \in Nat : DOMAIN buffer = 1 .. N /\ \A i \in 1 .. N : buffer[i] \in Raws
    BY <2>1, <2>2, RawsOfCapture
  <2> QED BY <1>1, <2>2, <2>3, AnswerType
<1>5. data' \in Entries
  BY <1>1, <1>2, <1>3
<1>6. kernel' \in Captures \union {Nothing}
  BY <1>1 DEF process_read_data
<1>7. UNCHANGED <<busVars, scopeVars, acquired>>
  BY DEF process_read_data
<1>8. BusTypeOK'
  BY <1>7, UnchangedBusTypes DEF ScopeTypesHold
<1>9. DataTypes'
  BY <1>5, <1>6 DEF DataTypes, Entries
<1> QED BY <1>7, <1>8, <1>9 DEF ScopeTypesHold, ScopeTypes, AcquiredTypes, scopeVars

LEMMA NothingAcquired ==
  /\ [b \in ScopeAddresses |-> {}] \in [ScopeAddresses -> SUBSET Acquisitions]
  /\ \A b \in ScopeAddresses : Cardinality([c \in ScopeAddresses |-> {}][b]) <= 1
<1>1. Cardinality({}) = 0
  BY FS_EmptySet
<1> QED BY <1>1

LEMMA OnesAreFactors == [i \in 1 .. NChannels |-> 1] \in Seq(Int)
BY ScopeAssumption

LEMMA ScopeTypesInit == Init => ScopeTypesHold
<1> SUFFICES ASSUME Init PROVE ScopeTypesHold
  OBVIOUS
<1>1. BusTypeOK
  <2>1. 0 \in Word /\ <<>> \in Seq(BusOps)
    BY BusAssumption DEF Word
  <2> QED BY <2>1 DEF Init, BusInit, BusTypeOK
<1>2. ScopeTypes
  BY OnesAreFactors DEF Init, ScopeInit, ScopeTypes
<1>3. DataTypes
  BY DEF Init, ScopeInit, DataTypes, Entries
<1>4. AcquiredTypes
  BY NothingAcquired DEF Init, AcquiredTypes
<1> QED BY <1>1, <1>2, <1>3, <1>4 DEF ScopeTypesHold

LEMMA ScopeTypesStep == ScopeTypesHold /\ [Next]_vars => ScopeTypesHold'
<1> SUFFICES ASSUME ScopeTypesHold, [Next]_vars PROVE ScopeTypesHold'
  OBVIOUS
<1> USE DEF Answer
<1>1. CASE SetAcquisition
  <2>1. PICK a \in Acquisitions, complete \in BOOLEAN : process_set_acquisition(a, complete)
    BY <1>1 DEF SetAcquisition
  <2>2. CASE Die("type_error")
    BY <2>2, DieTypes
  <2>3. CASE set_acquisition(a) /\ UNCHANGED <<scopeVars, data, kernel>>
    BY <2>3, AcquisitionTypes
  <2> QED BY <2>1, <2>2, <2>3, Zenon DEF process_set_acquisition
<1>2. CASE SetScopeAddress
  <2>1. PICK form \in {"null", "not_object", "not_unsigned", "valid"},
             a \in Bases, offset \in BufferOffsets, buffer \in Buffers :
               process_set_scope_address(form, a, offset, buffer)
    BY <1>2 DEF SetScopeAddress
  <2>2. CASE UNCHANGED <<busVars, scopeVars, acquired>> /\ UNCHANGED <<data, kernel>>
    <3>1. BusTypeOK'
      BY <2>2, UnchangedBusTypes DEF ScopeTypesHold
    <3> QED BY <2>2, <3>1, BusStepTypes
  <2>3. CASE Reject
    BY <2>3, RejectTypes
  <2>4. CASE /\ set_scope_data(a + offset, buffer) /\ scope_base_address' = a
             /\ UNCHANGED <<first_load, scaling_factors, channel_status, acquired>>
             /\ UNCHANGED <<data, kernel>>
    <3>1. a + offset \in Nat
      BY ScopeAssumption
    <3>2. buffer % WordModulus \in Word
      <4>1. buffer \in Int /\ WordModulus \in Nat \ {0}
        BY ScopeAssumption, BusAssumption
      <4> QED BY <4>1 DEF Word
    <3>3. BusTypeOK'
      BY <2>4, <3>1, <3>2, DirectWriteType DEF set_scope_data, ScopeTypesHold
    <3> QED BY <2>4, <3>3 DEF ScopeTypesHold, ScopeTypes, DataTypes, AcquiredTypes, Entries
  <2>5. CASE Die("type_error")
    BY <2>5, DieTypes
  <2> QED BY <2>1, <2>2, <2>3, <2>4, <2>5, Zenon DEF process_set_scope_address
<1>3. CASE DisableDma
  <2>1. PICK form \in {"missing", "valid"}, status \in {0, 1} : process_disable_dma(form, status)
    BY <1>3 DEF DisableDma
  <2>2. CASE Die("type_error")
    BY <2>2, DieTypes
  <2>3. CASE /\ first_load' = FALSE
             /\ UNCHANGED <<busVars, scope_base_address, scaling_factors, channel_status, acquired>>
             /\ UNCHANGED <<data, kernel>>
    <3>1. BusTypeOK'
      BY <2>3, UnchangedBusTypes DEF ScopeTypesHold
    <3> QED BY <2>3, <3>1 DEF ScopeTypesHold, ScopeTypes, DataTypes, AcquiredTypes, Entries
  <2>4. CASE /\ IF MuxCtrl(scope_base_address) = 0 THEN UNCHANGED busVars
                ELSE write_direct(MuxCtrl(scope_base_address), status)
             /\ UNCHANGED <<scopeVars, acquired>> /\ UNCHANGED <<data, kernel>>
    <3>1. CASE UNCHANGED busVars
      <4>1. BusTypeOK'
        BY <3>1, UnchangedBusTypes DEF ScopeTypesHold
      <4> QED BY <2>4, <4>1, BusStepTypes
    <3>2. CASE write_direct(MuxCtrl(scope_base_address), status)
      <4>1. MuxCtrl(scope_base_address) \in Nat
        BY ScopeAssumption DEF ScopeTypesHold, ScopeTypes, MuxCtrl
      <4>2. status \in Word
        BY AcquisitionsAreWords
      <4>3. BusTypeOK'
        BY <3>2, <4>1, <4>2, DirectWriteType DEF ScopeTypesHold
      <4> QED BY <2>4, <4>3, BusStepTypes
    <3> QED BY <2>4, <3>1, <3>2
  <2> QED BY <2>1, <2>2, <2>3, <2>4, Zenon DEF process_disable_dma
<1>4. CASE GetAcquisitionStatus
  <2>1. UNCHANGED <<scopeVars, acquired>> /\ UNCHANGED <<data, kernel>>
    BY <1>4, Zenon DEF GetAcquisitionStatus, process_get_acquisition_status
  <2>2. UNCHANGED busVars \/ read_direct(TrgStatus(scope_base_address))
    BY <1>4, Zenon DEF GetAcquisitionStatus, process_get_acquisition_status
  <2>3. TrgStatus(scope_base_address) \in Nat
    BY ScopeAssumption DEF ScopeTypesHold, ScopeTypes, TrgStatus
  <2>4. BusTypeOK'
    BY <2>2, <2>3, UnchangedBusTypes, ReadType DEF ScopeTypesHold
  <2> QED BY <2>1, <2>4, BusStepTypes
<1>5. CASE ReadData
  BY <1>5, ReadTypes DEF ReadData
<1>6. CASE SetScalingFactors
  <2>1. PICK sf \in Scalings, numeric \in BOOLEAN : process_set_scaling_factors(sf, numeric)
    BY <1>6 DEF SetScalingFactors
  <2>2. CASE Reject
    BY <2>2, RejectTypes
  <2>3. CASE Die("fault")
    BY <2>3, DieTypes
  <2>4. CASE /\ scaling_factors' = sf
             /\ UNCHANGED <<busVars, scope_base_address, first_load, channel_status, acquired>>
             /\ UNCHANGED <<data, kernel>>
    <3>1. BusTypeOK'
      BY <2>4, UnchangedBusTypes DEF ScopeTypesHold
    <3>2. sf \in Seq(Int)
      BY ScopeDataAssumption
    <3> QED BY <2>4, <3>1, <3>2 DEF ScopeTypesHold, ScopeTypes, DataTypes, AcquiredTypes, Entries
  <2> QED BY <2>1, <2>2, <2>3, <2>4, Zenon DEF process_set_scaling_factors
<1>7. CASE SetChannelStatus
  <2>1. PICK form \in {"not_object", "not_number", "not_boolean", "valid"}, on \in Statuses :
               process_set_channel_status(form, on)
    BY <1>7 DEF SetChannelStatus
  <2>2. CASE Reject
    BY <2>2, RejectTypes
  <2>3. CASE Die("invalid_argument") \/ Die("type_error")
    BY <2>3, DieTypes
  <2>4. CASE /\ channel_status' = on
             /\ UNCHANGED <<busVars, scope_base_address, first_load, scaling_factors, acquired>>
             /\ UNCHANGED <<data, kernel>>
    <3>1. BusTypeOK'
      BY <2>4, UnchangedBusTypes DEF ScopeTypesHold
    <3>2. on \subseteq Channels
      BY ScopeAssumption DEF Channels
    <3>3. ScopeTypes'
      BY <2>4, <3>2 DEF ScopeTypesHold, ScopeTypes, Channels
    <3> QED BY <2>4, <3>1, <3>3 DEF ScopeTypesHold, DataTypes, AcquiredTypes, Entries
  <2> QED BY <2>1, <2>2, <2>3, <2>4, Zenon DEF process_set_channel_status
<1>8. CASE ClearOperations
  <2>1. BusTypeOK'
    BY <1>8, AccessControlType DEF ClearOperations, ScopeTypesHold
  <2> QED BY <1>8, <2>1, BusStepTypes DEF ClearOperations
<1>9. CASE LoadBitstream
  <2>1. PICK reported \in BOOLEAN, fate \in {"kept", "programmed", "lost"} :
               /\ load_bitstream(reported, fate)
               /\ acquired' = IF fate = "kept" THEN acquired ELSE [b \in ScopeAddresses |-> {}]
               /\ UNCHANGED <<data, kernel>> /\ UNCHANGED scopeVars
    BY <1>9 DEF LoadBitstream
  <2>2. BusTypeOK'
    BY <2>1, LoadBitstreamType DEF ScopeTypesHold
  <2>3. AcquiredTypes'
    <3>1. CASE acquired' = acquired
      BY <3>1 DEF ScopeTypesHold, AcquiredTypes
    <3>2. CASE acquired' = [b \in ScopeAddresses |-> {}]
      BY <3>2, NothingAcquired DEF AcquiredTypes
    <3> QED BY <2>1, <3>1, <3>2
  <2> QED BY <2>1, <2>2, <2>3 DEF ScopeTypesHold, ScopeTypes, DataTypes, Entries, scopeVars
<1>10. CASE Capture
  <2>1. PICK c \in Captures : kernel' = c
    BY <1>10 DEF Capture
  <2>2. UNCHANGED <<busVars, scopeVars, data, acquired>>
    BY <1>10 DEF Capture
  <2>3. BusTypeOK'
    BY <2>2, UnchangedBusTypes DEF ScopeTypesHold
  <2> QED BY <2>1, <2>2, <2>3
          DEF ScopeTypesHold, ScopeTypes, DataTypes, AcquiredTypes, Entries, scopeVars
<1>11. CASE Trigger
  <2>1. PICK b \in ScopeAddresses, status \in TriggerStatuses :
               registers' = [registers EXCEPT ![Index(TrgStatus(b))] = status]
    BY <1>11 DEF Trigger, Index
  <2>2. status \in Word
    BY ScopeAssumption
  <2>3. UNCHANGED <<up, fpga_loaded, sink_mode, previous_sink_mode, operations, operating, fCore>>
    BY <1>11 DEF Trigger
  <2>4. registers' \in [0 .. ControlWords - 1 -> Word]
    BY <2>1, <2>2 DEF ScopeTypesHold, BusTypeOK
  <2>5. BusTypeOK'
    BY <2>3, <2>4 DEF ScopeTypesHold, BusTypeOK
  <2> QED BY <1>11, <2>5, BusStepTypes DEF Trigger
<1>12. CASE Terminate
  BY <1>12, DieTypes DEF Terminate
<1>13. CASE Relaunch
  <2>1. BusTypeOK'
    BY <1>13, AccessControlType DEF Relaunch, ScopeTypesHold
  <2>2. ScopeTypes'
    BY <1>13, OnesAreFactors DEF Relaunch, ScopeTypes, Channels
  <2>3. DataTypes' /\ AcquiredTypes'
    BY <1>13 DEF Relaunch, ScopeTypesHold, DataTypes, AcquiredTypes, Entries
  <2> QED BY <2>1, <2>2, <2>3 DEF ScopeTypesHold
<1>14. CASE UNCHANGED vars
  <2>1. BusTypeOK'
    BY <1>14, UnchangedBusTypes DEF vars, ScopeTypesHold
  <2> QED BY <1>14, <2>1, BusStepTypes DEF vars
<1> QED BY <1>1, <1>2, <1>3, <1>4, <1>5, <1>6, <1>7, <1>8, <1>9, <1>10, <1>11, <1>12, <1>13,
           <1>14 DEF Next

\* The types of the scope's variables: whatever clients ask, what reaches a
\* register is a word, and what read_data answers are numbers of channels.
THEOREM ScopeTypeCorrect == Spec => []TypeOK
BY ScopeTypesInit, ScopeTypesStep, ScopeTypesAreTypes, PTL DEF Spec

----------------------------------------------------------------------------
(* What read_data answers *)

\* A buffer becomes the samples of each channel, each the value it stands for.
LEMMA CaptureAnswered ==
  ASSUME ScopeTypes, ScalingsGiven, NEW capture \in Seq(Samples), NEW garbage \in Garbage,
         \A i \in DOMAIN capture : Representable(capture[i].slot) /\ SampleFits(capture[i])
  PROVE  AnswersMeaning(Answered(shunt_data(Words(capture), garbage)), capture)
<1> DEFINE buffer == Words(capture)
           N == Len(capture)
<1>1. garbage \in Int /\ scaling_factors \in Seq(Int) /\ channel_status \subseteq Channels
  BY ScopeDataAssumption DEF ScopeTypes
<1>2. /\ N \in Nat /\ DOMAIN capture = 1 .. N /\ \A i \in 1 .. N : capture[i] \in Samples
      /\ DOMAIN buffer = 1 .. N /\ \A i \in 1 .. N : buffer[i] \in Raws
  BY RawsOfCapture
<1>3. \A i \in 1 .. N : buffer[i] = RawSample(capture[i]) /\ buffer[i].channel = capture[i].channel
  BY <1>2 DEF RawSample, Words
<1> HIDE DEF buffer, N
<1>4. PICK lists : lists = shunt_data(buffer, garbage)
  OBVIOUS
<1>5. ASSUME NEW ch \in Channels
      PROVE  lists \in Lists /\ AreOfChannel(lists[ch], capture, ch)
  <2>0. PICK own : own = {m \in 1 .. N : buffer[m].channel = ch}
    OBVIOUS
  <2>1. /\ lists \in Lists /\ Len(lists[ch]) = Rank(own, N)
        /\ \A n \in own : lists[ch][Rank(own, n)] = Value(buffer[n], garbage)
    <3>1. IsBuffer(buffer, N)
      BY <1>2 DEF IsBuffer
    <3>2. HasOwn(shunt_data(buffer, garbage), ch, own, buffer, N, garbage)
      BY <1>1, <1>2, <2>0, <3>1, ListsOfChannels
    <3> QED BY <1>4, <3>2 DEF HasOwn
  <2>2. ASSUME NEW n \in 0 .. N PROVE OfChannel(capture, ch, n) = {m \in 1 .. n : m \in own}
    <3>1. \A m \in 1 .. n : m \in 1 .. N
      BY <1>2
    <3>2. \A m \in 1 .. n : capture[m].channel = ch <=> m \in own
      BY <1>3, <2>0, <3>1
    <3> QED BY <3>2 DEF OfChannel
  <2>3. \A n \in 0 .. N : Cardinality(OfChannel(capture, ch, n)) = Rank(own, n)
    BY <2>2 DEF Rank
  <2>4. Len(lists[ch]) = Cardinality(OfChannel(capture, ch, N))
    <3>1. N \in 0 .. N
      BY <1>2
    <3> QED BY <2>1, <2>3, <3>1
  <2>5. ASSUME NEW n \in OfChannel(capture, ch, N)
        PROVE  lists[ch][Cardinality(OfChannel(capture, ch, n))] = Meaning(capture[n])
    <3>1. n \in 1 .. N /\ capture[n].channel = ch
      BY DEF OfChannel
    <3>2. n \in 0 .. N /\ n \in own
      BY <1>2, <1>3, <2>0, <3>1
    <3>3. lists[ch][Cardinality(OfChannel(capture, ch, n))] = Value(buffer[n], garbage)
      BY <2>1, <2>3, <3>2
    <3>4. Value(RawSample(capture[n]), garbage) = Meaning(capture[n])
      <4>1. /\ capture[n] \in Samples /\ capture[n].channel \in Channels
            /\ Representable(capture[n].slot) /\ SampleFits(capture[n])
        BY <1>2, <3>1
      <4> QED BY <1>1, <4>1, SampleMeant
    <3> QED BY <1>3, <3>1, <3>3, <3>4
  <2> QED BY <2>1, <2>4, <2>5 DEF AreOfChannel, N
<1>6. lists \in Lists
  <2>1. CASE Channels = {}
    <3>1. PICK t \in [0 .. N -> Lists] : t[N] = lists
      BY <1>1, <1>2, <1>4, ShuntSteps
    <3> QED BY <1>2, <3>1
  <2> QED BY <1>5, <2>1
<1>7. PICK answer : answer = Answered(lists)
  OBVIOUS
<1>8. /\ {answer[i].channel : i \in DOMAIN answer} = channel_status
      /\ \A i, j \in DOMAIN answer : i < j => answer[i].channel < answer[j].channel
      /\ \A i \in DOMAIN answer : /\ answer[i].channel \in Channels
                                  /\ answer[i].data = lists[answer[i].channel]
  BY <1>1, <1>6, <1>7, AnswerOfChannels
<1>9. \A i \in DOMAIN answer : AreOfChannel(answer[i].data, capture, answer[i].channel)
  <2> SUFFICES ASSUME NEW i \in DOMAIN answer
               PROVE  AreOfChannel(answer[i].data, capture, answer[i].channel)
    OBVIOUS
  <2>1. answer[i].channel \in Channels /\ answer[i].data = lists[answer[i].channel]
    BY <1>8
  <2> QED BY <1>5, <2>1
<1>10. AnswersMeaning(answer, capture)
  BY <1>8, <1>9 DEF AnswersMeaning
<1> QED BY <1>4, <1>7, <1>10 DEF buffer

\* Only a read that did not fail takes a capture from the kernel.
LEMMA ReadAnswers ==
  ASSUME ScopeTypesHold, CapturesFit, [Next]_vars, HandedOver, ScalingsGiven,
         \A i \in DOMAIN kernel : Representable(kernel[i].slot)
  PROVE  AnswersMeaning(data', Filled(kernel))
<1>1. kernel \in Captures /\ kernel' = <<>> /\ kernel' # kernel /\ up
  BY DEF HandedOver, ScopeTypesHold, DataTypes, Nothing
<1>2. ReadData
  <2>1. ~Capture
    BY <1>1, ScopeDataAssumption DEF Capture
  <2>2. ASSUME UNCHANGED kernel PROVE FALSE
    BY <1>1, <2>2
  <2>3. /\ ~Terminate /\ ~Relaunch /\ ~ClearOperations /\ ~Trigger
        /\ ~LoadBitstream /\ ~(UNCHANGED vars)
    BY <2>2, Zenon DEF Terminate, Relaunch, Die, ClearOperations, Trigger, LoadBitstream, Answer, vars
  <2>4. /\ ~SetAcquisition /\ ~SetScopeAddress /\ ~DisableDma /\ ~GetAcquisitionStatus
        /\ ~SetScalingFactors /\ ~SetChannelStatus
    BY <2>2, Zenon DEF SetAcquisition, SetScopeAddress, DisableDma, GetAcquisitionStatus,
         SetScalingFactors, SetChannelStatus, process_set_acquisition, process_set_scope_address,
         process_disable_dma, process_get_acquisition_status, process_set_scaling_factors,
         process_set_channel_status, Die, Reject, Answer
  <2> QED BY <2>1, <2>3, <2>4 DEF Next
<1>3. PICK failed \in BOOLEAN : process_read_data(failed)
  BY <1>2 DEF ReadData
<1>4. ~failed
  BY <1>1, <1>3 DEF process_read_data
<1>5. PICK garbage \in Garbage : data' = Answered(shunt_data(Words(Filled(kernel)), garbage))
  <2>1. kernel # Nothing
    BY DEF HandedOver
  <2> QED BY <1>3, <1>4, <2>1, Zenon DEF process_read_data
<1>6. ScopeTypes /\ \A i \in DOMAIN kernel : SampleFits(kernel[i])
  BY <1>1 DEF ScopeTypesHold, CapturesFit
<1>7. PICK capture : capture = Filled(kernel)
  OBVIOUS
<1>8. /\ capture \in Seq(Samples)
      /\ \A i \in DOMAIN capture :
           capture[i] = ZeroSample \/ \E j \in DOMAIN kernel : capture[i] = kernel[j]
  BY <1>1, <1>7, FilledBuffer
<1>9. Representable(ZeroSample.slot) /\ SampleFits(ZeroSample)
  <2>1. PICK j \in DOMAIN kernel : SampleFits(kernel[j])
    <3>1. Len(kernel) \in Nat /\ Len(kernel) >= 1 /\ DOMAIN kernel = 1 .. Len(kernel)
      BY <1>1, ScopeDataAssumption, ScopeAssumption
    <3> QED BY <1>6, <3>1
  <2>2. WordModulus % 2^23 = 0
    BY <2>1 DEF SampleFits
  <2>3. Representable(ZeroSample.slot)
    BY DEF Representable, ZeroSample
  <2>4. 0 \in 0 .. 2^8 - 1
    <3>1. 2^8 \in Nat \ {0}
      BY WidthsHalve DEF Halves
    <3> QED BY <3>1
  <2> QED BY <2>2, <2>3, <2>4 DEF SampleFits, ZeroSample
<1>10. \A i \in DOMAIN capture : Representable(capture[i].slot) /\ SampleFits(capture[i])
  BY <1>6, <1>8, <1>9
<1>11. AnswersMeaning(Answered(shunt_data(Words(capture), garbage)), capture)
  BY <1>6, <1>8, <1>10, CaptureAnswered
<1> QED BY <1>5, <1>7, <1>11

\* read_data hands a capture over as what was sampled: every sample in the list
\* of its channel, at its place, with the sign and scale of its slot; of a read
\* that does not fill the buffer a zero of channel 0 for each sample missing.
THEOREM CapturesAnswered ==
  ASSUME CapturesFit PROVE Spec => ReadDataAnswersCapture
<1>1. ScopeTypesHold /\ [Next]_vars =>
        [HandedOver /\ ScalingsGiven /\ (\A i \in DOMAIN kernel : Representable(kernel[i].slot))
           => AnswersMeaning(data', Filled(kernel))]_vars
  BY ReadAnswers
<1> QED BY <1>1, ScopeTypesInit, ScopeTypesStep, PTL DEF Spec, ReadDataAnswersCapture
=============================================================================

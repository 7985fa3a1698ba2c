---------------------------- MODULE BasePluginProofs ---------------------------
(***************************************************************************)
(* Proofs about the base plugin and the plugins that serve it, for any     *)
(* items, slots, positions, orders of loading, damaged files, caves and    *)
(* levels of the ground.                                                   *)
(***************************************************************************)
EXTENDS BasePlugin, SequenceTheorems, FiniteSetTheorems, WellFoundedInduction, TLAPS

(* A set of natural numbers has a least one, and induction follows.        *)
LEMMA LeastOf ==
  ASSUME NEW I, I \subseteq Nat, I # {}
  PROVE  Min(I) \in I /\ \A j \in I : Min(I) <= j
<1>1. IsWellFoundedOn(OpToRel(<, Nat), Nat)
  BY NatLessThanWellFounded
<1>2. PICK m \in I : \A j \in I : <<j, m>> \notin OpToRel(<, Nat)
  BY <1>1, WFMin
<1>3. ASSUME NEW j \in I PROVE m <= j
  <2>1. ~(j < m)
    BY <1>2 DEF OpToRel
  <2>2. QED
    BY <2>1
<1>4. QED
  BY <1>3 DEF Min

LEMMA InductiveSet ==
  ASSUME NEW S, S \subseteq Nat, 0 \in S, \A n \in S : n + 1 \in S
  PROVE  S = Nat
<1> DEFINE T == Nat \ S
<1> SUFFICES ASSUME T # {} PROVE FALSE
  OBVIOUS
<1>0. T \subseteq Nat
  OBVIOUS
<1>1. PICK m \in T : \A j \in T : m <= j
  <2> HIDE DEF T
  <2>1. Min(T) \in T /\ \A j \in T : Min(T) <= j
    BY <1>0, LeastOf
  <2>2. QED
    BY <2>1
<1>2. m - 1 \in Nat /\ ~(m <= m - 1)
  OBVIOUS
<1>3. QED
  BY <1>1, <1>2

------------------------------------------------------------------------------
(* What a player carries.                                                  *)

(* The slot he holds is none or one of the bar.                            *)
CarryIInv ==
    /\ currentSlot \in {-1} \cup 36..44
    /\ inventory \in [Slot -> Stack \cup {Empty}]
    /\ own \in [Slot -> Stack \cup {Empty}]
    /\ InventoriesAgree

LEMMA CarryInit ==
  ASSUME InventoryInit
  PROVE  CarryIInv
BY DEF InventoryInit, CarryIInv, InventoriesAgree

(* A stack with an item, and the one of no item.                           *)
LEMMA Stacks ==
  ASSUME InventoryAssumption, NEW stack \in Stack
  PROVE  /\ stack # Empty
         /\ ItemOf(stack) = stack.id
         /\ stack.id = NoItem <=> stack.count = 0
         /\ stack.id # NoItem => stack.id \in Item /\ stack.count \in 1..MaxCount
         /\ stack = [id |-> stack.id, count |-> stack.count]
<1>1. CASE stack \in [id : Item, count : 1..MaxCount]
  BY <1>1 DEF InventoryAssumption, Stack, NoItem, ItemOf
<1>2. CASE stack = [id |-> NoItem, count |-> 0]
  BY <1>2 DEF InventoryAssumption, Stack, NoItem, ItemOf
<1>3. QED
  BY <1>1, <1>2 DEF Stack

LEMMA CreativeSafe ==
  ASSUME InventoryAssumption, CarryIInv, NEW slot \in Slot \cup {-1}, NEW stack \in Stack,
         PlayerInventoryCreative(slot, stack)
  PROVE  CarryIInv'
<1>1. UNCHANGED currentSlot
  BY DEF PlayerInventoryCreative
<1>2. CASE slot \in Slot
  <2>1. slot > -1
    BY <1>2 DEF InventoryAssumption
  <2>2. /\ inventory' = [inventory EXCEPT ![slot] = stack]
        /\ own' = [own EXCEPT ![slot] = IF stack.id = NoItem THEN Empty ELSE stack]
    BY <2>1 DEF PlayerInventoryCreative
  <2>3. stack # Empty /\ ItemOf(stack) = stack.id
    BY Stacks
  <2>4. InventoriesAgree'
    BY <1>2, <2>2, <2>3 DEF CarryIInv, InventoriesAgree, ItemOf
  <2>5. QED
    BY <1>1, <2>2, <2>4 DEF CarryIInv
<1>3. CASE slot = -1
  <2>1. UNCHANGED <<inventory, own>>
    BY <1>3 DEF PlayerInventoryCreative
  <2>2. QED
    BY <1>1, <2>1 DEF CarryIInv, InventoriesAgree, ItemOf
<1>4. QED
  BY <1>2, <1>3

(* A stack with one item less, as the server keeps it and as it is told.   *)
LEMMA DropSafe ==
  ASSUME InventoryAssumption, CarryIInv, PlayerDropItem
  PROVE  /\ CarryIInv'
         /\ currentSlot # -1 => inHand' = ItemOf(Carried(currentSlot))'
<1> DEFINE current == Carried(currentSlot)
           left == [current EXCEPT !.count = @ - 1]
           kept == IF left.count <= 0 THEN Empty ELSE left
           inv == IF current = Empty THEN inventory ELSE [inventory EXCEPT ![currentSlot] = kept]
<1>1. /\ inventory' = inv
      /\ own' = IF current = Empty THEN own ELSE [own EXCEPT ![currentSlot] = kept]
      /\ HoldChange(currentSlot - 36, inv)
  BY DEF PlayerDropItem, LeftOf, SlotOfBar
<1>2. currentSlot \in {-1} \cup 36..44
  BY DEF CarryIInv
<1>3. /\ currentSlot' = currentSlot
      /\ currentSlot # -1 =>
             inHand' = ItemOf(IF currentSlot \in Slot THEN inventory'[currentSlot] ELSE Empty)
  BY <1>1, <1>2 DEF HoldChange
<1>4. current # Empty => currentSlot \in Slot /\ current \in Stack /\ current = inventory[currentSlot]
  BY DEF Carried, CarryIInv
<1>5. ASSUME current # Empty
      PROVE  /\ kept \in Stack \cup {Empty}
             /\ kept # Empty => ItemOf(kept) # NoItem
  <2>1. /\ current \in Stack
        /\ current.id = NoItem <=> current.count = 0
        /\ current.id # NoItem => current.id \in Item /\ current.count \in 1..MaxCount
        /\ current = [id |-> current.id, count |-> current.count]
    BY <1>4, <1>5, Stacks
  <2> HIDE DEF current
  <2>2. left = [id |-> current.id, count |-> current.count - 1]
    BY <2>1
  <2>3. CASE current.id = NoItem
    <3>1. left.count = -1
      BY <2>1, <2>2, <2>3
    <3>2. kept = Empty
      BY <3>1
    <3>3. QED
      BY <3>2
  <2>4. CASE current.id # NoItem
    <3>1. left.count = current.count - 1 /\ current.count \in 1..MaxCount
      BY <2>1, <2>2, <2>4
    <3>2. CASE left.count <= 0
      BY <3>2
    <3>3. CASE ~(left.count <= 0)
      <4>1. left.count \in 1..MaxCount
        BY <3>1, <3>3 DEF InventoryAssumption
      <4>2. left \in Stack /\ kept = left
        BY <2>1, <2>2, <2>4, <3>1, <3>3, <4>1 DEF Stack
      <4>3. ItemOf(left) = left.id /\ left.id = current.id
        BY <2>2, <4>2, Stacks
      <4> HIDE DEF left, kept
      <4>4. QED
        BY <2>4, <4>2, <4>3
    <3>4. QED
      BY <3>2, <3>3
  <2>5. QED
    BY <2>3, <2>4
<1> HIDE DEF kept, current, left
<1>6. /\ inventory' \in [Slot -> Stack \cup {Empty}]
      /\ own' \in [Slot -> Stack \cup {Empty}]
  BY <1>1, <1>5 DEF CarryIInv
<1>7. InventoriesAgree'
  <2> SUFFICES ASSUME NEW s \in Slot
               PROVE  own'[s] = IF inventory'[s] = Empty \/ ItemOf(inventory'[s]) = NoItem
                                THEN Empty ELSE inventory'[s]
    BY DEF InventoriesAgree, ItemOf
  <2>1. own[s] = IF inventory[s] = Empty \/ ItemOf(inventory[s]) = NoItem
                 THEN Empty ELSE inventory[s]
    BY DEF CarryIInv, InventoriesAgree
  <2>2. CASE current = Empty \/ s # currentSlot
    <3>1. inventory'[s] = inventory[s] /\ own'[s] = own[s]
      BY <1>1, <2>2 DEF CarryIInv
    <3>2. QED
      BY <2>1, <3>1
  <2>3. CASE current # Empty /\ s = currentSlot
    <3>1. inventory'[s] = kept /\ own'[s] = kept
      BY <1>1, <2>3 DEF CarryIInv
    <3>2. QED
      BY <1>5, <2>3, <3>1
  <2>4. QED
    BY <2>2, <2>3
<1>8. currentSlot # -1 => inHand' = ItemOf(Carried(currentSlot))'
  BY <1>3 DEF Carried, ItemOf
<1>9. QED
  BY <1>2, <1>3, <1>6, <1>7, <1>8 DEF CarryIInv

LEMMA CarryNext ==
  ASSUME InventoryAssumption, CarryIInv, InventoryNext
  PROVE  CarryIInv'
<1>1. ASSUME NEW slot \in {-1, 9} \cup {s - 36 : s \in Slot}, PlayerHoldChange(slot) PROVE CarryIInv'
  <2>1. UNCHANGED <<inventory, own>>
    BY <1>1 DEF PlayerHoldChange
  <2>2. slot \in Int
    BY DEF InventoryAssumption
  <2>3. currentSlot' \in {-1} \cup 36..44
    BY <1>1, <2>2 DEF PlayerHoldChange, HoldChange, CarryIInv
  <2>4. QED
    BY <2>1, <2>3 DEF CarryIInv, InventoriesAgree, ItemOf
<1>2. ASSUME NEW slot \in Slot \cup {-1}, NEW stack \in Stack, PlayerInventoryCreative(slot, stack)
      PROVE  CarryIInv'
  BY <1>2, CreativeSafe
<1>3. CASE PlayerDropItem
  BY <1>3, DropSafe
<1>4. QED
  BY <1>1, <1>2, <1>3 DEF InventoryNext

LEMMA CarryHolds == Spec => []CarryIInv
<1> USE InventoryAssumption
<1>1. Init => CarryIInv
  BY CarryInit DEF Init
<1>2. CarryIInv /\ [Next]_vars => CarryIInv'
  <2> SUFFICES ASSUME CarryIInv, [Next]_vars PROVE CarryIInv'
    OBVIOUS
  <2>1. CASE Carry
    BY <2>1, CarryNext DEF Carry
  <2>2. CASE UNCHANGED inventoryVars
    BY <2>2 DEF CarryIInv, InventoriesAgree, ItemOf, inventoryVars
  <2>3. QED
    BY <2>1, <2>2 DEF Next, View, Tick, Source, Column, vars
<1>3. QED
  BY <1>1, <1>2, PTL DEF Spec

\* After any takes, clears, holds and drops a client shows in every slot what the server
\* keeps there (inventory.c:63-119).
THEOREM ClientsSeeTheirSlots == Spec => []InventoriesAgree
<1>1. CarryIInv => InventoriesAgree
  BY DEF CarryIInv
<1>2. QED
  BY <1>1, CarryHolds, PTL

\* After a drop the others see in his hand what the player still holds
\* (inventory.c:115-116).
THEOREM OthersSeeTheHand == Spec => DropsAreSeen
<1> DEFINE Seen == (PlayerDropItem /\ currentSlot # -1 => inHand' = ItemOf(Carried(currentSlot))')
<1>1. CarryIInv /\ [Next]_vars => [Seen]_inventoryVars
  BY DropSafe, InventoryAssumption DEF CarryIInv
<1>2. QED
  BY <1>1, CarryHolds, PTL DEF Spec, DropsAreSeen

------------------------------------------------------------------------------
(* A column of the classic generator.                                      *)

Stages == {"fill", "caves", "erode", "minerals", "sediments", "flood", "bedrock", "light", "done"}

(* The ground ends below the height.                                       *)
Ground(b, h) ==
    /\ b[h - 1] = "rock"
    /\ \A y \in h..(Top - 1) : b[y] # "rock"

(* From the first stage on: caves leave the lava and what lies below, and there is no
   water before the flood nor above its level after it.                    *)
ColumnIInv ==
    /\ stage \in Stages
    /\ height \in LavaTop..Top
    /\ stage \in {"fill", "caves", "erode", "minerals", "sediments"} => height < Top
    /\ blocks \in [0..(Top - 1) -> {"air", "rock", "water"}]
    /\ \A y \in 0..(Top - 1) : blocks[y] = "water" =>
           y <= Water /\ stage \notin {"fill", "caves", "erode", "minerals", "sediments", "flood"}
    /\ stage = "fill" => height > LavaTop /\ \A y \in 0..(Top - 1) : blocks[y] = "air"
    /\ stage = "caves" => height > LavaTop
    /\ stage # "fill" => Ground(blocks, height) /\ \A y \in 0..(LavaTop - 1) : blocks[y] = "rock"
    /\ stage = "done" => lit = height..(Top - 1)

(* The height map follows the ground down through air.                     *)
LEMMA LoweredGround ==
  ASSUME ColumnAssumption, NEW b \in [0..(Top - 1) -> {"air", "rock", "water"}],
         NEW h \in LavaTop..(Top - 1),
         \A y \in h..(Top - 1) : b[y] = "air",
         \A y \in 0..(LavaTop - 1) : b[y] = "rock"
  PROVE  /\ Lowered(b, h) \in LavaTop..h
         /\ b[Lowered(b, h) - 1] \in {"rock", "water"}
         /\ \A y \in Lowered(b, h)..(Top - 1) : b[y] = "air"
<1> DEFINE I == {h} \cup {y \in 1..h : \A z \in y..h : b[z] = "air"}
           m == Lowered(b, h)
<1>0. /\ LavaTop \in Nat /\ Top \in Nat /\ 2 <= LavaTop /\ LavaTop < Top /\ h \in Nat
  BY DEF ColumnAssumption
<1>1. m \in I /\ \A j \in I : m <= j
  <2>1. I \subseteq Nat /\ I # {}
    BY <1>0
  <2>2. m = Min(I)
    BY DEF Lowered
  <2> HIDE DEF I, m
  <2>3. QED
    BY <2>1, <2>2, LeastOf
<1> HIDE DEF m
<1>2. m \in 0..h /\ \A z \in m..h : b[z] = "air"
  BY <1>0, <1>1
<1>3. m \in LavaTop..h
  <2>1. ~(m < LavaTop)
    <3> SUFFICES ASSUME m < LavaTop PROVE FALSE
      OBVIOUS
    <3>1. LavaTop - 1 \in m..h /\ LavaTop - 1 \in 0..(LavaTop - 1)
      BY <1>0, <1>2
    <3>2. QED
      BY <1>2, <3>1
  <2>2. QED
    BY <1>0, <1>2, <2>1
<1>4. b[m - 1] # "air"
  <2> SUFFICES ASSUME b[m - 1] = "air" PROVE FALSE
    OBVIOUS
  <2>1. m - 1 \in 1..h /\ \A z \in (m - 1)..h : z = m - 1 \/ z \in m..h
    BY <1>0, <1>3
  <2>2. m - 1 \in I
    BY <1>2, <2>1
  <2> HIDE DEF I
  <2>3. m <= m - 1
    BY <1>1, <2>2
  <2>4. QED
    BY <1>0, <1>3, <2>3
<1>5. m - 1 \in 0..(Top - 1)
  BY <1>0, <1>3
<1>6. \A y \in m..(Top - 1) : b[y] = "air"
  <2>1. \A y \in m..(Top - 1) : y \in m..h \/ y \in h..(Top - 1)
    BY <1>0, <1>3
  <2>2. QED
    BY <1>2, <2>1
<1>7. QED
  BY <1>3, <1>4, <1>5, <1>6 DEF m

(* A quotient of natural numbers is no larger than the dividend.           *)
LEMMA QuotientBound ==
  ASSUME NEW a \in Nat, NEW n \in Nat \ {0}
  PROVE  a \div n \in Nat /\ a \div n <= a
OBVIOUS

LEMMA LayerFits ==
  ASSUME ColumnAssumption, height \in LavaTop..(Top - 1)
  PROVE  Layer \in 0..(Top - height)
<1> DEFINE d == Top - height
           q == d \div Soil
<1>1. d \in Nat /\ d > 0 /\ Soil \in Nat \ {0}
  BY DEF ColumnAssumption
<1>2. q \in Nat /\ q <= d
  <2> HIDE DEF d
  <2>1. QED
    BY <1>1, QuotientBound
<1> HIDE DEF q
<1>3. (q + 1) \div 2 \in 0..d
  <2> HIDE DEF d
  <2>1. QED
    BY <1>1, <1>2
<1>4. Layer = IF height < Water THEN q ELSE (q + 1) \div 2
  BY DEF Layer, q
<1>5. QED
  BY <1>1, <1>2, <1>3, <1>4

LEMMA ColumnInitSafe ==
  ASSUME ColumnAssumption, ColumnInit
  PROVE  ColumnIInv
BY DEF ColumnAssumption, ColumnInit, ColumnIInv, Stages

LEMMA FillSafe ==
  ASSUME ColumnAssumption, ColumnIInv, GenerateFilledChunk
  PROVE  ColumnIInv'
<1>1. /\ stage = "fill" /\ stage' = "caves" /\ height' = height
      /\ \A y \in 0..(Top - 1) : blocks[y] = "air"
      /\ blocks' = [y \in 0..(Top - 1) |-> IF y \in 0..(height - 1) THEN "rock" ELSE blocks[y]]
      /\ height \in (LavaTop + 1)..(Top - 1)
      /\ Top \in Nat /\ LavaTop \in Nat
  BY DEF GenerateFilledChunk, Stage, With, ColumnIInv, ColumnAssumption
<1>2. \A y \in 0..(Top - 1) : blocks'[y] = IF y < height THEN "rock" ELSE "air"
  BY <1>1
<1>3. Ground(blocks, height)'
  BY <1>1, <1>2 DEF Ground
<1>4. \A y \in 0..(LavaTop - 1) : blocks'[y] = "rock"
  BY <1>1, <1>2
<1>5. blocks' \in [0..(Top - 1) -> {"air", "rock", "water"}]
  BY <1>1
<1>6. QED
  BY <1>1, <1>2, <1>3, <1>4, <1>5 DEF ColumnIInv, Stages

(* What the caves and the erosion do: the ground is eaten away, not its bottom, and the
   height map follows.                                                     *)
LEMMA EatenSafe ==
  ASSUME ColumnAssumption, stage' \in {"erode", "minerals"},
         blocks' \in [0..(Top - 1) -> {"air", "rock", "water"}],
         \A y \in 0..(Top - 1) : blocks'[y] # "water",
         height \in LavaTop..(Top - 1),
         \A y \in height..(Top - 1) : blocks'[y] = "air",
         \A y \in 0..(LavaTop - 1) : blocks'[y] = "rock",
         height' = Lowered(blocks', height)
  PROVE  ColumnIInv'
<1>1. /\ height' \in LavaTop..height
      /\ blocks'[height' - 1] \in {"rock", "water"}
      /\ \A y \in height'..(Top - 1) : blocks'[y] = "air"
  BY LoweredGround
<1>2. /\ LavaTop \in Nat /\ Top \in Nat /\ LavaTop >= 2 /\ height' \in LavaTop..(Top - 1)
  BY <1>1 DEF ColumnAssumption
<1>3. height' - 1 \in 0..(Top - 1)
  BY <1>2
<1>4. Ground(blocks, height)'
  BY <1>1, <1>3 DEF Ground
<1>5. QED
  BY <1>2, <1>4 DEF ColumnIInv, Stages

LEMMA CavesSafe ==
  ASSUME ColumnAssumption, ColumnIInv, DigCaves
  PROVE  ColumnIInv'
<1>1. PICK deep \in SUBSET (0..(CaveTop - 1)), high \in SUBSET (CaveTop..(height - Roof - 1)) :
        blocks' = With(With(blocks, deep \cup high, "air"), deep \cap (0..(LavaTop - 1)), "rock")
  BY DEF DigCaves
<1>2. /\ stage' = "erode" /\ stage = "caves" /\ height' = Lowered(blocks', height)
      /\ Top \in Nat /\ LavaTop \in Nat /\ height \in (LavaTop + 1)..(Top - 1)
      /\ blocks \in [0..(Top - 1) -> {"air", "rock", "water"}]
      /\ \A y \in 0..(Top - 1) : blocks[y] # "water"
      /\ \A y \in height..(Top - 1) : blocks[y] # "rock"
      /\ \A y \in 0..(LavaTop - 1) : blocks[y] = "rock"
  BY DEF DigCaves, Stage, ColumnIInv, ColumnAssumption, Ground
<1>3. blocks' = [y \in 0..(Top - 1) |->
                   IF y \in deep \cap (0..(LavaTop - 1)) THEN "rock"
                   ELSE IF y \in deep \cup high THEN "air" ELSE blocks[y]]
  BY <1>1, <1>2 DEF With
<1>4. /\ blocks' \in [0..(Top - 1) -> {"air", "rock", "water"}]
      /\ \A y \in 0..(Top - 1) : blocks'[y] # "water"
  BY <1>2, <1>3
<1>5. \A y \in height..(Top - 1) : blocks'[y] = "air"
  <2> SUFFICES ASSUME NEW y \in height..(Top - 1) PROVE blocks'[y] = "air"
    OBVIOUS
  <2>1. y \in 0..(Top - 1) /\ y \notin 0..(LavaTop - 1)
    BY <1>2
  <2>2. blocks[y] = "air"
    BY <1>2, <2>1
  <2>3. QED
    BY <1>3, <2>1, <2>2
<1>6. \A y \in 0..(LavaTop - 1) : blocks'[y] = "rock"
  <2> SUFFICES ASSUME NEW y \in 0..(LavaTop - 1) PROVE blocks'[y] = "rock"
    OBVIOUS
  <2>1. y \in 0..(Top - 1) /\ y \notin high
    BY <1>2 DEF ColumnAssumption
  <2>2. QED
    BY <1>2, <1>3, <2>1
<1>7. QED
  BY <1>2, <1>4, <1>5, <1>6, EatenSafe

LEMMA ErodeSafe ==
  ASSUME ColumnAssumption, ColumnIInv, ErodeLandscape
  PROVE  ColumnIInv'
<1>1. PICK eroded \in SUBSET ((Water + 1)..(height - 1)) : blocks' = With(blocks, eroded, "air")
  BY DEF ErodeLandscape
<1>2. /\ stage' = "minerals" /\ stage = "erode" /\ height' = Lowered(blocks', height)
      /\ Top \in Nat /\ LavaTop \in Nat /\ height \in LavaTop..(Top - 1)
      /\ LavaTop < Water /\ Water \in Nat
      /\ blocks \in [0..(Top - 1) -> {"air", "rock", "water"}]
      /\ \A y \in 0..(Top - 1) : blocks[y] # "water"
      /\ \A y \in height..(Top - 1) : blocks[y] # "rock"
      /\ \A y \in 0..(LavaTop - 1) : blocks[y] = "rock"
  BY DEF ErodeLandscape, Stage, ColumnIInv, ColumnAssumption, Ground
<1>3. blocks' = [y \in 0..(Top - 1) |-> IF y \in eroded THEN "air" ELSE blocks[y]]
  BY <1>1, <1>2 DEF With
<1>4. /\ blocks' \in [0..(Top - 1) -> {"air", "rock", "water"}]
      /\ \A y \in 0..(Top - 1) : blocks'[y] # "water"
  BY <1>2, <1>3
<1>5. \A y \in height..(Top - 1) : blocks'[y] = "air"
  <2> SUFFICES ASSUME NEW y \in height..(Top - 1) PROVE blocks'[y] = "air"
    OBVIOUS
  <2>1. y \in 0..(Top - 1)
    BY <1>2
  <2>2. QED
    BY <1>2, <1>3, <2>1
<1>6. \A y \in 0..(LavaTop - 1) : blocks'[y] = "rock"
  <2> SUFFICES ASSUME NEW y \in 0..(LavaTop - 1) PROVE blocks'[y] = "rock"
    OBVIOUS
  <2>1. y \in 0..(Top - 1) /\ y \notin eroded
    BY <1>2
  <2>2. QED
    BY <1>2, <1>3, <2>1
<1>7. QED
  BY <1>2, <1>4, <1>5, <1>6, EatenSafe

(* Ore takes the place of rock.                                            *)
LEMMA MineralsSafe ==
  ASSUME ColumnAssumption, ColumnIInv, AddMinerals
  PROVE  ColumnIInv'
<1>1. /\ stage' = "sediments" /\ stage = "minerals" /\ height' = height
      /\ blocks' = With(blocks, {y \in 2..(height - 1) : blocks[y] # "air"}, "rock")
      /\ Top \in Nat /\ LavaTop \in Nat /\ height \in LavaTop..(Top - 1)
      /\ blocks \in [0..(Top - 1) -> {"air", "rock", "water"}]
      /\ \A y \in 0..(Top - 1) : blocks[y] # "water"
  BY DEF AddMinerals, Stage, ColumnIInv, ColumnAssumption
<1>2. blocks' = blocks
  BY <1>1 DEF With
<1>3. QED
  BY <1>1, <1>2 DEF ColumnIInv, Ground, Stages

LEMMA SedimentsSafe ==
  ASSUME ColumnAssumption, ColumnIInv, AddSediments
  PROVE  ColumnIInv'
<1>1. /\ stage' = "flood" /\ stage = "sediments" /\ height' = height + Layer
      /\ blocks' = With(blocks, height..(height + Layer - 1), "rock")
      /\ Top \in Nat /\ LavaTop \in Nat /\ LavaTop >= 2 /\ height \in LavaTop..(Top - 1)
      /\ blocks \in [0..(Top - 1) -> {"air", "rock", "water"}]
      /\ \A y \in 0..(Top - 1) : blocks[y] # "water"
      /\ blocks[height - 1] = "rock"
      /\ \A y \in height..(Top - 1) : blocks[y] # "rock"
      /\ \A y \in 0..(LavaTop - 1) : blocks[y] = "rock"
  BY DEF AddSediments, Stage, ColumnIInv, ColumnAssumption, Ground
<1>2. Layer \in 0..(Top - height)
  BY <1>1, LayerFits
<1>3. height' \in LavaTop..Top /\ height' >= height
  BY <1>1, <1>2
<1>4. \A y \in 0..(Top - 1) : blocks'[y] = IF height <= y /\ y < height' THEN "rock" ELSE blocks[y]
  BY <1>1, <1>2 DEF With
<1>5. blocks' \in [0..(Top - 1) -> {"air", "rock", "water"}]
  BY <1>1 DEF With
<1>6. height' - 1 \in 0..(Top - 1) /\ blocks'[height' - 1] = "rock"
  <2>1. height' - 1 \in 0..(Top - 1)
    BY <1>1, <1>3
  <2>2. CASE height' = height
    BY <1>1, <1>4, <2>1, <2>2
  <2>3. CASE height' > height
    BY <1>1, <1>3, <1>4, <2>1, <2>3
  <2>4. QED
    BY <1>1, <1>3, <2>1, <2>2, <2>3
<1>7. Ground(blocks, height)'
  <2> SUFFICES ASSUME NEW y \in height'..(Top - 1) PROVE blocks'[y] # "rock"
    BY <1>6 DEF Ground
  <2>1. y \in 0..(Top - 1) /\ y \in height..(Top - 1) /\ ~(y < height')
    BY <1>1, <1>3
  <2>2. QED
    BY <1>1, <1>4, <2>1
<1>8. \A y \in 0..(LavaTop - 1) : blocks'[y] = "rock"
  <2> SUFFICES ASSUME NEW y \in 0..(LavaTop - 1) PROVE blocks'[y] = "rock"
    OBVIOUS
  <2>1. y \in 0..(Top - 1)
    BY <1>1
  <2>2. QED
    BY <1>1, <1>4, <2>1
<1>9. \A y \in 0..(Top - 1) : blocks'[y] # "water"
  BY <1>1, <1>4
<1>10. QED
  BY <1>1, <1>3, <1>5, <1>7, <1>8, <1>9 DEF ColumnIInv, Stages

LEMMA FloodSafe ==
  ASSUME ColumnAssumption, ColumnIInv, FloodWithWater
  PROVE  ColumnIInv'
<1> DEFINE open == {y \in 0..Water : \A z \in y..Water : blocks[z] = "air"}
<1>1. /\ stage' = "bedrock" /\ stage = "flood" /\ height' = height
      /\ blocks' = With(blocks, open, "water")
      /\ Top \in Nat /\ Water \in Nat /\ LavaTop \in Nat /\ LavaTop >= 2 /\ height \in LavaTop..Top
      /\ blocks \in [0..(Top - 1) -> {"air", "rock", "water"}]
      /\ \A y \in 0..(Top - 1) : blocks[y] # "water"
      /\ blocks[height - 1] = "rock"
      /\ \A y \in height..(Top - 1) : blocks[y] # "rock"
      /\ \A y \in 0..(LavaTop - 1) : blocks[y] = "rock"
  BY DEF FloodWithWater, Stage, ColumnIInv, ColumnAssumption, Ground
<1>2. \A y \in open : y \in 0..Water /\ blocks[y] = "air"
  BY <1>1
<1> HIDE DEF open
<1>3. /\ blocks' \in [0..(Top - 1) -> {"air", "rock", "water"}]
      /\ \A y \in 0..(Top - 1) : blocks'[y] = IF y \in open THEN "water" ELSE blocks[y]
  BY <1>1 DEF With
<1>4. \A y \in 0..(Top - 1) : blocks'[y] = "rock" <=> blocks[y] = "rock"
  BY <1>2, <1>3
<1>5. Ground(blocks, height)'
  <2>1. height - 1 \in 0..(Top - 1) /\ \A y \in height..(Top - 1) : y \in 0..(Top - 1)
    BY <1>1
  <2>2. QED
    BY <1>1, <1>4, <2>1 DEF Ground
<1>6. \A y \in 0..(LavaTop - 1) : blocks'[y] = "rock"
  <2>1. \A y \in 0..(LavaTop - 1) : y \in 0..(Top - 1)
    BY <1>1
  <2>2. QED
    BY <1>1, <1>4, <2>1
<1>7. \A y \in 0..(Top - 1) : blocks'[y] = "water" => y <= Water
  BY <1>1, <1>2, <1>3
<1>8. QED
  BY <1>1, <1>3, <1>5, <1>6, <1>7 DEF ColumnIInv, Stages

LEMMA BedrockSafe ==
  ASSUME ColumnAssumption, ColumnIInv, BedrockGround
  PROVE  ColumnIInv'
<1>1. /\ stage' = "light" /\ stage = "bedrock" /\ height' = Max({height, 2})
      /\ blocks' = With(blocks, {0, 1}, "rock")
      /\ Top \in Nat /\ LavaTop \in Nat /\ LavaTop >= 2 /\ height \in LavaTop..Top
      /\ blocks \in [0..(Top - 1) -> {"air", "rock", "water"}]
      /\ \A y \in 0..(LavaTop - 1) : blocks[y] = "rock"
  BY DEF BedrockGround, Stage, ColumnIInv, ColumnAssumption
<1>2. height' = height
  <2>1. height \in Nat /\ height >= 2
    BY <1>1
  <2>2. Max({height, 2}) = height
    <3>1. \A x \in {height, 2} : (\A y \in {height, 2} : x >= y) <=> x = height
      BY <2>1
    <3>2. QED
      BY <3>1 DEF Max
  <2>3. QED
    BY <1>1, <2>2
<1>3. blocks' = blocks
  <2>1. 0 \in 0..(LavaTop - 1) /\ 1 \in 0..(LavaTop - 1)
    BY <1>1
  <2>2. QED
    BY <1>1, <2>1 DEF With
<1>4. QED
  BY <1>1, <1>2, <1>3 DEF ColumnIInv, Ground, Stages

LEMMA LightSafe ==
  ASSUME ColumnIInv, GenerateSkyLight
  PROVE  ColumnIInv'
BY DEF GenerateSkyLight, Stage, ColumnIInv, Ground, Stages

LEMMA ColumnHolds == Spec => []ColumnIInv
<1> USE ColumnAssumption
<1>1. Init => ColumnIInv
  BY ColumnInitSafe DEF Init
<1>2. ColumnIInv /\ [Next]_vars => ColumnIInv'
  <2> SUFFICES ASSUME ColumnIInv, [Next]_vars PROVE ColumnIInv'
    OBVIOUS
  <2>1. CASE Column
    BY <2>1, FillSafe, CavesSafe, ErodeSafe, MineralsSafe, SedimentsSafe, FloodSafe, BedrockSafe,
       LightSafe DEF Column, ColumnNext
  <2>2. CASE UNCHANGED columnVars
    BY <2>2 DEF ColumnIInv, Ground, columnVars
  <2>3. QED
    BY <2>1, <2>2 DEF Next, View, Carry, Tick, Source, vars
<1>3. QED
  BY <1>1, <1>2, PTL DEF Spec

\* However caves and erosion eat at a column, for every height and every choice of levels,
\* the light falls in the end on what is above the topmost rock and on nothing else, and
\* water stands above ground and no higher than its level (helpers.c:122-242).
THEOREM ColumnsAreLit == Spec => []GroundIsLit
<1>1. ASSUME ColumnAssumption, ColumnIInv, stage = "done" PROVE GroundIsLit
  <2>1. /\ Top \in Nat /\ LavaTop \in Nat /\ LavaTop >= 2 /\ height \in LavaTop..Top
        /\ blocks \in [0..(Top - 1) -> {"air", "rock", "water"}]
        /\ DOMAIN blocks = 0..(Top - 1)
        /\ blocks[height - 1] = "rock"
        /\ \A y \in height..(Top - 1) : blocks[y] # "rock"
        /\ \A y \in 0..(LavaTop - 1) : blocks[y] = "rock"
        /\ \A y \in 0..(Top - 1) : blocks[y] = "water" => y <= Water
        /\ lit = height..(Top - 1)
    BY <1>1 DEF ColumnIInv, Ground, ColumnAssumption
  <2>2. ASSUME NEW y \in 0..(Top - 1)
        PROVE  y \in lit <=> \A z \in y..(Top - 1) : blocks[z] # "rock"
    <3>1. CASE y >= height
      <4>1. y \in lit /\ \A z \in y..(Top - 1) : z \in height..(Top - 1)
        BY <2>1, <3>1
      <4>2. QED
        BY <2>1, <4>1
    <3>2. CASE y < height
      <4>1. y \notin lit /\ height - 1 \in y..(Top - 1)
        BY <2>1, <3>2
      <4>2. QED
        BY <2>1, <4>1
    <3>3. QED
      BY <2>1, <3>1, <3>2
  <2>3. lit = {y \in 0..(Top - 1) : \A z \in y..(Top - 1) : blocks[z] # "rock"}
    <3>1. lit \subseteq 0..(Top - 1)
      BY <2>1
    <3>2. QED
      BY <2>2, <3>1
  <2>4. ASSUME NEW y \in 0..(Top - 1), blocks[y] = "water"
        PROVE  y <= Water /\ \E z \in 0..(y - 1) : blocks[z] = "rock"
    <3>1. 0 \in 0..(LavaTop - 1) /\ blocks[0] = "rock"
      BY <2>1
    <3>2. 0 \in 0..(y - 1)
      BY <2>4, <3>1
    <3>3. QED
      BY <2>1, <2>4, <3>1, <3>2
  <2>5. QED
    BY <2>1, <2>3, <2>4 DEF GroundIsLit
<1>2. ColumnIInv => GroundIsLit
  BY <1>1, ColumnAssumption DEF GroundIsLit
<1>3. QED
  BY <1>2, ColumnHolds, PTL

------------------------------------------------------------------------------
(* Where chunks come from.                                                 *)

Plugins == {"nbt", "classic", "trivial", "other"}
Origins == {"zero", "unset", "stored", "damaged", "generated"}
Answers(c) == [chunk : {c}, status : {"ok", "failed", "wild"}, arrays : [Arrays -> Origins]]

(* Where the first n generators may leave a chunk and its dispatch.        *)
After(result, n, f) ==
  f = [i \in 0..n |-> IF i = 0 THEN {<<result, TRUE>>}
                      ELSE UNION {Call(generators[i], state) : state \in f[i - 1]}]

LEMMA AfterExists ==
  ASSUME NEW result
  PROVE  \A n \in Nat : \E f : After(result, n, f)
<1> DEFINE S == {n \in Nat : \E f : After(result, n, f)}
<1>1. 0 \in S
  <2>1. After(result, 0, [i \in 0..0 |-> {<<result, TRUE>>}])
    BY DEF After
  <2>2. QED
    BY <2>1
<1>2. ASSUME NEW n \in S PROVE n + 1 \in S
  <2>1. n \in Nat
    OBVIOUS
  <2>2. PICK f : After(result, n, f)
    OBVIOUS
  <2> DEFINE Step(i, rs) == UNION {Call(generators[i], state) : state \in rs}
             g == [i \in 0..(n + 1) |-> IF i <= n THEN f[i] ELSE Step(i, f[n])]
  <2>3. \A i \in 0..n : g[i] = f[i]
    BY <2>1
  <2>4. \A i \in 0..n : f[i] = IF i = 0 THEN {<<result, TRUE>>} ELSE Step(i, f[i - 1])
    BY <2>2 DEF After
  <2>5. g[n + 1] = Step(n + 1, f[n])
    BY <2>1
  <2> HIDE DEF Step
  <2>6. ASSUME NEW i \in 0..(n + 1)
        PROVE  g[i] = IF i = 0 THEN {<<result, TRUE>>} ELSE Step(i, g[i - 1])
    <3> HIDE DEF g
    <3>1. CASE i \in 0..n
      <4>1. i # 0 => i - 1 \in 0..n
        BY <2>1, <3>1
      <4>2. QED
        BY <2>3, <2>4, <3>1, <4>1
    <3>2. CASE i = n + 1
      <4>1. i # 0 /\ i - 1 = n /\ n \in 0..n
        BY <2>1, <3>2
      <4>2. QED
        BY <2>3, <2>5, <3>2, <4>1
    <3>3. QED
      BY <2>1, <3>1, <3>2
  <2>7. g = [i \in 0..(n + 1) |-> IF i = 0 THEN {<<result, TRUE>>} ELSE Step(i, g[i - 1])]
    BY <2>6
  <2> USE DEF Step
  <2>8. After(result, n + 1, g)
    <3> HIDE DEF g
    <3>1. QED
      BY <2>7 DEF After
  <2>9. QED
    BY <2>1, <2>8
<1>3. S = Nat
  <2> HIDE DEF S
  <2>1. S \subseteq Nat
    BY DEF S
  <2>2. QED
    BY <1>1, <1>2, <2>1, InductiveSet
<1>4. QED
  BY <1>3

(* What the generators up to the i-th leave: a chunk they filled or did not touch, unless
   one has failed; filled, when the classic generator is called first.     *)
Made(c, memory, i, state) ==
  /\ state \in Answers(c) \X BOOLEAN
  /\ i = 0 => state[2]
  /\ state[1].status = "ok" =>
         /\ state[1].arrays \in {Whole(memory), Whole("generated")}
         /\ ClassicFirst /\ i > 0 => state[1].arrays = Whole("generated")

LEMMA CallMade ==
  ASSUME generators \in Seq(Plugins), NEW c, NEW memory, NEW i \in Nat, i < Len(generators),
         NEW state, Made(c, memory, i, state), NEW next \in Call(generators[i + 1], state)
  PROVE  Made(c, memory, i + 1, next)
<1> DEFINE r == state[1]
<1>1. /\ state \in Answers(c) \X BOOLEAN /\ state = <<r, state[2]>> /\ r \in Answers(c)
      /\ r = [chunk |-> r.chunk, status |-> r.status, arrays |-> r.arrays]
      /\ r.chunk = c /\ r.arrays \in [Arrays -> Origins]
  BY DEF Made, Answers
<1>2. r.status = "ok" => /\ r.arrays \in {Whole(memory), Whole("generated")}
                         /\ ClassicFirst /\ i > 0 => r.arrays = Whole("generated")
  BY DEF Made
<1>3. i = 0 => state[2] /\ Head(generators) = generators[i + 1]
  BY DEF Made
<1> HIDE DEF r
<1>4. CASE ~state[2]
  <2>1. next = state /\ i > 0
    BY <1>3, <1>4 DEF Call
  <2>2. QED
    BY <1>2, <2>1 DEF Made, r
<1>5. CASE state[2]
  <2>1. next \in Outcomes(generators[i + 1], r)
    BY <1>5 DEF Call, r
  <2> DEFINE filled == [chunk |-> r.chunk, status |-> r.status, arrays |-> Whole("generated")]
             ended(status) == [chunk |-> r.chunk, status |-> status, arrays |-> r.arrays]
  <2>2. Filled(r) = filled
    BY <1>1 DEF Filled
  <2>3. \A status : WithStatus(r, status) = ended(status)
    BY <1>1 DEF WithStatus
  <2>4. \E goes \in BOOLEAN :
            \/ next = <<filled, goes>>
            \/ \E status \in {"failed", "wild"} : next = <<ended(status), goes>>
            \/ next = <<r, goes>> /\ generators[i + 1] # "classic"
    <3> HIDE DEF filled, ended
    <3>1. CASE generators[i + 1] = "classic"
      <4>1. next \in {filled} \X {TRUE}
        BY <2>1, <2>2, <3>1 DEF Outcomes
      <4>2. next \in {filled} \X BOOLEAN
        <5>1. {TRUE} \subseteq BOOLEAN
          OBVIOUS
        <5>2. QED
          BY <4>1, <5>1, Zenon
      <4>3. next = <<next[1], next[2]>> /\ next[1] = filled /\ next[2] \in BOOLEAN
        BY <4>2
      <4>4. QED
        BY <4>3
    <3>2. CASE generators[i + 1] = "trivial"
      <4>1. next \in {ended("wild")} \X {FALSE}
        <5>1. WithStatus(r, "wild") = ended("wild")
          BY <2>3
        <5>2. Outcomes(generators[i + 1], r) = {WithStatus(r, "wild")} \X {FALSE}
          BY <3>2 DEF Outcomes
        <5>3. QED
          BY <2>1, <5>1, <5>2, Zenon
      <4>2. next \in {ended("wild")} \X BOOLEAN
        <5>1. {FALSE} \subseteq BOOLEAN
          OBVIOUS
        <5>2. QED
          BY <4>1, <5>1, Zenon
      <4>3. next = <<next[1], next[2]>> /\ next[1] = ended("wild") /\ next[2] \in BOOLEAN
        BY <4>2
      <4>4. QED
        BY <4>3
    <3>3. CASE generators[i + 1] \notin {"classic", "trivial"}
      <4>1. next \in {r, filled, ended("failed")} \X BOOLEAN
        BY <2>1, <2>2, <2>3, <3>3 DEF Outcomes
      <4>2. next = <<next[1], next[2]>> /\ next[1] \in {r, filled, ended("failed")} /\ next[2] \in BOOLEAN
        BY <4>1
      <4>3. QED
        BY <3>3, <4>2
    <3>4. QED
      BY <3>1, <3>2, <3>3
  <2>5. filled \in Answers(c) /\ \A status \in {"failed", "wild"} : ended(status) \in Answers(c)
    <3>1. Whole("generated") \in [Arrays -> Origins]
      BY DEF Whole, Origins
    <3>2. r.status \in {"ok", "failed", "wild"}
      BY <1>1 DEF Answers
    <3>3. QED
      BY <1>1, <3>1, <3>2 DEF Answers
  <2>6. \A goes \in BOOLEAN : Made(c, memory, i + 1, <<filled, goes>>)
    BY <2>5 DEF Made
  <2>7. \A goes \in BOOLEAN, status \in {"failed", "wild"} :
            Made(c, memory, i + 1, <<ended(status), goes>>)
    BY <2>5 DEF Made
  <2>8. generators[i + 1] # "classic" =>
            \A goes \in BOOLEAN : Made(c, memory, i + 1, <<r, goes>>)
    BY <1>1, <1>2, <1>3 DEF Made, ClassicFirst
  <2> HIDE DEF filled, ended
  <2>9. QED
    BY <2>4, <2>6, <2>7, <2>8
<1>6. QED
  BY <1>4, <1>5

LEMMA GeneratedWhole ==
  ASSUME generators \in Seq(Plugins), NEW c, NEW memory \in {"zero", "unset"}, NEW result,
         result = [chunk |-> c, status |-> "ok", arrays |-> Whole(memory)],
         NEW q \in GenerateChunk(result)
  PROVE  /\ q \in Answers(c)
         /\ q.status = "ok" =>
                /\ q.arrays \in {Whole(memory), Whole("generated")}
                /\ ClassicFirst => q.arrays = Whole("generated")
<1> DEFINE n == Len(generators)
           after == CHOOSE f : After(result, n, f)
<1>1. n \in Nat
  OBVIOUS
<1>2. GenerateChunk(result) = {state[1] : state \in after[n]}
  BY DEF GenerateChunk, After
<1>3. After(result, n, after)
  <2>1. \E f : After(result, n, f)
    BY <1>1, AfterExists
  <2>2. QED
    BY <2>1
<1> HIDE DEF after
<1>4. \A i \in 0..n : after[i] = IF i = 0 THEN {<<result, TRUE>>}
                                 ELSE UNION {Call(generators[i], s) : s \in after[i - 1]}
  BY <1>3 DEF After
<1> DEFINE S == {i \in Nat : i <= n => \A s \in after[i] : Made(c, memory, i, s)}
<1>5. 0 \in S
  <2>1. 0 \in 0..n
    BY <1>1
  <2>2. after[0] = {<<result, TRUE>>}
    BY <1>4, <2>1, Zenon
  <2>3. Made(c, memory, 0, <<result, TRUE>>)
    <3>1. Whole(memory) \in [Arrays -> Origins]
      BY DEF Whole, Origins
    <3>2. result \in Answers(c) /\ result.arrays = Whole(memory)
      BY <3>1 DEF Answers
    <3> DEFINE state == <<result, TRUE>>
    <3>3. state \in Answers(c) \X BOOLEAN /\ state[1] = result /\ state[2]
      BY <3>2
    <3> HIDE DEF state
    <3>4. Made(c, memory, 0, state)
      BY <3>2, <3>3 DEF Made
    <3>5. QED
      BY <3>4 DEF state
  <2>4. QED
    BY <2>2, <2>3
<1>6. ASSUME NEW i \in S PROVE i + 1 \in S
  <2> SUFFICES ASSUME i + 1 <= n, NEW next \in after[i + 1] PROVE Made(c, memory, i + 1, next)
    OBVIOUS
  <2>1. /\ i \in Nat /\ i < n /\ i + 1 \in 0..n /\ i + 1 # 0 /\ (i + 1) - 1 = i
        /\ \A s \in after[i] : Made(c, memory, i, s)
    BY <1>1
  <2>2. after[i + 1] = UNION {Call(generators[i + 1], s) : s \in after[i]}
    BY <1>4, <2>1
  <2>3. PICK s \in after[i] : next \in Call(generators[i + 1], s)
    BY <2>2
  <2>4. QED
    BY <2>1, <2>3, CallMade
<1>7. S = Nat
  <2> HIDE DEF S
  <2>1. S \subseteq Nat
    BY DEF S
  <2>2. QED
    BY <1>5, <1>6, <2>1, InductiveSet
<1>8. PICK state \in after[n] : q = state[1]
  BY <1>2
<1>9. Made(c, memory, n, state)
  BY <1>1, <1>7, <1>8
<1>10. ClassicFirst => n > 0
  BY DEF ClassicFirst
<1>11. QED
  BY <1>8, <1>9, <1>10 DEF Made

(* The world is made when all plugins are loaded, chunks after it.         *)
SourceIInv ==
    /\ toLoad \in Seq(Plugins)
    /\ generators \in Seq(Plugins)
    /\ persistence \in BOOLEAN
    /\ damaged \in [Chunk -> SUBSET Arrays]
    /\ spawnFrom # NoWorld => toLoad = <<>>
    /\ answer.chunk # NoWorld => spawnFrom # NoWorld
    /\ ChunksAreWhole

LEMMA SourceInitSafe ==
  ASSUME SourceAssumption, SourceInit
  PROVE  SourceIInv
<1>1. /\ toLoad \in Seq(Plugins) /\ generators \in Seq(Plugins)
      /\ persistence \in BOOLEAN /\ damaged \in [Chunk -> SUBSET Arrays]
  <2>1. Loads \subseteq Seq(Plugins)
    BY Zenon DEF SourceAssumption, Plugins
  <2>2. toLoad \in Seq(Plugins)
    BY <2>1 DEF SourceInit
  <2>3. <<>> \in Seq(Plugins)
    OBVIOUS
  <2>4. QED
    BY <2>2, <2>3 DEF SourceInit
<1>2. spawnFrom = NoWorld /\ answer.chunk = NoWorld
  BY DEF SourceInit, NoAnswer
<1>3. ChunksAreWhole
  BY <1>2 DEF ChunksAreWhole
<1>4. QED
  BY <1>1, <1>2, <1>3 DEF SourceIInv

LEMMA LoadSafe ==
  ASSUME SourceIInv, LoadPlugin
  PROVE  SourceIInv'
<1>1. /\ toLoad # <<>> /\ toLoad \in Seq(Plugins) /\ generators \in Seq(Plugins)
      /\ toLoad' = Tail(toLoad)
      /\ UNCHANGED <<level, damaged, spawnFrom, answer>>
      /\ spawnFrom = NoWorld /\ answer.chunk = NoWorld
  BY DEF LoadPlugin, SourceIInv
<1>2. Head(toLoad) \in Plugins /\ toLoad' \in Seq(Plugins)
  BY <1>1
<1>3. generators' \in Seq(Plugins) /\ persistence' \in BOOLEAN
  <2>1. <<Head(toLoad)>> \o generators \in Seq(Plugins)
    BY <1>1, <1>2
  <2>2. QED
    BY <1>1, <2>1 DEF LoadPlugin, Initialize, SourceIInv
<1>4. ChunksAreWhole'
  BY <1>1 DEF ChunksAreWhole
<1>5. QED
  BY <1>1, <1>2, <1>3, <1>4 DEF SourceIInv

LEMMA CreateSafe ==
  ASSUME SourceIInv, CreateWorld
  PROVE  SourceIInv'
<1>1. /\ UNCHANGED <<toLoad, persistence, generators, level, damaged, answer>>
      /\ toLoad = <<>> /\ answer.chunk = NoWorld
      /\ spawnFrom' \in IF ~persistence THEN {"unset"} ELSE IF level THEN {"stored"} ELSE GenerateLevel
  BY DEF CreateWorld, SourceIInv
<1>2. /\ GenerateLevel \subseteq {"generated", "unset"}
      /\ ClassicFirst => "unset" \notin GenerateLevel
  BY DEF GenerateLevel, ClassicFirst
<1>3. ChunksAreWhole'
  BY <1>1, <1>2 DEF ChunksAreWhole, ClassicFirst
<1>4. QED
  BY <1>1, <1>3 DEF SourceIInv

LEMMA GetSafe ==
  ASSUME SourceIInv, NEW c \in Chunk, NEW memory \in {"zero", "unset"}, GetChunk(c, memory)
  PROVE  SourceIInv'
<1> DEFINE fresh == [chunk |-> c, status |-> "ok", arrays |-> Whole(memory)]
<1>1. /\ UNCHANGED <<toLoad, persistence, generators, level, damaged, spawnFrom>>
      /\ spawnFrom # NoWorld
  BY DEF GetChunk
<1>2. ASSUME persistence, answer' # answer
      PROVE  /\ answer'.chunk = c
             /\ answer'.status = "ok" =>
                    \E from \in {"stored", "generated", "zero", "unset"} :
                        /\ answer'.arrays = Whole(from)
                        /\ from = "stored" <=> damaged[c] = {}
                        /\ ClassicFirst => from \in {"stored", "generated"}
  <2>1. CASE ValidChunk(c)
    <3>1. answer' = [fresh EXCEPT !.arrays = Stored(c)]
      BY <1>2, <2>1 DEF GetChunk
    <3>2. damaged[c] = {} /\ Stored(c) = Whole("stored")
      BY <2>1 DEF ValidChunk, Stored, Whole
    <3>3. answer' = [chunk |-> c, status |-> "ok", arrays |-> Stored(c)]
      BY <3>1
    <3>4. QED
      BY <3>2, <3>3
  <2>2. CASE ~ValidChunk(c)
    <3>1. answer' \in GenerateChunk(fresh)
      BY <1>2, <2>2 DEF GetChunk
    <3>2. generators \in Seq(Plugins)
      BY DEF SourceIInv
    <3> HIDE DEF fresh
    <3>3. /\ answer' \in Answers(c)
          /\ answer'.status = "ok" =>
                 /\ answer'.arrays \in {Whole(memory), Whole("generated")}
                 /\ ClassicFirst => answer'.arrays = Whole("generated")
      BY <3>1, <3>2, GeneratedWhole DEF fresh
    <3>4. damaged[c] # {}
      BY <2>2 DEF ValidChunk
    <3>5. answer'.chunk = c
      BY <3>3 DEF Answers
    <3>6. ASSUME answer'.status = "ok"
          PROVE  \E from \in {"generated", memory} :
                     /\ answer'.arrays = Whole(from)
                     /\ ClassicFirst => from = "generated"
      BY <3>3, <3>6
    <3>7. QED
      BY <3>4, <3>5, <3>6
  <2>3. QED
    BY <2>1, <2>2
<1>3. ChunksAreWhole'
  <2>1. persistence /\ spawnFrom # NoWorld =>
            /\ spawnFrom = "stored" <=> level
            /\ ClassicFirst => spawnFrom # "unset"
    BY DEF SourceIInv, ChunksAreWhole
  <2>2. CASE answer' = answer
    BY <1>1, <2>2 DEF SourceIInv, ChunksAreWhole, ClassicFirst
  <2>3. CASE answer' # answer
    BY <1>1, <1>2, <2>1, <2>3 DEF ChunksAreWhole, ClassicFirst
  <2>4. QED
    BY <2>2, <2>3
<1>4. QED
  BY <1>1, <1>3 DEF SourceIInv

LEMMA SourceHolds == Spec => []SourceIInv
<1> USE SourceAssumption
<1>1. Init => SourceIInv
  BY SourceInitSafe DEF Init
<1>2. SourceIInv /\ [Next]_vars => SourceIInv'
  <2> SUFFICES ASSUME SourceIInv, [Next]_vars PROVE SourceIInv'
    OBVIOUS
  <2>1. CASE Source
    BY <2>1, LoadSafe, CreateSafe, GetSafe DEF Source, SourceNext, WorldGetChunk, SendChunk
  <2>2. CASE UNCHANGED sourceVars
    BY <2>2 DEF SourceIInv, ChunksAreWhole, ClassicFirst, sourceVars
  <2>3. QED
    BY <2>1, <2>2 DEF Next, View, Carry, Tick, Column, vars
<1>3. QED
  BY <1>1, <1>2, PTL DEF Spec

\* With a persistence plugin, whatever plugins are loaded, in whatever order and however
\* often, and whatever is damaged, a chunk that was given without an error is all from its
\* file, all generated or all of it untouched; from the file exactly if that is whole, and
\* not untouched when the classic generator is called first (nbt/main.c:95-125).
THEOREM NoMixedChunks == Spec => []ChunksAreWhole
<1>1. SourceIInv => ChunksAreWhole
  BY DEF SourceIInv
<1>2. QED
  BY <1>1, SourceHolds, PTL

------------------------------------------------------------------------------
(* Coordinates.                                                            *)

LEMMA Powers == 2^4 = 16 /\ 2^5 = 32 /\ 2^9 = 512
OBVIOUS

(* A precise coordinate, the block it is in and the one below it.          *)
LEMMA Rounding ==
  ASSUME NEW h \in Int
  PROVE  /\ Truncated(h, 2) \in Int
         /\ Truncated(2 * h, 2) = h
         /\ h >= 0 => Truncated(h, 2) = h \div 2
         /\ Truncated(h, 2) = h \div 2 \/ Truncated(h, 2) = (h \div 2) + 1
BY DEF Truncated

(* The chunk of a coordinate is the same whichever way it is asked for.    *)
LEMMA ConversionsOfOne ==
  ASSUME NEW b \in Int
  PROVE  /\ ShiftRight(b, 4) \in Int
         /\ ShiftRight(b * 2^5, 5) = b
         /\ ShiftRight(b * 2^5, 9) = ShiftRight(b, 4)
         /\ ShiftRight(b * 2^4, 4) = b
         /\ ShiftRight(b * 2^9, 9) = b
         /\ 2 * b * 2^4 = 2 * (b * 2^4)
<1>1. b \div 16 \in Int /\ (b * 32) \div 32 = b /\ (b * 16) \div 16 = b /\ (b * 512) \div 512 = b
  OBVIOUS
<1>2. (b * 32) \div 512 = b \div 16
  OBVIOUS
<1>3. 2 * b * 16 = 2 * (b * 16)
  OBVIOUS
<1>4. QED
  BY <1>1, <1>2, <1>3, Powers DEF ShiftRight

LEMMA AllConversionsAgree ==
  ASSUME NEW p \in Int \X Int
  PROVE  ConversionsAgree(p)
<1> DEFINE b(i) == Truncated(p[i], 2)
           c(i) == ShiftRight(b(i), 4)
<1>1. p[1] \in Int /\ p[2] \in Int
  OBVIOUS
<1>2. \A i \in 1..2 : /\ b(i) \in Int /\ c(i) \in Int
                      /\ b(i) * 2^5 \in Int /\ c(i) * 2^4 \in Int
                      /\ ShiftRight(b(i) * 2^5, 5) = b(i)
                      /\ ShiftRight(b(i) * 2^5, 9) = c(i)
                      /\ Truncated(2 * b(i), 2) = b(i)
                      /\ ShiftRight(c(i) * 2^4, 4) = c(i)
                      /\ ShiftRight(c(i) * 2^9, 9) = c(i)
                      /\ ShiftRight(Truncated(2 * c(i) * 2^4, 2), 4) = c(i)
  <2> SUFFICES ASSUME NEW i \in 1..2
               PROVE  /\ b(i) \in Int /\ c(i) \in Int
                      /\ b(i) * 2^5 \in Int /\ c(i) * 2^4 \in Int
                      /\ ShiftRight(b(i) * 2^5, 5) = b(i)
                      /\ ShiftRight(b(i) * 2^5, 9) = c(i)
                      /\ Truncated(2 * b(i), 2) = b(i)
                      /\ ShiftRight(c(i) * 2^4, 4) = c(i)
                      /\ ShiftRight(c(i) * 2^9, 9) = c(i)
                      /\ ShiftRight(Truncated(2 * c(i) * 2^4, 2), 4) = c(i)
    OBVIOUS
  <2>1. b(i) \in Int
    BY <1>1, Rounding
  <2> HIDE DEF b
  <2>2. /\ c(i) \in Int /\ ShiftRight(b(i) * 2^5, 5) = b(i) /\ ShiftRight(b(i) * 2^5, 9) = c(i)
        /\ Truncated(2 * b(i), 2) = b(i)
    BY <2>1, Rounding, ConversionsOfOne
  <2> HIDE DEF c
  <2>3. /\ ShiftRight(c(i) * 2^4, 4) = c(i) /\ ShiftRight(c(i) * 2^9, 9) = c(i)
        /\ 2 * c(i) * 2^4 = 2 * (c(i) * 2^4)
    BY <2>2, ConversionsOfOne
  <2>4. b(i) * 2^5 \in Int /\ c(i) * 2^4 \in Int
    BY <2>1, <2>2, Powers
  <2>5. Truncated(2 * c(i) * 2^4, 2) = c(i) * 2^4
    BY <2>3, <2>4, Rounding
  <2>6. QED
    BY <2>1, <2>2, <2>3, <2>4, <2>5
<1> DEFINE block == <<b(1), b(2)>>
           chunk == <<c(1), c(2)>>
<1>3. /\ PrecisePositionToBlockPosition(p) = block
      /\ BlockPositionToChunkPosition(block) = chunk
      /\ PrecisePositionToChunkPosition(p) = chunk
  BY DEF PrecisePositionToBlockPosition, BlockPositionToChunkPosition,
         PrecisePositionToChunkPosition, Each
<1> HIDE DEF b, c
<1>4. /\ AbsolutePositionToBlockPosition(BlockPositionToAbsolutePosition(block)) = block
      /\ AbsolutePositionToChunkPosition(BlockPositionToAbsolutePosition(block)) = chunk
      /\ PrecisePositionToBlockPosition(BlockPositionToPrecisePosition(block)) = block
  BY <1>2 DEF AbsolutePositionToBlockPosition, AbsolutePositionToChunkPosition,
     BlockPositionToAbsolutePosition, PrecisePositionToBlockPosition,
     BlockPositionToPrecisePosition, Each
<1>5. /\ BlockPositionToChunkPosition(ChunkPositionToBlockPosition(chunk)) = chunk
      /\ AbsolutePositionToChunkPosition(ChunkPositionToAbsolutePosition(chunk)) = chunk
      /\ PrecisePositionToChunkPosition(ChunkPositionToPrecisePosition(chunk)) = chunk
  BY <1>2 DEF BlockPositionToChunkPosition, ChunkPositionToBlockPosition,
     AbsolutePositionToChunkPosition, ChunkPositionToAbsolutePosition,
     PrecisePositionToChunkPosition, ChunkPositionToPrecisePosition, Each
<1>6. QED
  BY <1>3, <1>4, <1>5 DEF ConversionsAgree

(* The server's chunk of a coordinate and the one the client sees.         *)
LEMMA ServerAndClientChunk ==
  ASSUME NEW h \in Int
  PROVE  LET server == ShiftRight(Truncated(h, 2), 4)
             client == ShiftRight(h * 2^4, 9)
         IN  /\ server = client \/ server = client + 1
             /\ server # client => h < 0
<1> DEFINE below == h \div 2
<1>1. below \in Int /\ h * 16 \in Int
  OBVIOUS
<1>2. (h * 16) \div 512 = below \div 16
  OBVIOUS
<1>3. Truncated(h, 2) = below \/ (Truncated(h, 2) = below + 1 /\ h < 0)
  BY Rounding
<1> HIDE DEF below
<1>4. (below + 1) \div 16 = below \div 16 \/ (below + 1) \div 16 = (below \div 16) + 1
  BY <1>1
<1>5. QED
  BY <1>1, <1>2, <1>3, <1>4, Powers DEF ShiftRight

PlaceInv == spawn \in Int \X Int /\ position \in Int \X Int

LEMMA PlaceHolds == Spec => []PlaceInv
<1> USE ViewAssumption
<1>1. Init => PlaceInv
  BY DEF Init, ViewInit, PlaceInv, ViewAssumption
<1>2. PlaceInv /\ [Next]_vars => PlaceInv'
  <2> SUFFICES ASSUME PlaceInv, [Next]_vars PROVE PlaceInv'
    OBVIOUS
  <2>1. ASSUME NEW to \in Places \cup {BlockPositionToPrecisePosition(spawn)}, PlayerPosition(to)
        PROVE  PlaceInv'
    <3>1. BlockPositionToPrecisePosition(spawn) \in Int \X Int
      BY DEF BlockPositionToPrecisePosition, Each, PlaceInv
    <3>2. QED
      BY <2>1, <3>1 DEF PlayerPosition, PlaceInv, ViewAssumption
  <2>2. CASE UNCHANGED <<spawn, position>>
    BY <2>2 DEF PlaceInv
  <2>3. CASE View
    BY <2>1, <2>2, <2>3 DEF View, ViewNext, PlayerPreLogin, PlayerDigging, PlayerLogout
  <2>4. QED
    BY <2>2, <2>3 DEF Next, Carry, Tick, Source, Column, vars, viewVars
<1>3. QED
  BY <1>1, <1>2, PTL DEF Spec

\* For every position of a player the conversions of minecraft.h agree on its chunk, which
\* is the one the client sees him in or the next one on the side of 0 (minecraft.h:566-592).
THEOREM ChunksAgree == Spec => []ChunkOfPlayer
<1>1. ASSUME PlaceInv PROVE ChunkOfPlayer
  <2>1. position \in Int \X Int /\ position[1] \in Int /\ position[2] \in Int
    BY <1>1 DEF PlaceInv
  <2>2. ConversionsAgree(position)
    BY <2>1, AllConversionsAgree
  <2> DEFINE chunk == PrecisePositionToChunkPosition(position)
  <2>3. \A i \in 1..2 : /\ chunk[i] = ShiftRight(Truncated(position[i], 2), 4)
                        /\ StandsOn[i] = ShiftRight(position[i] * 2^4, 9)
    BY DEF PrecisePositionToChunkPosition, StandsOn, AbsolutePositionToChunkPosition,
           PrecisePositionToAbsolutePosition, Each
  <2>4. \A i \in 1..2 : /\ chunk[i] = StandsOn[i] \/ chunk[i] = StandsOn[i] + 1
                        /\ chunk[i] # StandsOn[i] => position[i] < 0
    <3> HIDE DEF chunk
    <3>1. QED
      BY <2>1, <2>3, ServerAndClientChunk
  <2>5. QED
    BY <2>2, <2>4 DEF ChunkOfPlayer
<1>2. PlaceInv => ChunkOfPlayer
  BY <1>1
<1>3. QED
  BY <1>2, PlaceHolds, PTL

------------------------------------------------------------------------------
(* The chunks a player is shown: sequences and the sets of Set.c.          *)

(* The position SelectInSeq returns, I being those that pass its test.     *)
LEMMA Selected ==
  ASSUME NEW n \in Nat, NEW I, I \subseteq 1..n
  PROVE  LET k == IF I # {} THEN Min(I) ELSE 0 IN
         /\ k \in 0..n
         /\ k = 0 <=> I = {}
         /\ k # 0 => k \in I /\ \A j \in I : k <= j
<1>1. CASE I = {}
  BY <1>1
<1>2. CASE I # {}
  <2>1. I \subseteq Nat
    OBVIOUS
  <2>2. Min(I) \in I /\ \A j \in I : Min(I) <= j
    BY <1>2, <2>1, LeastOf
  <2>3. Min(I) \in 1..n
    BY <2>2
  <2> DEFINE k == Min(I)
  <2> HIDE DEF k
  <2>4. k \in 1..n /\ k \in I /\ \A j \in I : k <= j
    BY <2>2, <2>3 DEF k
  <2>5. k \in 0..n /\ k # 0
    BY <2>4
  <2>6. QED
    BY <1>2, <2>4, <2>5 DEF k
<1>3. QED
  BY <1>1, <1>2

(* A function defined along 1..n by steps that stay in a set.              *)
Walks(f, D, a, n, step) ==
  /\ f \in [0..n -> D]
  /\ f[0] = a
  /\ \A i \in 1..n : f[i] = step[<<f[i - 1], i>>]

LEMMA Recursion ==
  ASSUME NEW D, NEW a \in D, NEW n \in Nat, NEW step \in [D \X (1..n) -> D]
  PROVE  \E f : Walks(f, D, a, n, step)
<1> DEFINE Good(m, f) == f[0] = a /\ \A i \in 1..m : f[i] = step[<<f[i - 1], i>>]
           S == {m \in Nat : m <= n => \E f \in [0..m -> D] : Good(m, f)}
<1>1. 0 \in S
  <2>1. [i \in 0..0 |-> a] \in [0..0 -> D] /\ Good(0, [i \in 0..0 |-> a])
    OBVIOUS
  <2>2. QED
    BY <2>1
<1>2. ASSUME NEW m \in S PROVE m + 1 \in S
  <2> SUFFICES ASSUME m + 1 <= n PROVE \E f \in [0..(m + 1) -> D] : Good(m + 1, f)
    OBVIOUS
  <2>1. m \in Nat /\ m <= n /\ m + 1 \in 1..n
    OBVIOUS
  <2>2. PICK f \in [0..m -> D] : Good(m, f)
    BY <2>1
  <2> DEFINE last == step[<<f[m], m + 1>>]
             g == [i \in 0..(m + 1) |-> IF i <= m THEN f[i] ELSE last]
  <2>3. last \in D
    <3>1. f[m] \in D
      BY <2>1
    <3>2. <<f[m], m + 1>> \in D \X (1..n)
      BY <2>1, <3>1
    <3>3. QED
      BY <3>2
  <2> HIDE DEF last
  <2>4. g \in [0..(m + 1) -> D]
    BY <2>1, <2>3
  <2>5. (\A i \in 0..m : g[i] = f[i]) /\ g[m + 1] = last
    BY <2>1
  <2> HIDE DEF g
  <2>6. ASSUME NEW i \in 1..(m + 1) PROVE g[i] = step[<<g[i - 1], i>>]
    <3>1. CASE i \in 1..m
      <4>1. i \in 0..m /\ i - 1 \in 0..m
        BY <2>1, <3>1
      <4>2. f[i] = step[<<f[i - 1], i>>]
        BY <2>2, <3>1
      <4>3. QED
        BY <2>5, <4>1, <4>2
    <3>2. CASE i = m + 1
      <4>1. i - 1 = m /\ m \in 0..m
        BY <2>1, <3>2
      <4>2. QED
        BY <2>5, <3>2, <4>1 DEF last
    <3>3. QED
      BY <2>1, <3>1, <3>2
  <2>7. g[0] = a
    BY <2>1, <2>2, <2>5
  <2>8. QED
    BY <2>4, <2>6, <2>7
<1>3. S = Nat
  <2> HIDE DEF S
  <2>1. S \subseteq Nat
    BY DEF S
  <2>2. QED
    BY <1>1, <1>2, <2>1, InductiveSet
<1>4. n \in S
  BY <1>3
<1>5. QED
  BY <1>4 DEF Walks

(* Two functions that take the same steps are the same.                    *)
StepAlike(n, f, g) ==
  /\ f[0] = g[0]
  /\ \A i \in 1..n : f[i - 1] = g[i - 1] => f[i] = g[i]

LEMMA Agree ==
  ASSUME NEW n \in Nat, NEW f, NEW g, StepAlike(n, f, g)
  PROVE  \A i \in 0..n : f[i] = g[i]
<1> DEFINE S == {i \in Nat : i <= n => f[i] = g[i]}
<1>1. 0 \in S
  BY DEF StepAlike
<1>2. ASSUME NEW i \in S PROVE i + 1 \in S
  <2> SUFFICES ASSUME i + 1 <= n PROVE f[i + 1] = g[i + 1]
    OBVIOUS
  <2>1. i \in Nat /\ i + 1 \in 1..n /\ (i + 1) - 1 = i /\ f[i] = g[i]
    OBVIOUS
  <2>2. QED
    BY <2>1 DEF StepAlike
<1>3. S = Nat
  <2> HIDE DEF S
  <2>1. S \subseteq Nat
    BY DEF S
  <2>2. QED
    BY <1>1, <1>2, <2>1, InductiveSet
<1>4. ASSUME NEW i \in 0..n PROVE f[i] = g[i]
  <2>1. i \in S /\ i <= n
    BY <1>3
  <2>2. QED
    BY <2>1
<1>5. QED
  BY <1>4

(* What is left of a sequence without its k-th element.                    *)
LEMMA Removed ==
  ASSUME NEW S, NEW s \in Seq(S), NEW k \in 1..Len(s)
  PROVE  LET t == RemoveAt(s, k) IN
         /\ t \in Seq(S) /\ Len(t) = Len(s) - 1
         /\ \A j \in 1..(Len(s) - 1) : t[j] = IF j < k THEN s[j] ELSE s[j + 1]
<1> DEFINE a == SubSeq(s, 1, k - 1)
           b == SubSeq(s, k + 1, Len(s))
<1>0. Len(s) \in Nat /\ k \in Nat
  OBVIOUS
<1>1. a \in Seq(S) /\ Len(a) = k - 1 /\ \A j \in 1..(k - 1) : a[j] = s[j]
  BY <1>0, SubSeqProperties
<1>2. b \in Seq(S) /\ Len(b) = Len(s) - k
      /\ \A j \in 1..(Len(s) - k) : b[j] = s[k + j]
  <2>1. \A i \in (k + 1)..Len(s) : s[i] \in S
    BY <1>0
  <2>2. /\ b \in Seq(S) /\ Len(b) = IF k + 1 <= Len(s) THEN Len(s) - (k + 1) + 1 ELSE 0
        /\ \A j \in 1..(Len(s) - (k + 1) + 1) : b[j] = s[(k + 1) + j - 1]
    BY <1>0, <2>1, SubSeqProperties
  <2> HIDE DEF b
  <2>3. ASSUME NEW j \in 1..(Len(s) - k) PROVE b[j] = s[k + j]
    <3>1. j \in 1..(Len(s) - (k + 1) + 1) /\ (k + 1) + j - 1 = k + j
      BY <1>0
    <3>2. QED
      BY <2>2, <3>1
  <2>4. QED
    BY <1>0, <2>2, <2>3
<1> HIDE DEF a, b
<1>3. /\ a \o b \in Seq(S) /\ Len(a \o b) = Len(s) - 1
      /\ \A j \in 1..(Len(s) - 1) : (a \o b)[j] = IF j <= k - 1 THEN a[j] ELSE b[j - (k - 1)]
  <2>1. /\ a \o b \in Seq(S) /\ Len(a \o b) = Len(a) + Len(b)
        /\ \A j \in 1..(Len(a) + Len(b)) : (a \o b)[j] = IF j <= Len(a) THEN a[j] ELSE b[j - Len(a)]
    BY <1>1, <1>2, ConcatProperties
  <2>2. Len(a) + Len(b) = Len(s) - 1 /\ Len(a) = k - 1
    BY <1>0, <1>1, <1>2
  <2>3. QED
    BY <2>1, <2>2
<1>4. RemoveAt(s, k) = a \o b
  BY DEF RemoveAt, a, b
<1> DEFINE w == a \o b
<1> HIDE DEF w
<1>5. ASSUME NEW j \in 1..(Len(s) - 1) PROVE w[j] = IF j < k THEN s[j] ELSE s[j + 1]
  <2>1. CASE j < k
    BY <1>0, <1>1, <1>3, <2>1 DEF w
  <2>2. CASE ~(j < k)
    <3>1. ~(j <= k - 1) /\ j - (k - 1) \in 1..(Len(s) - k) /\ k + (j - (k - 1)) = j + 1
      BY <1>0, <2>2
    <3>2. w[j] = b[j - (k - 1)]
      BY <1>3, <3>1 DEF w
    <3>3. QED
      BY <1>2, <2>2, <3>1, <3>2
  <2>3. QED
    BY <2>1, <2>2
<1>6. QED
  BY <1>3, <1>4, <1>5 DEF w

NoRepeats(s) == \A i, j \in 1..Len(s) : s[i] = s[j] => i = j

(* The sequences of a sequence one after the other, step by step.          *)
Flat(f, seqs, S) ==
    /\ f \in [0..Len(seqs) -> Seq(S)]
    /\ f[0] = <<>>
    /\ \A i \in 1..Len(seqs) : f[i] = f[i - 1] \o seqs[i]
    /\ FlattenSeq(seqs) = f[Len(seqs)]

LEMMA FlattenIs ==
  ASSUME NEW S, NEW seqs \in Seq(Seq(S))
  PROVE  \E f : Flat(f, seqs, S)
<1> DEFINE n == Len(seqs)
           step == [p \in Seq(S) \X (1..n) |-> p[1] \o seqs[p[2]]]
           Reads(g) == g = [i \in 1..n |-> IF i = 1 THEN seqs[i] ELSE g[i - 1] \o seqs[i]]
           flatten == CHOOSE g : Reads(g)
<1>1. n \in Nat /\ \A i \in 1..n : seqs[i] \in Seq(S)
  OBVIOUS
<1>2. <<>> \in Seq(S) /\ step \in [Seq(S) \X (1..n) -> Seq(S)]
  BY <1>1
<1> HIDE DEF step
<1>3. PICK f : Walks(f, Seq(S), <<>>, n, step)
  <2> HIDE DEF n
  <2>1. QED
    BY <1>1, <1>2, Recursion
<1>4. f \in [0..n -> Seq(S)] /\ f[0] = <<>> /\ \A i \in 1..n : f[i] = f[i - 1] \o seqs[i]
  <2>1. ASSUME NEW i \in 1..n PROVE f[i] = f[i - 1] \o seqs[i]
    <3>1. f[i - 1] \in Seq(S)
      <4>1. i - 1 \in 0..n
        BY <1>1
      <4>2. QED
        BY <1>3, <4>1 DEF Walks
    <3>2. step[<<f[i - 1], i>>] = f[i - 1] \o seqs[i]
      BY <3>1 DEF step
    <3>3. QED
      BY <1>3, <3>2 DEF Walks
  <2>2. QED
    BY <1>3, <2>1 DEF Walks
<1>5. CASE n = 0
  <2>1. FlattenSeq(seqs) = <<>>
    BY <1>5 DEF FlattenSeq
  <2>2. QED
    BY <1>4, <1>5, <2>1 DEF Flat
<1>6. CASE n # 0
  <2> DEFINE place == [i \in 1..n |-> f[i]]
  <2>1. 1 \in 1..n /\ n \in 1..n
    BY <1>1, <1>6
  <2>2. ASSUME NEW i \in 1..n
        PROVE  place[i] = IF i = 1 THEN seqs[i] ELSE place[i - 1] \o seqs[i]
    <3>1. CASE i = 1
      <4>1. f[1] = <<>> \o seqs[1] /\ seqs[1] \in Seq(S)
        <5>1. 1 - 1 = 0
          OBVIOUS
        <5>2. QED
          BY <1>1, <1>4, <2>1, <5>1
      <4>2. QED
        BY <3>1, <4>1
    <3>2. CASE i # 1
      <4>1. i - 1 \in 1..n
        BY <1>1, <3>2
      <4>2. QED
        BY <1>4, <3>2, <4>1
    <3>3. QED
      BY <3>1, <3>2
  <2>3. Reads(place)
    <3>1. place = [i \in 1..n |-> place[i]]
      OBVIOUS
    <3> HIDE DEF place
    <3>2. QED
      BY <2>2, <3>1
  <2> HIDE DEF place
  <2>4. Reads(flatten)
    BY <2>3
  <2> HIDE DEF flatten
  <2>5. \A i \in 1..n : flatten[i] = IF i = 1 THEN seqs[i] ELSE flatten[i - 1] \o seqs[i]
    BY <2>4
  <2> HIDE DEF Reads
  <2> DEFINE g == [i \in 0..n |-> IF i = 0 THEN <<>> ELSE flatten[i]]
  <2>6. g[0] = f[0]
    BY <1>1, <1>4
  <2>7. ASSUME NEW i \in 1..n, g[i - 1] = f[i - 1] PROVE g[i] = f[i]
    <3>1. g[i] = flatten[i] /\ i \in 0..n /\ i - 1 \in 0..n
      BY <1>1
    <3>2. CASE i = 1
      <4>1. f[1] = <<>> \o seqs[1] /\ seqs[1] \in Seq(S)
        <5>1. 1 - 1 = 0
          OBVIOUS
        <5>2. QED
          BY <1>1, <1>4, <2>1, <5>1
      <4>2. QED
        BY <2>5, <3>1, <3>2, <4>1
    <3>3. CASE i # 1
      <4>1. g[i - 1] = flatten[i - 1]
        BY <3>1, <3>3
      <4>2. QED
        BY <1>4, <2>5, <2>7, <3>1, <3>3, <4>1
    <3>4. QED
      BY <3>2, <3>3
  <2> HIDE DEF g
  <2>8. StepAlike(n, g, f)
    BY <2>6, <2>7 DEF StepAlike
  <2>9. g[n] = f[n]
    <3> HIDE DEF n
    <3>1. \A i \in 0..n : g[i] = f[i]
      BY <1>1, <2>8, Agree
    <3>2. QED
      BY <1>1, <3>1
  <2>10. g[n] = flatten[n]
    BY <1>1, <1>6 DEF g
  <2>11. FlattenSeq(seqs) = flatten[n]
    BY <1>6 DEF FlattenSeq, flatten, Reads
  <2>12. QED
    BY <1>4, <2>9, <2>10, <2>11 DEF Flat
<1>7. QED
  BY <1>5, <1>6

LEMMA JoinedIs ==
  ASSUME NEW S, NEW s \in Seq(S), NEW t \in Seq(S), NoRepeats(s), NoRepeats(t),
         Range(s) \cap Range(t) = {}
  PROVE  /\ s \o t \in Seq(S)
         /\ NoRepeats(s \o t)
         /\ Range(s \o t) = Range(s) \cup Range(t)
<1> DEFINE w == s \o t
           m == Len(s)
           n == Len(t)
<1>1. m \in Nat /\ n \in Nat /\ DOMAIN s = 1..m /\ DOMAIN t = 1..n
  OBVIOUS
<1>2. w \in Seq(S) /\ Len(w) = m + n /\ \A i \in 1..(m + n) : w[i] = IF i <= m THEN s[i] ELSE t[i - m]
  BY ConcatProperties
<1>3. DOMAIN w = 1..(m + n)
  BY <1>2
<1> HIDE DEF w, m, n
<1>4. ASSUME NEW i \in 1..(m + n)
      PROVE  \/ i \in 1..m /\ w[i] = s[i] /\ w[i] \in Range(s)
             \/ i - m \in 1..n /\ w[i] = t[i - m] /\ w[i] \in Range(t)
  <2>1. CASE i <= m
    <3>1. i \in 1..m /\ w[i] = s[i]
      BY <1>1, <1>2, <2>1
    <3>2. QED
      BY <1>1, <3>1 DEF Range
  <2>2. CASE ~(i <= m)
    <3>1. i - m \in 1..n /\ w[i] = t[i - m]
      BY <1>1, <1>2, <2>2
    <3>2. QED
      BY <1>1, <3>1 DEF Range
  <2>3. QED
    BY <2>1, <2>2
<1>5. NoRepeats(w)
  <2> SUFFICES ASSUME NEW i \in 1..(m + n), NEW j \in 1..(m + n), w[i] = w[j] PROVE i = j
    BY <1>2 DEF NoRepeats
  <2>1. CASE i \in 1..m /\ w[i] = s[i] /\ w[i] \in Range(s)
    <3>1. j \in 1..m /\ w[j] = s[j]
      BY <1>4, <2>1
    <3>2. QED
      BY <2>1, <3>1 DEF NoRepeats, m
  <2>2. CASE i - m \in 1..n /\ w[i] = t[i - m] /\ w[i] \in Range(t)
    <3>1. j - m \in 1..n /\ w[j] = t[j - m]
      BY <1>4, <2>2
    <3>2. i - m = j - m
      BY <2>2, <3>1 DEF NoRepeats, n
    <3>3. QED
      BY <1>1, <3>2
  <2>3. QED
    BY <1>4, <2>1, <2>2
<1>6. Range(w) = Range(s) \cup Range(t)
  <2>1. ASSUME NEW x \in Range(w) PROVE x \in Range(s) \cup Range(t)
    <3>1. PICK i \in 1..(m + n) : x = w[i]
      BY <1>3 DEF Range
    <3>2. QED
      BY <1>4, <3>1
  <2>2. ASSUME NEW x \in Range(s) PROVE x \in Range(w)
    <3>1. PICK i \in 1..m : x = s[i]
      BY <1>1 DEF Range
    <3>2. i \in 1..(m + n) /\ i <= m
      BY <1>1
    <3>3. w[i] = x
      BY <1>2, <3>1, <3>2
    <3>4. QED
      BY <1>3, <3>2, <3>3 DEF Range
  <2>3. ASSUME NEW x \in Range(t) PROVE x \in Range(w)
    <3>1. PICK i \in 1..n : x = t[i]
      BY <1>1 DEF Range
    <3>2. i + m \in 1..(m + n) /\ ~(i + m <= m) /\ (i + m) - m = i
      BY <1>1
    <3>3. w[i + m] = x
      BY <1>2, <3>1, <3>2
    <3>4. QED
      BY <1>3, <3>2, <3>3 DEF Range
  <2>4. QED
    BY <2>1, <2>2, <2>3
<1>7. QED
  BY <1>2, <1>5, <1>6 DEF w

(* As many elements as places.                                             *)
LEMMA LengthIs ==
  ASSUME NEW S, NEW s \in Seq(S), NoRepeats(s)
  PROVE  IsFiniteSet(Range(s)) /\ Cardinality(Range(s)) = Len(s)
<1>1. Len(s) \in Nat /\ DOMAIN s = 1..Len(s) /\ s \in [1..Len(s) -> S]
  OBVIOUS
<1>2. IsFiniteSet(1..Len(s)) /\ Cardinality(1..Len(s)) = Len(s)
  <2>1. IsFiniteSet(1..Len(s)) /\ Cardinality(1..Len(s)) = IF 1 > Len(s) THEN 0 ELSE Len(s) - 1 + 1
    BY <1>1, FS_Interval
  <2>2. QED
    BY <1>1, <2>1
<1>3. s \in Bijection(1..Len(s), Range(s))
  <2>1. s \in [1..Len(s) -> Range(s)]
    BY <1>1 DEF Range
  <2>2. \A t \in Range(s) : \E i \in 1..Len(s) : s[i] = t
    BY <1>1 DEF Range
  <2>3. QED
    BY <2>1, <2>2 DEF Bijection, Injection, IsInjective, Surjection, NoRepeats
<1>4. QED
  BY <1>2, <1>3, FS_Bijection DEF ExistsBijection

------------------------------------------------------------------------------
(* A set of the given size whose values are M, each in its bucket and once. *)

Coord == Int \X Int

GoodSet(s, size, M) ==
    /\ size \in Nat \ {0}
    /\ s \in [size : {size}, length : Nat, buckets : [0..(size - 1) -> Seq(Coord)]]
    /\ M \subseteq Coord /\ IsFiniteSet(M) /\ s.length = Cardinality(M)
    /\ \A b \in 0..(size - 1) :
           /\ NoRepeats(s.buckets[b])
           /\ Range(s.buckets[b]) = {v \in M : Bucket(size, v) = b}

LEMMA BucketIn ==
  ASSUME NEW size \in Nat \ {0}, NEW v \in Coord
  PROVE  Bucket(size, v) \in 0..(size - 1)
<1> DEFINE h == (v[1] * 31 * 31 + v[2]) * 31
           hash == CRemainder(h, ChunkBuckets)
<1>1. h \in Int
  BY DEF Coord
<1> HIDE DEF h
<1>2. hash \in Int
  BY <1>1 DEF CRemainder, ChunkBuckets
<1> HIDE DEF hash
<1>3. \A a \in Int : a % size \in 0..(size - 1)
  OBVIOUS
<1>4. Wrapped(size) \in Int
  <2>1. 65536 % size \in Int
    BY <1>3
  <2>2. (65536 % size) * (65536 % size) \in Int
    BY <2>1
  <2>3. QED
    BY <1>3, <2>2 DEF Wrapped
<1>5. hash % size \in 0..(size - 1) /\ (Wrapped(size) + hash) % size \in 0..(size - 1)
  BY <1>2, <1>3, <1>4
<1>6. QED
  BY <1>5 DEF Bucket, hash, h

LEMMA HasIs ==
  ASSUME NEW size, NEW M, NEW s, GoodSet(s, size, M), NEW v \in Coord
  PROVE  SetHas(s, v) <=> v \in M
<1>1. Bucket(size, v) \in 0..(size - 1) /\ s.size = size
  BY BucketIn DEF GoodSet
<1>2. Range(s.buckets[Bucket(size, v)]) = {w \in M : Bucket(size, w) = Bucket(size, v)}
  BY <1>1 DEF GoodSet
<1>3. QED
  BY <1>1, <1>2 DEF SetHas

LEMMA EmptyIs ==
  ASSUME PrimesAssumption, Len(Primes) >= 2, NEW hint \in Nat, hint <= Primes[2]
  PROVE  GoodSet(CreateSetWith(hint), Primes[1], {})
<1> DEFINE I == {j \in 2..Len(Primes) : Primes[j] >= hint}
           size == Primes[1]
           s == [size |-> size, length |-> 0, buckets |-> [b \in 0..(size - 1) |-> <<>>]]
<1>1. Len(Primes) \in Nat /\ 2 \in I /\ I \subseteq Nat /\ \A j \in I : 2 <= j
  BY DEF PrimesAssumption
<1>2. Min(I) = 2
  <2>1. Min(I) \in I /\ \A j \in I : Min(I) <= j
    BY <1>1, LeastOf
  <2>2. Min(I) <= 2 /\ 2 <= Min(I) /\ Min(I) \in Nat
    BY <1>1, <2>1
  <2>3. QED
    BY <2>2
<1>3. CreateSetWith(hint) = s
  <2>1. CreateSetWith(hint) = [size |-> Primes[Min(I) - 1], length |-> 0,
                               buckets |-> [b \in 0..(Primes[Min(I) - 1] - 1) |-> <<>>]]
    BY DEF CreateSetWith
  <2>2. Min(I) - 1 = 1
    BY <1>2
  <2>3. QED
    BY <2>1, <2>2
<1>4. size \in Nat \ {0}
  BY DEF PrimesAssumption
<1> HIDE DEF size
<1>5. <<>> \in Seq(Coord) /\ NoRepeats(<<>>) /\ Range(<<>>) = {}
  BY DEF NoRepeats, Range
<1>6. IsFiniteSet({}) /\ Cardinality({}) = 0
  BY FS_EmptySet
<1>7. s.size = size /\ s.length = 0 /\ \A b \in 0..(size - 1) : s.buckets[b] = <<>>
  OBVIOUS
<1>8. s \in [size : {size}, length : Nat, buckets : [0..(size - 1) -> Seq(Coord)]]
  BY <1>5
<1> HIDE DEF s
<1>9. GoodSet(s, size, {})
  BY <1>4, <1>5, <1>6, <1>7, <1>8 DEF GoodSet
<1>10. QED
  BY <1>3, <1>9 DEF size

(* A value that is not there is chained before the others of its bucket.   *)
Chained(s, size, v) ==
    [size |-> size, length |-> s.length + 1,
     buckets |-> [b \in 0..(size - 1) |->
                     IF b = Bucket(size, v) THEN <<v>> \o s.buckets[b] ELSE s.buckets[b]]]

LEMMA ChainedIs ==
  ASSUME NEW size, NEW M, NEW s, GoodSet(s, size, M), NEW v \in Coord, v \notin M
  PROVE  GoodSet(Chained(s, size, v), size, M \cup {v})
<1> DEFINE t == Chained(s, size, v)
           c == Bucket(size, v)
           N == M \cup {v}
<1>1. /\ size \in Nat \ {0} /\ c \in 0..(size - 1)
      /\ s.buckets \in [0..(size - 1) -> Seq(Coord)] /\ s.length \in Nat
  BY BucketIn DEF GoodSet
<1>2. N \subseteq Coord /\ IsFiniteSet(N) /\ Cardinality(N) = s.length + 1
  BY FS_AddElement DEF GoodSet
<1> HIDE DEF c
<1>3. <<v>> \in Seq(Coord) /\ NoRepeats(<<v>>) /\ Range(<<v>>) = {v}
  BY DEF NoRepeats, Range
<1>4. ASSUME NEW b \in 0..(size - 1)
      PROVE  /\ s.buckets[b] \in Seq(Coord) /\ NoRepeats(s.buckets[b])
             /\ Range(s.buckets[b]) = {w \in M : Bucket(size, w) = b}
  BY <1>1 DEF GoodSet
<1>5. ASSUME NEW b \in 0..(size - 1), b = c
      PROVE  /\ <<v>> \o s.buckets[b] \in Seq(Coord) /\ NoRepeats(<<v>> \o s.buckets[b])
             /\ Range(<<v>> \o s.buckets[b]) = {w \in N : Bucket(size, w) = b}
  <2> DEFINE new == <<v>>
             old == s.buckets[b]
  <2>1. /\ new \in Seq(Coord) /\ NoRepeats(new) /\ old \in Seq(Coord) /\ NoRepeats(old)
        /\ Range(new) \cap Range(old) = {}
    BY <1>3, <1>4
  <2>2. new \o old \in Seq(Coord) /\ NoRepeats(new \o old) /\ Range(new \o old) = Range(new) \cup Range(old)
    <3> HIDE DEF new, old
    <3>1. QED
      BY <2>1, JoinedIs
  <2>3. Range(<<v>>) \cup Range(s.buckets[b]) = {w \in N : Bucket(size, w) = b}
    BY <1>3, <1>4, <1>5 DEF c
  <2>4. QED
    BY <2>2, <2>3
<1>6. ASSUME NEW b \in 0..(size - 1), b # c
      PROVE  Range(s.buckets[b]) = {w \in N : Bucket(size, w) = b}
  BY <1>4, <1>6 DEF c
<1>7. /\ t.size = size /\ t.length = s.length + 1
      /\ \A b \in 0..(size - 1) :
             t.buckets[b] = IF b = c THEN <<v>> \o s.buckets[b] ELSE s.buckets[b]
  BY DEF Chained, c
<1>8. ASSUME NEW b \in 0..(size - 1)
      PROVE  /\ t.buckets[b] \in Seq(Coord) /\ NoRepeats(t.buckets[b])
             /\ Range(t.buckets[b]) = {w \in N : Bucket(size, w) = b}
  <2>1. CASE b = c
    <3>1. t.buckets[b] = <<v>> \o s.buckets[b]
      BY <1>7, <2>1
    <3>2. QED
      BY <1>5, <2>1, <3>1
  <2>2. CASE b # c
    <3>1. t.buckets[b] = s.buckets[b]
      BY <1>7, <2>2
    <3>2. QED
      BY <1>4, <1>6, <2>2, <3>1
  <2>3. QED
    BY <2>1, <2>2
<1>9. t \in [size : {size}, length : Nat, buckets : [0..(size - 1) -> Seq(Coord)]]
  <2>1. t = [size |-> t.size, length |-> t.length, buckets |-> t.buckets]
    BY DEF Chained
  <2>2. t.buckets = [b \in 0..(size - 1) |-> t.buckets[b]]
    BY DEF Chained
  <2> HIDE DEF t
  <2>3. t.buckets \in [0..(size - 1) -> Seq(Coord)]
    BY <1>8, <2>2
  <2>4. t.size = size /\ t.length \in Nat
    BY <1>1, <1>7
  <2>5. QED
    BY <2>1, <2>3, <2>4
<1> HIDE DEF t
<1>10. GoodSet(t, size, N)
  BY <1>1, <1>2, <1>7, <1>8, <1>9 DEF GoodSet
<1>11. QED
  BY <1>10 DEF t

LEMMA PutIs ==
  ASSUME NEW size, NEW M, NEW s, GoodSet(s, size, M), NEW v \in Coord
  PROVE  GoodSet(SetPut(s, v), size, M \cup {v})
<1>1. CASE v \in M
  <2>1. SetPut(s, v) = s /\ M \cup {v} = M
    BY <1>1, HasIs DEF SetPut
  <2>2. QED
    BY <2>1
<1>2. CASE v \notin M
  <2>1. ~SetHas(s, v)
    BY <1>2, HasIs
  <2>2. /\ s = [size |-> size, length |-> s.length, buckets |-> s.buckets]
        /\ s.buckets \in [0..(size - 1) -> Seq(Coord)] /\ s.size = size
    BY DEF GoodSet
  <2>3. SetPut(s, v) = [size |-> size, length |-> s.length + 1,
                        buckets |-> [s.buckets EXCEPT ![Bucket(size, v)] = <<v>> \o @]]
    BY <2>1, <2>2 DEF SetPut
  <2>4. [s.buckets EXCEPT ![Bucket(size, v)] = <<v>> \o @] =
            [b \in 0..(size - 1) |->
                IF b = Bucket(size, v) THEN <<v>> \o s.buckets[b] ELSE s.buckets[b]]
    BY <2>2
  <2>5. SetPut(s, v) = Chained(s, size, v)
    BY <2>3, <2>4 DEF Chained
  <2>6. QED
    BY <1>2, <2>5, ChainedIs
<1>3. QED
  BY <1>1, <1>2

(* The algebra writes at the operand's index, which is the result's own.   *)
LEMMA CopiedIs ==
  ASSUME NEW size, NEW M, NEW s, GoodSet(s, size, M), NEW v \in Coord, v \notin M,
         NEW c, c.index = Bucket(size, v), c.value = v
  PROVE  GoodSet(Copied(s, c), size, M \cup {v})
<1> DEFINE k == Bucket(size, v)
<1>1. /\ s = [size |-> size, length |-> s.length, buckets |-> s.buckets]
      /\ s.buckets \in [0..(size - 1) -> Seq(Coord)] /\ s.size = size
      /\ k \in 0..(size - 1)
  BY BucketIn DEF GoodSet
<1>0. c.index = k /\ c.value = v /\ Bucket(s.size, c.value) = k
  BY <1>1
<1> HIDE DEF k
<1> DEFINE chain == <<v>> \o s.buckets[k]
<1>2. Copied(s, c) = [size |-> size, length |-> s.length + 1,
                      buckets |-> [b \in DOMAIN s.buckets \cup {k} |->
                                      IF b = k THEN chain ELSE s.buckets[b]]]
  <2>1. Copied(s, c) = [s EXCEPT !.buckets = [b \in DOMAIN @ \cup {k} |-> IF b = k THEN chain ELSE @[b]],
                                 !.length = @ + 1]
    BY <1>0 DEF Copied
  <2> HIDE DEF chain
  <2>2. QED
    BY <1>1, <2>1
<1>3. [b \in DOMAIN s.buckets \cup {k} |-> IF b = k THEN <<v>> \o s.buckets[k] ELSE s.buckets[b]] =
          [b \in 0..(size - 1) |-> IF b = k THEN <<v>> \o s.buckets[b] ELSE s.buckets[b]]
  BY <1>1
<1>4. Copied(s, c) = Chained(s, size, v)
  BY <1>2, <1>3 DEF Chained, k
<1>5. QED
  BY <1>4, ChainedIs

(* After a deletion the value is not found.                                *)
LEMMA DeletedIs ==
  ASSUME NEW size, NEW M, NEW s, GoodSet(s, size, M), NEW v \in M
  PROVE  ~SetHas(SetDelete(s, v), v)
<1> DEFINE k == Bucket(size, v)
           chain == s.buckets[k]
           I == {i \in 1..Len(chain) : chain[i] = v}
           i == IF I # {} THEN Min(I) ELSE 0
           rest == RemoveAt(chain, i)
<1>1. /\ v \in Coord /\ SetHas(s, v) /\ s.size = size
      /\ s = [size |-> size, length |-> s.length, buckets |-> s.buckets]
      /\ s.buckets \in [0..(size - 1) -> Seq(Coord)]
  BY HasIs DEF GoodSet
<1>2. k \in 0..(size - 1)
  BY <1>1, BucketIn DEF GoodSet
<1>3. chain \in Seq(Coord) /\ NoRepeats(chain) /\ v \in Range(chain)
  BY <1>1, <1>2 DEF GoodSet
<1>4. SetDelete(s, v) = [size |-> size, length |-> s.length - 1,
                         buckets |-> [s.buckets EXCEPT ![k] = rest]]
  BY <1>1 DEF SetDelete, SelectInSeq
<1> HIDE DEF k, chain, rest
<1>5. SetDelete(s, v).size = size /\ SetDelete(s, v).buckets[k] = rest
  <2> DEFINE buckets == [s.buckets EXCEPT ![k] = rest]
  <2>1. buckets[k] = rest
    BY <1>1, <1>2
  <2> HIDE DEF buckets
  <2>2. SetDelete(s, v) = [size |-> size, length |-> s.length - 1, buckets |-> buckets]
    BY <1>4 DEF buckets
  <2>3. SetDelete(s, v).size = size /\ SetDelete(s, v).buckets = buckets
    BY <2>2
  <2>4. QED
    BY <2>1, <2>3
<1>6. Len(chain) \in Nat /\ I \subseteq 1..Len(chain) /\ I # {} /\ DOMAIN chain = 1..Len(chain)
  BY <1>3 DEF Range
<1>7. i \in 1..Len(chain) /\ chain[i] = v
  <2>1. i \in I
    <3> HIDE DEF I
    <3>1. QED
      BY <1>6, Selected
  <2>2. QED
    BY <2>1
<1> HIDE DEF I, i
<1>8. /\ rest \in Seq(Coord) /\ Len(rest) = Len(chain) - 1
      /\ \A j \in 1..(Len(chain) - 1) : rest[j] = IF j < i THEN chain[j] ELSE chain[j + 1]
  BY <1>3, <1>7, Removed DEF rest
<1>9. v \notin Range(rest)
  <2> SUFFICES ASSUME NEW j \in 1..(Len(chain) - 1), rest[j] = v PROVE FALSE
    BY <1>8 DEF Range
  <2>1. CASE j < i
    <3>1. j \in 1..Len(chain) /\ chain[j] = v /\ j # i
      BY <1>6, <1>7, <1>8, <2>1
    <3>2. QED
      BY <1>3, <1>7, <3>1 DEF NoRepeats
  <2>2. CASE ~(j < i)
    <3>1. j + 1 \in 1..Len(chain) /\ chain[j + 1] = v /\ j + 1 # i
      BY <1>6, <1>7, <1>8, <2>2
    <3>2. QED
      BY <1>3, <1>7, <3>1 DEF NoRepeats
  <2>3. QED
    BY <2>1, <2>2
<1>10. QED
  BY <1>5, <1>9 DEF SetHas, k

(* A loop over the buckets meets every value once, with its index.         *)
Cell == [index : Nat, value : Coord]
CellsOf(size, V) == {[index |-> Bucket(size, v), value |-> v] : v \in V}
Below(size, M, n) == {v \in M : Bucket(size, v) < n}

LEMMA RowIs ==
  ASSUME NEW size, NEW M, NEW s, GoodSet(s, size, M), NEW b \in 0..(size - 1)
  PROVE  LET row == [i \in 1..Len(s.buckets[b]) |-> [index |-> b, value |-> s.buckets[b][i]]] IN
         /\ row \in Seq(Cell)
         /\ NoRepeats(row)
         /\ Range(row) = CellsOf(size, {v \in M : Bucket(size, v) = b})
<1> DEFINE chain == s.buckets[b]
           V == {v \in M : Bucket(size, v) = b}
           row == [i \in 1..Len(chain) |-> [index |-> b, value |-> chain[i]]]
<1>1. /\ b \in Nat /\ chain \in Seq(Coord) /\ NoRepeats(chain) /\ Range(chain) = V
  BY DEF GoodSet
<1>2. \A v \in V : Bucket(size, v) = b
  OBVIOUS
<1> HIDE DEF chain, V
<1>3. Len(chain) \in Nat /\ DOMAIN chain = 1..Len(chain) /\ \A i \in 1..Len(chain) : chain[i] \in Coord
  BY <1>1
<1>4. row \in Seq(Cell) /\ Len(row) = Len(chain) /\ DOMAIN row = 1..Len(chain)
      /\ \A i \in 1..Len(chain) : row[i] = [index |-> b, value |-> chain[i]]
  BY <1>1, <1>3 DEF Cell
<1> HIDE DEF row
<1>5. NoRepeats(row)
  <2> SUFFICES ASSUME NEW i \in 1..Len(chain), NEW j \in 1..Len(chain), row[i] = row[j] PROVE i = j
    BY <1>4 DEF NoRepeats
  <2>1. row[i].value = chain[i] /\ row[j].value = chain[j]
    BY <1>4
  <2>2. QED
    BY <1>1, <2>1 DEF NoRepeats
<1>6. ASSUME NEW c \in Range(row) PROVE c \in CellsOf(size, V)
  <2>1. PICK i \in 1..Len(chain) : c = [index |-> b, value |-> chain[i]]
    BY <1>4 DEF Range
  <2>2. chain[i] \in V
    BY <1>1, <1>3 DEF Range
  <2>3. QED
    BY <1>2, <2>1, <2>2 DEF CellsOf
<1>7. ASSUME NEW c \in CellsOf(size, V) PROVE c \in Range(row)
  <2>1. PICK v \in V : c = [index |-> b, value |-> v]
    BY <1>2 DEF CellsOf
  <2>2. PICK i \in 1..Len(chain) : chain[i] = v
    BY <1>1, <1>3 DEF Range
  <2>3. QED
    BY <1>4, <2>1, <2>2 DEF Range
<1>8. QED
  BY <1>4, <1>5, <1>6, <1>7 DEF row, chain, V

LEMMA CellsIs ==
  ASSUME NEW size, NEW M, NEW s, GoodSet(s, size, M)
  PROVE  /\ Cells(s) \in Seq(Cell)
         /\ NoRepeats(Cells(s))
         /\ Range(Cells(s)) = CellsOf(size, M)
<1> DEFINE rows == [b \in 1..size |->
                       [i \in 1..Len(s.buckets[b - 1]) |->
                           [index |-> b - 1, value |-> s.buckets[b - 1][i]]]]
           V(b) == {v \in M : Bucket(size, v) = b}
<1>1. size \in Nat \ {0} /\ s.size = size /\ M \subseteq Coord
  BY DEF GoodSet
<1>2. Cells(s) = FlattenSeq(rows)
  BY <1>1 DEF Cells
<1>3. ASSUME NEW b \in 1..size
      PROVE  rows[b] \in Seq(Cell) /\ NoRepeats(rows[b]) /\ Range(rows[b]) = CellsOf(size, V(b - 1))
  <2> DEFINE c == b - 1
             row == [i \in 1..Len(s.buckets[c]) |-> [index |-> c, value |-> s.buckets[c][i]]]
  <2>1. c \in 0..(size - 1)
    BY <1>1
  <2>2. rows[b] = row
    OBVIOUS
  <2> HIDE DEF c, rows
  <2>3. row \in Seq(Cell) /\ NoRepeats(row) /\ Range(row) = CellsOf(size, V(c))
    BY <2>1, RowIs
  <2>4. QED
    BY <2>2, <2>3 DEF c
<1>4. rows \in Seq(Seq(Cell)) /\ Len(rows) = size
  <2>1. rows = [b \in 1..size |-> rows[b]]
    OBVIOUS
  <2> HIDE DEF rows
  <2>2. rows \in [1..size -> Seq(Cell)]
    BY <1>3, <2>1
  <2>3. QED
    BY <1>1, <2>2
<1> HIDE DEF rows
<1>5. PICK f : Flat(f, rows, Cell)
  BY <1>4, FlattenIs
<1>6. /\ f[0] = <<>> /\ FlattenSeq(rows) = f[size]
      /\ \A b \in 1..size : f[b] = f[b - 1] \o rows[b]
      /\ \A b \in 0..size : f[b] \in Seq(Cell)
  BY <1>4, <1>5 DEF Flat
<1> DEFINE Met(n) == NoRepeats(f[n]) /\ Range(f[n]) = CellsOf(size, Below(size, M, n))
           S == {n \in Nat : n <= size => Met(n)}
<1>7. 0 \in S
  <2>1. NoRepeats(<<>>) /\ Range(<<>>) = {}
    BY DEF NoRepeats, Range
  <2>2. Below(size, M, 0) = {}
    BY <1>1, BucketIn DEF Below
  <2>3. CellsOf(size, {}) = {}
    BY DEF CellsOf
  <2>4. QED
    BY <1>6, <2>1, <2>2, <2>3
<1>8. ASSUME NEW n \in S PROVE n + 1 \in S
  <2> SUFFICES ASSUME n + 1 <= size PROVE Met(n + 1)
    OBVIOUS
  <2>1. n \in Nat /\ n \in 0..size /\ n + 1 \in 1..size /\ (n + 1) - 1 = n
    BY <1>1
  <2>2. Met(n)
    BY <1>1, <2>1
  <2> DEFINE row == rows[n + 1]
             done == f[n]
  <2>3. f[n + 1] = done \o row
    BY <1>6, <2>1
  <2>4. row \in Seq(Cell) /\ NoRepeats(row) /\ Range(row) = CellsOf(size, V(n))
    BY <1>3, <2>1
  <2>5. /\ done \in Seq(Cell) /\ NoRepeats(done)
        /\ Range(done) = CellsOf(size, Below(size, M, n))
    BY <1>6, <2>1, <2>2
  <2> HIDE DEF row, done
  <2>6. \A v \in M : Bucket(size, v) \in Nat
    BY <1>1, BucketIn
  <2>7. Range(done) \cap Range(row) = {}
    <3> SUFFICES ASSUME NEW c \in Range(done), c \in Range(row) PROVE FALSE
      OBVIOUS
    <3>1. PICK v \in Below(size, M, n) : c = [index |-> Bucket(size, v), value |-> v]
      BY <2>5 DEF CellsOf
    <3>2. PICK w \in V(n) : c = [index |-> Bucket(size, w), value |-> w]
      BY <2>4 DEF CellsOf
    <3>3. Bucket(size, v) < n /\ Bucket(size, w) = n
      BY DEF Below
    <3>4. c.index = Bucket(size, v) /\ c.index = Bucket(size, w)
      BY <3>1, <3>2
    <3>5. QED
      BY <2>1, <3>3, <3>4
  <2>8. NoRepeats(done \o row) /\ Range(done \o row) = Range(done) \cup Range(row)
    <3>1. row \in Seq(Cell) /\ NoRepeats(row) /\ done \in Seq(Cell) /\ NoRepeats(done)
      BY <2>4, <2>5
    <3>2. QED
      BY <2>7, <3>1, JoinedIs
  <2>9. Below(size, M, n + 1) = Below(size, M, n) \cup V(n)
    BY <2>1, <2>6 DEF Below
  <2>10. CellsOf(size, Below(size, M, n) \cup V(n)) = CellsOf(size, Below(size, M, n)) \cup CellsOf(size, V(n))
    BY DEF CellsOf
  <2>11. QED
    BY <2>3, <2>4, <2>5, <2>8, <2>9, <2>10
<1>9. S = Nat
  <2> HIDE DEF S
  <2>1. S \subseteq Nat
    BY DEF S
  <2>2. QED
    BY <1>7, <1>8, <2>1, InductiveSet
<1>10. Met(size)
  <2>1. size \in S /\ size <= size
    BY <1>1, <1>9
  <2>2. QED
    BY <2>1
<1>11. Below(size, M, size) = M
  BY <1>1, BucketIn DEF Below
<1>12. size \in 0..size
  BY <1>1
<1>13. QED
  BY <1>2, <1>6, <1>10, <1>11, <1>12

LEMMA ArrayIs ==
  ASSUME NEW size, NEW M, NEW s, GoodSet(s, size, M)
  PROVE  /\ SetToArray(s) \in Seq(Coord)
         /\ Range(SetToArray(s)) = M
         /\ Len(SetToArray(s)) = s.length
         /\ At(s) = M
<1> DEFINE cells == Cells(s)
           array == [i \in 1..Len(cells) |-> cells[i].value]
<1>1. cells \in Seq(Cell) /\ NoRepeats(cells) /\ Range(cells) = CellsOf(size, M)
  BY CellsIs
<1>2. SetToArray(s) = array /\ At(s) = {c.value : c \in Range(cells)}
  BY DEF SetToArray, At
<1> HIDE DEF cells
<1>3. /\ Len(cells) \in Nat /\ DOMAIN cells = 1..Len(cells)
      /\ \A i \in 1..Len(cells) : cells[i].value \in Coord /\ cells[i] \in CellsOf(size, M)
  <2>1. Len(cells) \in Nat /\ DOMAIN cells = 1..Len(cells) /\ \A i \in 1..Len(cells) : cells[i] \in Cell
    BY <1>1
  <2>2. \A c \in Cell : c.value \in Coord
    BY DEF Cell
  <2>3. \A i \in 1..Len(cells) : cells[i] \in Range(cells)
    BY <2>1 DEF Range
  <2>4. QED
    BY <1>1, <2>1, <2>2, <2>3
<1>4. /\ array \in Seq(Coord) /\ Len(array) = Len(cells) /\ DOMAIN array = 1..Len(cells)
      /\ \A i \in 1..Len(cells) : array[i] = cells[i].value
  BY <1>3
<1> HIDE DEF array
<1>5. \A c \in CellsOf(size, M) : c.value \in M /\ c = [index |-> Bucket(size, c.value), value |-> c.value]
  BY DEF CellsOf
<1>6. At(s) = M
  <2>1. ASSUME NEW v \in M PROVE v \in At(s)
    <3> DEFINE c == [index |-> Bucket(size, v), value |-> v]
    <3>1. c \in CellsOf(size, M) /\ c.value = v
      BY DEF CellsOf
    <3> HIDE DEF c
    <3>2. QED
      BY <1>1, <1>2, <3>1
  <2>2. QED
    BY <1>1, <1>2, <1>5, <2>1
<1>7. Range(array) = At(s)
  BY <1>2, <1>3, <1>4 DEF Range
<1>8. NoRepeats(array)
  <2> SUFFICES ASSUME NEW i \in 1..Len(cells), NEW j \in 1..Len(cells), array[i] = array[j] PROVE i = j
    BY <1>4 DEF NoRepeats
  <2>1. cells[i] = cells[j]
    BY <1>3, <1>4, <1>5
  <2>2. QED
    BY <1>1, <2>1 DEF NoRepeats
<1>9. Cardinality(M) = Len(array)
  BY <1>4, <1>6, <1>7, <1>8, LengthIs
<1>10. QED
  BY <1>2, <1>4, <1>6, <1>7, <1>9 DEF GoodSet

(* A function defined along 1..n by steps that lead from set to set.       *)
Leads(Inv, next, n) == \A i \in 1..n : \A r \in Inv[i - 1] : next[<<r, i>>] \in Inv[i]

Led(f, Inv, a, next, n) ==
  /\ f[0] = a
  /\ \A i \in 1..n : f[i - 1] \in Inv[i - 1] /\ f[i] = next[<<f[i - 1], i>>]

LEMMA Reached ==
  ASSUME NEW n \in Nat, NEW Inv, NEW g, g[0] \in Inv[0],
         \A i \in 1..n : g[i - 1] \in Inv[i - 1] => g[i] \in Inv[i]
  PROVE  \A i \in 0..n : g[i] \in Inv[i]
<1> DEFINE S == {i \in Nat : i <= n => g[i] \in Inv[i]}
<1>1. 0 \in S
  OBVIOUS
<1>2. ASSUME NEW i \in S PROVE i + 1 \in S
  <2> SUFFICES ASSUME i + 1 <= n PROVE g[i + 1] \in Inv[i + 1]
    OBVIOUS
  <2>1. i + 1 \in 1..n /\ (i + 1) - 1 = i /\ g[i] \in Inv[i]
    OBVIOUS
  <2>2. QED
    BY <2>1
<1>3. S = Nat
  <2> HIDE DEF S
  <2>1. S \subseteq Nat
    BY DEF S
  <2>2. QED
    BY <1>1, <1>2, <2>1, InductiveSet
<1>4. ASSUME NEW i \in 0..n PROVE g[i] \in Inv[i]
  <2>1. i \in S /\ i <= n
    BY <1>3
  <2>2. QED
    BY <2>1
<1>5. QED
  BY <1>4

LEMMA LedThere ==
  ASSUME NEW n \in Nat, NEW Inv, NEW a \in Inv[0], NEW next, Leads(Inv, next, n)
  PROVE  \E f : Led(f, Inv, a, next, n)
<1> DEFINE D == UNION {Inv[i] : i \in 0..n}
           step == [p \in D \X (1..n) |-> IF next[p] \in D THEN next[p] ELSE p[1]]
<1>1. \A i \in 0..n : Inv[i] \subseteq D
  OBVIOUS
<1> HIDE DEF D
<1>2. step \in [D \X (1..n) -> D]
  OBVIOUS
<1>3. a \in D
  BY <1>1
<1> HIDE DEF step
<1>4. PICK f : Walks(f, D, a, n, step)
  BY <1>2, <1>3, Recursion
<1>5. ASSUME NEW i \in 1..n, f[i - 1] \in Inv[i - 1]
      PROVE  f[i] = next[<<f[i - 1], i>>] /\ f[i] \in Inv[i]
  <2> DEFINE r == f[i - 1]
  <2>1. i - 1 \in 0..n /\ i \in 0..n
    OBVIOUS
  <2>2. next[<<r, i>>] \in Inv[i] /\ r \in D
    BY <1>1, <1>5, <2>1 DEF Leads
  <2>3. f[i] = step[<<r, i>>]
    BY <1>4 DEF Walks
  <2> HIDE DEF r
  <2>4. <<r, i>> \in D \X (1..n) /\ next[<<r, i>>] \in D
    BY <1>1, <2>1, <2>2
  <2>5. step[<<r, i>>] = next[<<r, i>>]
    BY <2>4 DEF step
  <2>6. QED
    BY <2>2, <2>3, <2>5 DEF r
<1>6. f[0] \in Inv[0] /\ f[0] = a
  BY <1>4 DEF Walks
<1>7. \A i \in 0..n : f[i] \in Inv[i]
  BY <1>5, <1>6, Reached
<1>8. QED
  <2>1. \A i \in 1..n : i - 1 \in 0..n
    OBVIOUS
  <2>2. QED
    BY <1>5, <1>6, <1>7, <2>1 DEF Led

Tables(size) == [size : {size}, length : Nat, buckets : [0..(size - 1) -> Seq(Coord)]]

LEMMA AddedIs ==
  ASSUME NEW size, NEW M, NEW s, GoodSet(s, size, M), NEW M0, NEW result, GoodSet(result, size, M0),
         NEW chosen, chosen \cap M \cap M0 = {}
  PROVE  GoodSet(AddTo(result, s, chosen), size, M0 \cup (M \cap chosen))
<1> DEFINE cells == Cells(s)
           n == Len(cells)
           N(i) == M0 \cup {v \in M \cap chosen : \E j \in 1..i : cells[j].value = v}
           Inv == [i \in 0..n |-> {t \in Tables(size) : GoodSet(t, size, N(i))}]
           D == UNION {Inv[i] : i \in 0..n}
           Step(r, i) == IF cells[i].value \in chosen THEN Copied(r, cells[i]) ELSE r
           next == [p \in D \X (1..n) |-> Step(p[1], p[2])]
           Reads(g) == g = [i \in 0..n |-> IF i = 0 THEN result
                                           ELSE IF cells[i].value \in chosen
                                                THEN Copied(g[i - 1], cells[i]) ELSE g[i - 1]]
           added == CHOOSE g : Reads(g)
<1>1. /\ cells \in Seq(Cell) /\ NoRepeats(cells) /\ Range(cells) = CellsOf(size, M)
  BY CellsIs
<1>2. AddTo(result, s, chosen) = added[n]
  BY DEF AddTo
<1>3. M \subseteq Coord
  BY DEF GoodSet
<1> HIDE DEF cells
<1>4. /\ n \in Nat
      /\ \A i \in 1..n : /\ cells[i].value \in M
                         /\ cells[i] = [index |-> Bucket(size, cells[i].value), value |-> cells[i].value]
      /\ \A v \in M : \E i \in 1..n : cells[i].value = v
  <2>1. n \in Nat /\ DOMAIN cells = 1..n
    BY <1>1
  <2>2. ASSUME NEW i \in 1..n
        PROVE  /\ cells[i].value \in M
               /\ cells[i] = [index |-> Bucket(size, cells[i].value), value |-> cells[i].value]
    <3>1. cells[i] \in CellsOf(size, M)
      BY <1>1, <2>1 DEF Range
    <3>2. QED
      BY <3>1 DEF CellsOf
  <2>3. ASSUME NEW v \in M PROVE \E i \in 1..n : cells[i].value = v
    <3> DEFINE c == [index |-> Bucket(size, v), value |-> v]
    <3>1. c \in CellsOf(size, M) /\ c.value = v
      BY DEF CellsOf
    <3> HIDE DEF c
    <3>2. PICK i \in 1..n : cells[i] = c
      BY <1>1, <2>1, <3>1 DEF Range
    <3>3. QED
      BY <3>1, <3>2
  <2>4. QED
    BY <2>1, <2>2, <2>3
<1>5. ASSUME NEW i \in 1..n, NEW j \in 1..n, cells[i].value = cells[j].value PROVE i = j
  <2>1. cells[i] = cells[j]
    BY <1>4, <1>5
  <2>2. QED
    BY <1>1, <2>1 DEF NoRepeats
<1> HIDE DEF n
<1>6. \A t, K : GoodSet(t, size, K) => t \in Tables(size)
  BY DEF GoodSet, Tables
<1>7. result \in Inv[0]
  <2>1. N(0) = M0 /\ 0 \in 0..n
    BY <1>4
  <2>2. QED
    BY <1>6, <2>1
<1>8. ASSUME NEW i \in 1..n, NEW r \in Inv[i - 1] PROVE Step(r, i) \in Inv[i]
  <2>1. i - 1 \in 0..n /\ i \in 0..n /\ i \in 1..i /\ \A j \in 1..i : j = i \/ j \in 1..(i - 1)
    BY <1>4
  <2>2. GoodSet(r, size, N(i - 1))
    BY <2>1
  <2> DEFINE v == cells[i].value
  <2>3. v \in M /\ v \in Coord /\ cells[i].index = Bucket(size, v)
    <3>1. v \in M /\ cells[i] = [index |-> Bucket(size, v), value |-> v]
      BY <1>4
    <3> HIDE DEF v
    <3>2. QED
      BY <1>3, <3>1
  <2>4. CASE v \in chosen
    <3>1. v \notin N(i - 1)
      <4>1. v \notin M0
        BY <2>3, <2>4
      <4>2. \A j \in 1..(i - 1) : j \in 1..n /\ j # i
        BY <1>4
      <4>3. \A j \in 1..(i - 1) : cells[j].value # v
        BY <1>5, <4>2
      <4>4. QED
        BY <4>1, <4>3
    <3>2. N(i) = N(i - 1) \cup {v}
      <4>1. \A w : (\E j \in 1..i : cells[j].value = w) <=> w = v \/ \E j \in 1..(i - 1) : cells[j].value = w
        BY <2>1
      <4>2. QED
        BY <2>3, <2>4, <4>1
    <3>3. GoodSet(Copied(r, cells[i]), size, N(i))
      <4> HIDE DEF N, v
      <4>1. cells[i].value = v
        BY DEF v
      <4>2. GoodSet(Copied(r, cells[i]), size, N(i - 1) \cup {v})
        BY <2>2, <2>3, <3>1, <4>1, CopiedIs
      <4>3. QED
        BY <3>2, <4>2
    <3>4. QED
      BY <1>6, <2>1, <2>4, <3>3
  <2>5. CASE v \notin chosen
    <3>1. N(i) = N(i - 1)
      BY <2>1, <2>5
    <3>2. Step(r, i) = r
      BY <2>5
    <3>3. QED
      BY <1>6, <2>1, <2>2, <3>1, <3>2
  <2>6. QED
    BY <2>4, <2>5
<1>9. \A i \in 1..n : \A r \in Inv[i - 1] : next[<<r, i>>] = Step(r, i)
  <2> SUFFICES ASSUME NEW i \in 1..n, NEW r \in Inv[i - 1] PROVE next[<<r, i>>] = Step(r, i)
    OBVIOUS
  <2>1. i - 1 \in 0..n
    BY <1>4
  <2> HIDE DEF Inv
  <2>2. r \in D
    BY <2>1
  <2> HIDE DEF D, Step
  <2>3. QED
    BY <2>2
<1> HIDE DEF Inv, D, next
<1>10. PICK f : Led(f, Inv, result, next, n)
  <2>1. Leads(Inv, next, n)
    <3> HIDE DEF Step
    <3>1. QED
      BY <1>8, <1>9 DEF Leads
  <2>2. QED
    BY <1>4, <1>7, <2>1, LedThere
<1> DEFINE place == [i \in 0..n |-> f[i]]
<1>11. Reads(place)
  <2>1. place[0] = result /\ \A i \in 1..n : place[i] = Step(place[i - 1], i)
    <3>1. 0 \in 0..n /\ \A i \in 1..n : i \in 0..n /\ i - 1 \in 0..n
      BY <1>4
    <3>2. \A i \in 1..n : f[i] = Step(f[i - 1], i)
      BY <1>9, <1>10 DEF Led
    <3>3. QED
      BY <1>10, <3>1, <3>2 DEF Led
  <2>2. \A i \in 0..n : i = 0 \/ i \in 1..n
    BY <1>4
  <2>3. place = [i \in 0..n |-> place[i]]
    OBVIOUS
  <2> HIDE DEF place
  <2>4. QED
    BY <2>1, <2>2, <2>3
<1> HIDE DEF place
<1>12. Reads(added)
  BY <1>11
<1> HIDE DEF added
<1>13. added[0] = result /\ \A i \in 1..n : added[i] = Step(added[i - 1], i)
  <2>1. 0 \in 0..n /\ \A i \in 1..n : i \in 0..n /\ i # 0
    BY <1>4
  <2>2. QED
    BY <1>12, <2>1
<1>14. \A i \in 0..n : added[i] \in Inv[i]
  <2> HIDE DEF Step, Reads
  <2>1. QED
    BY <1>4, <1>7, <1>8, <1>13, Reached
<1>15. GoodSet(added[n], size, N(n))
  <2>1. n \in 0..n
    BY <1>4
  <2>2. QED
    BY <1>14, <2>1 DEF Inv
<1>16. N(n) = M0 \cup (M \cap chosen)
  BY <1>4
<1>17. QED
  BY <1>2, <1>15, <1>16

LEMMA AllPut ==
  ASSUME NEW size, NEW M, NEW s, GoodSet(s, size, M), NEW values \in Seq(Coord), NEW wanted
  PROVE  GoodSet(PutAll(s, values, wanted), size, M \cup (Range(values) \cap wanted))
<1> DEFINE n == Len(values)
           N(i) == M \cup {v \in Range(values) \cap wanted : \E j \in 1..i : values[j] = v}
           Inv == [i \in 0..n |-> {t \in Tables(size) : GoodSet(t, size, N(i))}]
           D == UNION {Inv[i] : i \in 0..n}
           Step(r, i) == IF values[i] \in wanted THEN SetPut(r, values[i]) ELSE r
           next == [p \in D \X (1..n) |-> Step(p[1], p[2])]
           Reads(g) == g = [i \in 0..n |-> IF i = 0 THEN s
                                           ELSE IF values[i] \in wanted
                                                THEN SetPut(g[i - 1], values[i]) ELSE g[i - 1]]
           put == CHOOSE g : Reads(g)
<1>1. PutAll(s, values, wanted) = put[n]
  BY DEF PutAll
<1>2. /\ n \in Nat /\ DOMAIN values = 1..n
      /\ \A i \in 1..n : values[i] \in Coord /\ values[i] \in Range(values)
  BY DEF Range
<1>3. \A v \in Range(values) : \E i \in 1..n : values[i] = v
  BY <1>2 DEF Range
<1> HIDE DEF n
<1>6. \A t, K : GoodSet(t, size, K) => t \in Tables(size)
  BY DEF GoodSet, Tables
<1>7. s \in Inv[0]
  <2>1. N(0) = M /\ 0 \in 0..n
    BY <1>2
  <2>2. QED
    BY <1>6, <2>1
<1>8. ASSUME NEW i \in 1..n, NEW r \in Inv[i - 1] PROVE Step(r, i) \in Inv[i]
  <2>1. i - 1 \in 0..n /\ i \in 0..n /\ i \in 1..i /\ \A j \in 1..i : j = i \/ j \in 1..(i - 1)
    BY <1>2
  <2>2. GoodSet(r, size, N(i - 1))
    BY <2>1
  <2> DEFINE v == values[i]
  <2>3. v \in Coord /\ v \in Range(values)
    BY <1>2
  <2>4. CASE v \in wanted
    <3>1. N(i) = N(i - 1) \cup {v}
      <4>1. \A w : (\E j \in 1..i : values[j] = w) <=> w = v \/ \E j \in 1..(i - 1) : values[j] = w
        BY <2>1
      <4>2. QED
        BY <2>3, <2>4, <4>1
    <3>2. GoodSet(SetPut(r, v), size, N(i))
      <4> HIDE DEF N, v
      <4>1. GoodSet(SetPut(r, v), size, N(i - 1) \cup {v})
        BY <2>2, <2>3, PutIs
      <4>2. QED
        BY <3>1, <4>1
    <3>3. QED
      BY <1>6, <2>1, <2>4, <3>2
  <2>5. CASE v \notin wanted
    <3>1. N(i) = N(i - 1)
      <4>1. \A w \in wanted : (\E j \in 1..i : values[j] = w) <=> \E j \in 1..(i - 1) : values[j] = w
        BY <2>1, <2>5
      <4>2. QED
        BY <4>1
    <3>2. Step(r, i) = r
      BY <2>5
    <3>3. QED
      BY <1>6, <2>1, <2>2, <3>1, <3>2
  <2>6. QED
    BY <2>4, <2>5
<1>9. \A i \in 1..n : \A r \in Inv[i - 1] : next[<<r, i>>] = Step(r, i)
  <2> SUFFICES ASSUME NEW i \in 1..n, NEW r \in Inv[i - 1] PROVE next[<<r, i>>] = Step(r, i)
    OBVIOUS
  <2>1. i - 1 \in 0..n
    BY <1>2
  <2> HIDE DEF Inv
  <2>2. r \in D
    BY <2>1
  <2> HIDE DEF D, Step
  <2>3. QED
    BY <2>2
<1> HIDE DEF Inv, D, next
<1>10. PICK f : Led(f, Inv, s, next, n)
  <2>1. Leads(Inv, next, n)
    <3> HIDE DEF Step
    <3>1. QED
      BY <1>8, <1>9 DEF Leads
  <2>2. QED
    BY <1>2, <1>7, <2>1, LedThere
<1> DEFINE place == [i \in 0..n |-> f[i]]
<1>11. Reads(place)
  <2>1. place[0] = s /\ \A i \in 1..n : place[i] = Step(place[i - 1], i)
    <3>1. 0 \in 0..n /\ \A i \in 1..n : i \in 0..n /\ i - 1 \in 0..n
      BY <1>2
    <3>2. \A i \in 1..n : f[i] = Step(f[i - 1], i)
      BY <1>9, <1>10 DEF Led
    <3>3. QED
      BY <1>10, <3>1, <3>2 DEF Led
  <2>2. \A i \in 0..n : i = 0 \/ i \in 1..n
    BY <1>2
  <2>3. place = [i \in 0..n |-> place[i]]
    OBVIOUS
  <2> HIDE DEF place
  <2>4. QED
    BY <2>1, <2>2, <2>3
<1> HIDE DEF place
<1>12. Reads(put)
  BY <1>11
<1> HIDE DEF put
<1>13. put[0] = s /\ \A i \in 1..n : put[i] = Step(put[i - 1], i)
  <2>1. 0 \in 0..n /\ \A i \in 1..n : i \in 0..n /\ i # 0
    BY <1>2
  <2>2. QED
    BY <1>12, <2>1
<1>14. \A i \in 0..n : put[i] \in Inv[i]
  <2> HIDE DEF Step, Reads
  <2>1. QED
    BY <1>2, <1>7, <1>8, <1>13, Reached
<1>15. GoodSet(put[n], size, N(n))
  <2>1. n \in 0..n
    BY <1>2
  <2>2. QED
    BY <1>14, <2>1 DEF Inv
<1>16. N(n) = M \cup (Range(values) \cap wanted)
  BY <1>3
<1>17. QED
  BY <1>1, <1>15, <1>16

LEMMA PromiseKept ==
  ASSUME NEW size, NEW M, NEW s, GoodSet(s, size, M)
  PROVE  IsSetOf(s, M)
<1>1. At(s) = M /\ Len(SetToArray(s)) = s.length
  BY ArrayIs
<1>2. /\ DOMAIN s.buckets = 0..(s.size - 1) /\ s.length = Cardinality(M) /\ M \subseteq Coord
  BY DEF GoodSet
<1>3. \A v \in M : SetHas(s, v) /\ ~SetHas(SetDelete(s, v), v)
  BY <1>2, HasIs, DeletedIs
<1>4. QED
  BY <1>1, <1>2, <1>3 DEF IsSetOf

(* The sets of the base plugin are all of the smallest size.               *)
Small(s, M) == GoodSet(s, Primes[1], M)

LEMMA SmallIs ==
  ASSUME ViewAssumption, PrimesAssumption, NEW hint \in {ChunksHint, Primes[1]}
  PROVE  Small(CreateSetWith(hint), {})
<1>1. Len(Primes) \in Nat /\ 1 \in 1..Len(Primes) /\ 2 \in 1..Len(Primes)
  BY DEF ViewAssumption, PrimesAssumption
<1>2. Primes[1] \in Nat /\ Primes[2] \in Nat /\ Primes[1] < Primes[2]
  BY <1>1 DEF PrimesAssumption
<1>3. hint \in Nat /\ hint <= Primes[2]
  BY <1>2 DEF ViewAssumption
<1>4. QED
  BY <1>3, EmptyIs DEF Small, ViewAssumption

LEMMA MissingIs ==
  ASSUME NEW a, NEW b, NEW A, NEW B, Small(a, A), Small(b, B)
  PROVE  Missing(a, b) = A \ B
<1>1. At(a) = A
  BY ArrayIs DEF Small
<1>2. A \subseteq Coord
  BY DEF Small, GoodSet
<1>3. \A v \in A : SetHas(b, v) <=> v \in B
  BY <1>2, HasIs DEF Small
<1>4. QED
  BY <1>1, <1>3 DEF Missing

LEMMA MinusIs ==
  ASSUME ViewAssumption, PrimesAssumption,
         NEW a, NEW b, NEW A, NEW B, Small(a, A), Small(b, B)
  PROVE  Small(SetMinus(a, b), A \ B)
<1>1. Smaller(a, b) = Primes[1]
  BY DEF Smaller, Small, GoodSet
<1>2. Small(CreateSetWith(Primes[1]), {})
  BY SmallIs
<1>3. Missing(a, b) = A \ B
  BY MissingIs
<1>4. Small(AddTo(CreateSetWith(Primes[1]), a, A \ B), {} \cup (A \cap (A \ B)))
  BY <1>2, AddedIs DEF Small
<1>5. {} \cup (A \cap (A \ B)) = A \ B
  OBVIOUS
<1>6. QED
  BY <1>1, <1>3, <1>4, <1>5 DEF SetMinus

LEMMA AlgebraIs ==
  ASSUME ViewAssumption, PrimesAssumption,
         NEW a, NEW b, NEW A, NEW B, Small(a, A), Small(b, B)
  PROVE  AlgebraOf(a, b)
<1> DEFINE empty == CreateSetWith(Primes[1])
<1>1. /\ Smaller(a, b) = Primes[1] /\ Larger(a, b) = Primes[1] /\ a.size = Primes[1]
      /\ A \subseteq Coord /\ B \subseteq Coord
  BY DEF Smaller, Larger, Small, GoodSet
<1>2. Small(empty, {})
  BY SmallIs
<1>3. At(a) = A /\ At(b) = B /\ SetToArray(b) \in Seq(Coord) /\ Range(SetToArray(b)) = B
  BY ArrayIs DEF Small
<1>4. \A s, M : Small(s, M) => IsSetOf(s, M)
  BY PromiseKept DEF Small
<1> HIDE DEF empty
<1>5. Small(CloneSet(a, Primes[1]), A)
  <2>1. CloneSet(a, Primes[1]) = AddTo(empty, a, A)
    BY <1>3 DEF CloneSet, empty
  <2>2. Small(AddTo(empty, a, A), {} \cup (A \cap A))
    BY <1>2, AddedIs DEF Small
  <2>3. {} \cup (A \cap A) = A
    OBVIOUS
  <2>4. QED
    BY <2>1, <2>2, <2>3
<1>6. Small(SetUnion(a, b), A \cup B)
  <2> DEFINE clone == CloneSet(a, Primes[1])
             array == SetToArray(b)
  <2>1. SetUnion(a, b) = PutAll(clone, array, B)
    BY <1>1, <1>3 DEF SetUnion
  <2> HIDE DEF clone, array
  <2>2. Small(PutAll(clone, array, B), A \cup (Range(array) \cap B))
    BY <1>3, <1>5, AllPut DEF Small, clone, array
  <2>3. Range(array) \cap B = B
    BY <1>3 DEF array
  <2>4. QED
    BY <2>1, <2>2, <2>3
<1>7. Small(SetIntersect(a, b), A \cap B)
  <2>1. ASSUME NEW long, NEW short, NEW L, NEW T, Small(long, L), Small(short, T)
        PROVE  Small(AddTo(empty, short, {v \in At(short) : SetHas(long, v)}), L \cap T)
    <3> DEFINE chosen == {v \in At(short) : SetHas(long, v)}
    <3>1. At(short) = T
      BY <2>1, ArrayIs DEF Small
    <3>2. T \subseteq Coord
      BY <2>1 DEF Small, GoodSet
    <3>3. \A v \in T : SetHas(long, v) <=> v \in L
      BY <2>1, <3>2, HasIs DEF Small
    <3>4. T \cap chosen = L \cap T
      BY <3>1, <3>3
    <3> HIDE DEF chosen
    <3>5. Small(AddTo(empty, short, chosen), {} \cup (T \cap chosen))
      BY <1>2, <2>1, AddedIs DEF Small
    <3>6. {} \cup (T \cap chosen) = L \cap T
      BY <3>4
    <3>7. QED
      BY <3>5, <3>6 DEF chosen
  <2>2. CASE a.length < b.length
    <3>1. SetIntersect(a, b) = AddTo(empty, a, {v \in At(a) : SetHas(b, v)})
      BY <1>1, <2>2 DEF SetIntersect, empty
    <3>2. B \cap A = A \cap B
      OBVIOUS
    <3>3. QED
      BY <2>1, <3>1, <3>2
  <2>3. CASE ~(a.length < b.length)
    <3>1. SetIntersect(a, b) = AddTo(empty, b, {v \in At(b) : SetHas(a, v)})
      BY <1>1, <2>3 DEF SetIntersect, empty
    <3>2. QED
      BY <2>1, <3>1
  <2>4. QED
    BY <2>2, <2>3
<1>8. Small(SetMinus(a, b), A \ B)
  BY MinusIs
<1>9. Small(SetDifference(a, b), (A \ B) \cup (B \ A))
  <2>1. Missing(a, b) = A \ B /\ Missing(b, a) = B \ A
    BY MissingIs
  <2> DEFINE first == AddTo(empty, b, B \ A)
  <2>2. SetDifference(a, b) = AddTo(first, a, A \ B)
    BY <1>1, <2>1 DEF SetDifference, empty
  <2>3. Small(first, {} \cup (B \cap (B \ A)))
    BY <1>2, AddedIs DEF Small
  <2>4. {} \cup (B \cap (B \ A)) = B \ A
    OBVIOUS
  <2>5. Small(first, B \ A)
    BY <2>3, <2>4
  <2> HIDE DEF first
  <2>6. (A \ B) \cap A \cap (B \ A) = {}
    OBVIOUS
  <2>7. Small(AddTo(first, a, A \ B), (B \ A) \cup (A \cap (A \ B)))
    BY <2>5, <2>6, AddedIs DEF Small
  <2>8. (B \ A) \cup (A \cap (A \ B)) = (A \ B) \cup (B \ A)
    OBVIOUS
  <2>9. QED
    BY <2>2, <2>7, <2>8
<1>10. QED
  BY <1>1, <1>3, <1>4, <1>5, <1>6, <1>7, <1>8, <1>9 DEF AlgebraOf

------------------------------------------------------------------------------
(* What the player's set holds, and what he is shown.                      *)

LEMMA Divided ==
  ASSUME NEW w \in Nat \ {0}, NEW q \in Nat, NEW r \in 0..(w - 1)
  PROVE  (q * w + r) \div w = q /\ (q * w + r) % w = r
OBVIOUS

(* The chunk of a player and the three the client may see him in.          *)
Near(chunk) == {<<chunk[1] + i, chunk[2] + j>> : i, j \in {-1, 0}}

LEMMA NewIs ==
  ASSUME ViewAssumption, PrimesAssumption, NEW area \in Coord
  PROVE  /\ Small(NewChunks(area), At(NewChunks(area)))
         /\ Near(area) \subseteq At(NewChunks(area))
<1> DEFINE width == 2 * Radius
           around == Around(area)
           size == width * width
           M == Range(around) \cap Circle(area)
<1>1. Radius \in Nat /\ Radius >= 2 /\ width \in Nat \ {0} /\ size \in Nat
      /\ area[1] \in Int /\ area[2] \in Int
  BY DEF ViewAssumption, Coord
<1>2. around = [k \in 1..size |->
                   <<area[1] - Radius + (k - 1) \div width, area[2] - Radius + ((k - 1) % width)>>]
  BY DEF Around
<1> HIDE DEF width, size, around
<1>3. \A k \in 1..size : around[k] \in Coord
  <2>1. \A k \in 1..size : (k - 1) \div width \in Int /\ (k - 1) % width \in Int
    BY <1>1
  <2>2. QED
    BY <1>1, <1>2, <2>1 DEF Coord
<1>4. around \in Seq(Coord) /\ DOMAIN around = 1..size
  <2>1. around = [k \in 1..size |-> around[k]]
    BY <1>2
  <2>2. around \in [1..size -> Coord]
    BY <1>3, <2>1
  <2>3. QED
    BY <1>1, <2>2
<1>5. Small(NewChunks(area), M)
  <2> DEFINE empty == CreateSetWith(ChunksHint)
  <2>1. Small(empty, {})
    BY SmallIs
  <2>2. NewChunks(area) = PutAll(empty, around, Circle(area))
    BY DEF NewChunks, around
  <2> HIDE DEF empty
  <2>3. Small(PutAll(empty, around, Circle(area)), {} \cup M)
    BY <1>4, <2>1, AllPut DEF Small
  <2>4. {} \cup M = M
    OBVIOUS
  <2>5. QED
    BY <2>2, <2>3, <2>4
<1>6. At(NewChunks(area)) = M
  BY <1>5, ArrayIs DEF Small
<1>7. ASSUME NEW i \in {-1, 0}, NEW j \in {-1, 0}
      PROVE  <<area[1] + i, area[2] + j>> \in M
  <2> DEFINE q == Radius + i
             r == Radius + j
             k == q * width + r + 1
             chunk == <<area[1] + i, area[2] + j>>
  <2>1. q \in Nat /\ q <= width - 1 /\ r \in 0..(width - 1) /\ width - 1 \in Nat
    BY <1>1 DEF width
  <2>2. k \in 1..size /\ k - 1 = q * width + r
    <3> HIDE DEF q, r
    <3>1. q * width \in Nat /\ q * width <= (width - 1) * width
      BY <1>1, <2>1
    <3>2. (width - 1) * width = size - width
      BY <1>1 DEF size
    <3> DEFINE p == q * width
    <3> HIDE DEF p
    <3>3. p \in Nat /\ p <= size - width
      BY <3>1, <3>2 DEF p
    <3>4. p + r + 1 \in 1..size /\ p + r + 1 - 1 = p + r
      BY <1>1, <2>1, <3>3
    <3>5. k = p + r + 1
      BY DEF p
    <3>6. p + r = q * width + r
      BY DEF p
    <3> HIDE DEF k
    <3>7. k \in 1..size /\ k - 1 = p + r
      BY <1>1, <2>1, <3>3, <3>4, <3>5
    <3>8. QED
      BY <3>6, <3>7
  <2>3. (k - 1) \div width = q /\ (k - 1) % width = r
    <3> HIDE DEF q, r, k
    <3>1. QED
      BY <1>1, <2>1, <2>2, Divided
  <2>4. around[k] = chunk
    <3>1. around[k] = <<area[1] - Radius + q, area[2] - Radius + r>>
      <4> HIDE DEF k, q, r
      <4>1. QED
        BY <1>2, <2>2, <2>3
    <3>2. \A x \in Int : x - Radius + q = x + i /\ x - Radius + r = x + j
      BY <1>1
    <3>3. area[1] - Radius + q = area[1] + i /\ area[2] - Radius + r = area[2] + j
      BY <1>1, <3>2
    <3>4. QED
      BY <3>1, <3>3
  <2> HIDE DEF k
  <2>5. chunk \in Range(around)
    BY <1>4, <2>2, <2>4 DEF Range
  <2>6. chunk \in Circle(area)
    <3>1. chunk[1] - area[1] = i /\ chunk[2] - area[2] = j
      BY <1>1
    <3>2. i * i + j * j <= 2
      OBVIOUS
    <3>3. 2 <= Radius * Radius
      BY <1>1
    <3>4. i * i + j * j \in Int /\ Radius * Radius \in Int
      BY <1>1
    <3>5. i * i + j * j <= Radius * Radius
      BY <3>2, <3>3, <3>4
    <3> HIDE DEF chunk
    <3>6. QED
      BY <2>5, <3>1, <3>5 DEF Circle, around
  <2>7. QED
    BY <2>5, <2>6
<1>8. Near(area) \subseteq M
  <2> SUFFICES ASSUME NEW chunk \in Near(area) PROVE chunk \in M
    OBVIOUS
  <2>1. PICK i \in {-1, 0}, j \in {-1, 0} : chunk = <<area[1] + i, area[2] + j>>
    BY DEF Near
  <2> HIDE DEF M
  <2>2. QED
    BY <1>7, <2>1
<1>9. QED
  BY <1>5, <1>6, <1>8

(* Before the first move he has the square of the login and an empty set; then the set
   is what he holds, but for that square, and he holds the chunks around his position. *)
Follows ==
    /\ At(loadedChunks) \subseteq shown
    /\ shown \subseteq At(loadedChunks) \cup Square(BlockPositionToChunkPosition(spawn), Radius)
    /\ Near(PrecisePositionToChunkPosition(position)) \subseteq shown
    /\ At(loadedChunks) \ sent \subseteq Fragile

ViewIInv ==
    /\ PlaceInv
    /\ session \in {"handshake", "joined"} => position = <<0, 0>>
    /\ session \in {"joined", "in"} => Small(loadedChunks, At(loadedChunks))
    /\ session = "joined" =>
           /\ At(loadedChunks) = {}
           /\ shown = Square(BlockPositionToChunkPosition(spawn), Radius)
    /\ session = "in" => Follows

LEMMA ChunkIsCoord ==
  ASSUME NEW p \in Int \X Int
  PROVE  /\ PrecisePositionToChunkPosition(p) \in Coord
         /\ BlockPositionToChunkPosition(p) \in Coord
         /\ BlockPositionToPrecisePosition(p) \in Int \X Int
         /\ PrecisePositionToChunkPosition(BlockPositionToPrecisePosition(p))
                = BlockPositionToChunkPosition(p)
<1>1. p[1] \in Int /\ p[2] \in Int
  OBVIOUS
<1>2. \A h \in Int : ShiftRight(h, 4) \in Int /\ Truncated(h, 2) \in Int /\ Truncated(2 * h, 2) = h
  BY ConversionsOfOne, Rounding
<1>3. BlockPositionToPrecisePosition(p) = <<2 * p[1], 2 * p[2]>> /\ 2 * p[1] \in Int /\ 2 * p[2] \in Int
  BY <1>1 DEF BlockPositionToPrecisePosition, Each
<1>4. BlockPositionToChunkPosition(p) = <<ShiftRight(p[1], 4), ShiftRight(p[2], 4)>>
  BY DEF BlockPositionToChunkPosition, Each
<1>5. \A q : PrecisePositionToChunkPosition(q)
               = <<ShiftRight(Truncated(q[1], 2), 4), ShiftRight(Truncated(q[2], 2), 4)>>
  BY DEF PrecisePositionToChunkPosition, Each
<1>6. QED
  BY <1>1, <1>2, <1>3, <1>4, <1>5 DEF Coord

LEMMA NearIsSquare ==
  ASSUME ViewAssumption, NEW chunk \in Coord
  PROVE  Near(chunk) \subseteq Square(chunk, Radius)
<1>1. -1 \in (-Radius)..Radius /\ 0 \in (-Radius)..Radius
  BY DEF ViewAssumption
<1>2. QED
  BY <1>1 DEF Near, Square

(* A move to another chunk. *)
LEMMA SendFollows ==
  ASSUME ViewAssumption, PrimesAssumption, NEW area \in Coord, SendChunkRadius(area),
         Small(loadedChunks, At(loadedChunks)),
         shown \subseteq At(loadedChunks) \cup Square(BlockPositionToChunkPosition(spawn), Radius),
         At(loadedChunks) \subseteq shown, At(loadedChunks) \ sent \subseteq Fragile
  PROVE  /\ Small(loadedChunks', At(loadedChunks)')
         /\ At(loadedChunks)' \subseteq shown'
         /\ shown' \subseteq At(loadedChunks)' \cup Square(BlockPositionToChunkPosition(spawn), Radius)
         /\ Near(area) \subseteq shown'
         /\ At(loadedChunks)' \ sent' \subseteq Fragile
<1> DEFINE new == NewChunks(area)
           O == At(loadedChunks)
           N == At(new)
           gone == At(ToRemove(loadedChunks, new))
           come == At(ToAdd(loadedChunks, new))
<1>1. Small(new, N) /\ Near(area) \subseteq N
  BY NewIs
<1>2. gone = O \ N /\ come = N \ O
  <2> HIDE DEF new
  <2>1. Small(SetMinus(loadedChunks, new), O \ N) /\ Small(SetMinus(new, loadedChunks), N \ O)
    BY <1>1, MinusIs
  <2>2. QED
    BY <2>1, ArrayIs DEF Small, ToRemove, ToAdd
<1>3. loadedChunks' = new /\ shown' = (shown \ gone) \cup come
  BY DEF SendChunkRadius
<1>4. PICK failing \in SUBSET (Fragile \cap come) : sent' = (sent \ gone) \cup (come \ failing)
  BY DEF SendChunkRadius
<1>5. At(loadedChunks)' = N
  BY <1>3 DEF At, Cells
<1> HIDE DEF new, O, N, gone, come
<1>6. /\ O \subseteq shown /\ O \ sent \subseteq Fragile
      /\ shown \subseteq O \cup Square(BlockPositionToChunkPosition(spawn), Radius)
  BY DEF O
<1>7. N \subseteq shown'
  BY <1>2, <1>3, <1>6
<1>8. shown' \subseteq N \cup Square(BlockPositionToChunkPosition(spawn), Radius)
  BY <1>2, <1>3, <1>6
<1>9. N \ sent' \subseteq Fragile
  BY <1>2, <1>4, <1>6
<1>10. QED
  BY <1>1, <1>3, <1>5, <1>7, <1>8, <1>9

LEMMA MoveSafe ==
  ASSUME ViewAssumption, PrimesAssumption, ViewIInv,
         NEW to \in Places \cup {BlockPositionToPrecisePosition(spawn)}, PlayerPosition(to)
  PROVE  ViewIInv'
<1> DEFINE old == PrecisePositionToChunkPosition(position)
           new == PrecisePositionToChunkPosition(to)
           home == BlockPositionToChunkPosition(spawn)
<1>1. /\ spawn \in Int \X Int /\ position \in Int \X Int
      /\ to \in Int \X Int /\ new \in Coord /\ home \in Coord
      /\ PrecisePositionToChunkPosition(BlockPositionToPrecisePosition(spawn)) = home
  BY ChunkIsCoord DEF ViewIInv, PlaceInv, ViewAssumption
<1>2. /\ session \in {"joined", "in"} /\ session' = "in" /\ position' = to /\ UNCHANGED spawn
      /\ session = "joined" => new = home
      /\ IF new # old THEN SendChunkRadius(new) ELSE UNCHANGED <<loadedChunks, shown, sent>>
  BY <1>1 DEF PlayerPosition
<1>3. PlaceInv'
  BY <1>1, <1>2 DEF PlaceInv
<1>4. /\ Small(loadedChunks, At(loadedChunks))
      /\ At(loadedChunks) \subseteq shown
      /\ shown \subseteq At(loadedChunks) \cup Square(home, Radius)
      /\ At(loadedChunks) \ sent \subseteq Fragile
  BY <1>2 DEF ViewIInv, Follows
<1>5. /\ Small(loadedChunks', At(loadedChunks)')
      /\ At(loadedChunks)' \subseteq shown'
      /\ shown' \subseteq At(loadedChunks)' \cup Square(home, Radius)
      /\ Near(new) \subseteq shown'
      /\ At(loadedChunks)' \ sent' \subseteq Fragile
  <2>1. CASE new # old
    <3>1. SendChunkRadius(new)
      BY <1>2, <2>1
    <3> HIDE DEF new
    <3>2. QED
      BY <1>1, <1>4, <3>1, SendFollows
  <2>2. CASE new = old
    <3>1. UNCHANGED <<loadedChunks, shown, sent>>
      BY <1>2, <2>2
    <3>2. At(loadedChunks)' = At(loadedChunks)
      BY <3>1 DEF At, Cells
    <3>3. Near(new) \subseteq shown
      <4>1. CASE session = "in"
        BY <2>2, <4>1 DEF ViewIInv, Follows
      <4>2. CASE session = "joined"
        <5>1. new = home /\ shown = Square(home, Radius)
          BY <1>2, <4>2 DEF ViewIInv
        <5>2. QED
          BY <1>1, <5>1, NearIsSquare
      <4>3. QED
        BY <1>2, <4>1, <4>2
    <3>4. QED
      BY <1>4, <3>1, <3>2, <3>3
  <2>3. QED
    BY <2>1, <2>2
<1>6. PrecisePositionToChunkPosition(position)' = new
  BY <1>2 DEF PrecisePositionToChunkPosition, Each
<1>7. BlockPositionToChunkPosition(spawn)' = home
  BY <1>2 DEF BlockPositionToChunkPosition, Each
<1>8. Follows'
  BY <1>5, <1>6, <1>7 DEF Follows
<1>9. QED
  BY <1>2, <1>3, <1>5, <1>8 DEF ViewIInv

LEMMA ViewHolds == Spec => []ViewIInv
<1> USE ViewAssumption, PrimesAssumption
<1>1. Init => ViewIInv
  BY DEF Init, ViewInit, ViewIInv, PlaceInv, ViewAssumption
<1>2. ViewIInv /\ [Next]_vars => ViewIInv'
  <2> SUFFICES ASSUME ViewIInv, [Next]_vars PROVE ViewIInv'
    OBVIOUS
  <2>1. CASE PlayerPreLogin
    <3>1. /\ session' = "joined" /\ loadedChunks' = CreateSetWith(ChunksHint)
          /\ shown' = Square(BlockPositionToChunkPosition(spawn), Radius)
          /\ UNCHANGED <<spawn, position>> /\ position = <<0, 0>>
      BY <2>1 DEF PlayerPreLogin, ViewIInv
    <3>2. Small(loadedChunks', {})
      BY <3>1, SmallIs
    <3>3. At(loadedChunks') = {}
      BY <3>2, ArrayIs DEF Small
    <3>4. At(loadedChunks)' = At(loadedChunks')
      BY DEF At, Cells
    <3>5. BlockPositionToChunkPosition(spawn)' = BlockPositionToChunkPosition(spawn)
      BY <3>1 DEF BlockPositionToChunkPosition, Each
    <3>6. QED
      BY <3>1, <3>2, <3>3, <3>4, <3>5 DEF ViewIInv, PlaceInv
  <2>2. ASSUME NEW to \in Places \cup {BlockPositionToPrecisePosition(spawn)}, PlayerPosition(to)
        PROVE  ViewIInv'
    BY <2>2, MoveSafe
  <2>3. ASSUME NEW to \in Places, PlayerDigging(PrecisePositionToBlockPosition(to)) PROVE ViewIInv'
    <3>1. session' \in {"kicked", "crashed"} /\ UNCHANGED <<spawn, position>>
      BY <2>3 DEF PlayerDigging
    <3>2. QED
      BY <3>1 DEF ViewIInv, PlaceInv
  <2>4. CASE PlayerLogout
    <3>1. session' = "out" /\ UNCHANGED <<spawn, position>>
      BY <2>4 DEF PlayerLogout
    <3>2. QED
      BY <3>1 DEF ViewIInv, PlaceInv
  <2>5. CASE UNCHANGED viewVars
    <3>1. UNCHANGED <<session, spawn, position, loadedChunks, shown, sent>>
      BY <2>5 DEF viewVars
    <3>2. At(loadedChunks)' = At(loadedChunks)
      BY <3>1 DEF At, Cells
    <3>3. PrecisePositionToChunkPosition(position)' = PrecisePositionToChunkPosition(position)
      BY <3>1 DEF PrecisePositionToChunkPosition, Each
    <3>4. BlockPositionToChunkPosition(spawn)' = BlockPositionToChunkPosition(spawn)
      BY <3>1 DEF BlockPositionToChunkPosition, Each
    <3>5. Follows => Follows'
      BY <3>1, <3>2, <3>3, <3>4 DEF Follows
    <3>6. QED
      BY <3>1, <3>2, <3>4, <3>5 DEF ViewIInv, PlaceInv
  <2>6. CASE View
    BY <2>1, <2>2, <2>3, <2>4, <2>6 DEF View, ViewNext
  <2>7. QED
    BY <2>5, <2>6 DEF Next, Carry, Tick, Source, Column, vars
<1>3. QED
  BY <1>1, <1>2, PTL DEF Spec

\* Over any walk the client holds the chunk the player is seen in, what the set says and
\* no more than that and the square of the login, and has the blocks of all chunks the
\* generator gave (callbacks.c:165-199 and 722-805), for any radius from 2 on, any spawn
\* and any positions.
THEOREM ChunksAreShown == Spec => []ViewFollows
<1>1. ASSUME ViewIInv PROVE ViewFollows
  <2> SUFFICES ASSUME session = "in" PROVE StandsOn \in shown
    BY <1>1 DEF ViewFollows, ViewIInv, Follows
  <2> DEFINE chunk == PrecisePositionToChunkPosition(position)
  <2>1. position \in Int \X Int /\ position[1] \in Int /\ position[2] \in Int /\ Near(chunk) \subseteq shown
    BY <1>1 DEF ViewIInv, PlaceInv, Follows
  <2>2. /\ chunk[1] = ShiftRight(Truncated(position[1], 2), 4)
        /\ chunk[2] = ShiftRight(Truncated(position[2], 2), 4)
        /\ StandsOn = <<ShiftRight(position[1] * 2^4, 9), ShiftRight(position[2] * 2^4, 9)>>
    BY DEF PrecisePositionToChunkPosition, StandsOn, AbsolutePositionToChunkPosition,
           PrecisePositionToAbsolutePosition, Each
  <2>3. chunk \in Coord
    BY <2>1, ChunkIsCoord
  <2> HIDE DEF chunk
  <2>4. /\ StandsOn = <<StandsOn[1], StandsOn[2]>>
        /\ chunk[1] = StandsOn[1] \/ chunk[1] = StandsOn[1] + 1
        /\ chunk[2] = StandsOn[2] \/ chunk[2] = StandsOn[2] + 1
        /\ StandsOn[1] \in Int /\ StandsOn[2] \in Int
    <3>1. \A h \in Int : ShiftRight(h * 2^4, 9) \in Int
      BY Powers DEF ShiftRight
    <3>2. QED
      BY <2>1, <2>2, <3>1, ServerAndClientChunk
  <2>5. /\ StandsOn[1] = chunk[1] + 0 \/ StandsOn[1] = chunk[1] + (-1)
        /\ StandsOn[2] = chunk[2] + 0 \/ StandsOn[2] = chunk[2] + (-1)
    BY <2>4
  <2>6. StandsOn \in Near(chunk)
    BY <2>4, <2>5 DEF Near
  <2>7. QED
    BY <2>1, <2>6
<1>2. ViewIInv => ViewFollows
  BY <1>1
<1>3. QED
  BY <1>2, ViewHolds, PTL

\* Union, intersection, minus, difference and clone give what Set.h:99-150 promises, on
\* the sets the program combines, for any sizes of sets and any chunks.
THEOREM SetsAreSound == Spec => []AlgebraIsRight
<1>1. ASSUME ViewIInv PROVE AlgebraIsRight
  <2> SUFFICES ASSUME session = "in", NEW to \in Places
               PROVE  LET circle == NewChunks(PrecisePositionToChunkPosition(to))
                      IN  AlgebraOf(loadedChunks, circle) /\ AlgebraOf(circle, loadedChunks)
    BY DEF AlgebraIsRight
  <2> DEFINE area == PrecisePositionToChunkPosition(to)
             circle == NewChunks(area)
  <2>1. area \in Coord
    BY ViewAssumption, ChunkIsCoord DEF ViewAssumption
  <2> HIDE DEF area
  <2>2. Small(circle, At(circle)) /\ Small(loadedChunks, At(loadedChunks))
    BY <1>1, <2>1, NewIs, ViewAssumption, PrimesAssumption DEF ViewIInv
  <2> HIDE DEF circle
  <2>3. AlgebraOf(loadedChunks, circle) /\ AlgebraOf(circle, loadedChunks)
    BY <2>2, AlgebraIs, ViewAssumption, PrimesAssumption
  <2>4. QED
    BY <2>3 DEF circle, area
<1>2. ViewIInv => AlgebraIsRight
  BY <1>1
<1>3. QED
  BY <1>2, ViewHolds, PTL
==============================================================================

------------------------------- MODULE Inventory ------------------------------
(***************************************************************************)
(* What a player carries (plugins/survival/base/inventory.c): his slots as *)
(* the server keeps them, as his client shows them, and the item that the  *)
(* others see in his hand. Slots 36..44 are the bar he holds an item of; a *)
(* slot of the bar travels as 0..8. His handlers do not overlap.           *)
(***************************************************************************)
EXTENDS Integers

CONSTANTS
    Item,       \* ids of items
    Slot,       \* slots of the inventory
    MaxCount,   \* of a stack
    Empty

NoItem == -1
Stack == [id : Item, count : 1..MaxCount] \cup {[id |-> NoItem, count |-> 0]}

ASSUME InventoryAssumption ==
    /\ Item \subseteq Nat
    /\ Slot \subseteq Nat
    /\ MaxCount \in Nat
    /\ Empty \notin Stack

VARIABLES
    currentSlot,    \* player->currentSlot, -1 until he holds one
    inventory,      \* player->inventory
    own,            \* the slots as his client has them
    inHand          \* the item the others were last told of, -1 for none

inventoryVars == <<currentSlot, inventory, own, inHand>>

InventoryInit ==
    /\ currentSlot = -1
    /\ inventory = [s \in Slot |-> Empty]
    /\ own = [s \in Slot |-> Empty]
    /\ inHand = NoItem

------------------------------------------------------------------------------
Carried(s) == IF s \in Slot THEN inventory[s] ELSE Empty
ItemOf(stack) == IF stack = Empty THEN NoItem ELSE stack.id

\* Player.holdChange, on an inventory that another handler may have changed.
HoldChange(slot, inv) ==
    IF slot < 0 \/ slot > 8
    THEN UNCHANGED <<currentSlot, inHand>>
    ELSE /\ currentSlot' = slot + 36
         /\ inHand' = ItemOf(IF slot + 36 \in Slot THEN inv[slot + 36] ELSE Empty)

PlayerHoldChange(slot) ==
    /\ HoldChange(slot, inventory)
    /\ UNCHANGED <<inventory, own>>

\* A client takes a stack, or clears a slot with the stack of no item.
PlayerInventoryCreative(slot, stack) ==
    /\ IF slot > -1
       THEN /\ inventory' = [inventory EXCEPT ![slot] = stack]
            /\ own' = [own EXCEPT ![slot] = IF stack.id = NoItem THEN Empty ELSE stack]
       ELSE UNCHANGED <<inventory, own>>
    /\ UNCHANGED <<currentSlot, inHand>>

\* The stack a SetSlot tells the player he has left. The variant keeps the item
\* of a stack that is used up.
LeftOfSame(stack) == stack
LeftOf(stack) == IF stack.count <= 0 THEN Empty ELSE stack

\* The slot the event wants. The variant hands on the slot of the inventory.
SlotOfInventory(slot) == slot
SlotOfBar(slot) == slot - 36

PlayerDropItem ==
    LET current == Carried(currentSlot)
        left == [current EXCEPT !.count = @ - 1]
        inv == IF current = Empty THEN inventory
               ELSE [inventory EXCEPT ![currentSlot] = IF left.count <= 0 THEN Empty ELSE left]
    IN  /\ inventory' = inv
        /\ own' = IF current = Empty THEN own ELSE [own EXCEPT ![currentSlot] = LeftOf(left)]
        /\ HoldChange(SlotOfBar(currentSlot), inv)

InventoryNext ==
    \/ \E slot \in {-1, 9} \cup {s - 36 : s \in Slot} : PlayerHoldChange(slot)
    \/ \E slot \in Slot \cup {-1}, stack \in Stack : PlayerInventoryCreative(slot, stack)
    \/ PlayerDropItem

------------------------------------------------------------------------------
(* Properties *)

\* The client shows in every slot what the server keeps there, after any takes,
\* clears and drops (inventory.c:63-119): a drop tells it of the stack it left,
\* the used up one included.
InventoriesAgree ==
    \A s \in Slot :
        own[s] = IF inventory[s] = Empty \/ ItemOf(inventory[s]) = NoItem THEN Empty ELSE inventory[s]

\* After a drop the others see in his hand what he still holds: the drop passes
\* by Player.holdChange, which wants another numbering (inventory.c:115-116).
DropsAreSeen ==
    [][PlayerDropItem /\ currentSlot # -1 => inHand' = ItemOf(Carried(currentSlot))']_inventoryVars
==============================================================================

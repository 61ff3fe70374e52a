---------------------------- MODULE AtLeastOnce ----------------------------
(***************************************************************************)
(* What the last leg of the box's record promises, whatever is carried on  *)
(* it: the box owes the fleet an item from the moment it writes it, and    *)
(* stops owing it only once the fleet has taken it, or once the item is    *)
(* due to go without: its retention is over, or, on a lane whose fleet can *)
(* refuse an item, it was refused.  Which items are due, and when, is for  *)
(* the lane to say.  Nothing is said about how often the fleet takes an    *)
(* item: the leg is at least once.                                         *)
(***************************************************************************)
CONSTANT Item          \* registers, control events or day reports

VARIABLES owed,        \* what the box still owes the fleet
          taken,       \* what the fleet holds
          due          \* what the retention has released, or the fleet refuses

vars == <<owed, taken, due>>

TypeOK == /\ owed \subseteq Item
          /\ taken \subseteq Item
          /\ due \subseteq Item

Init == /\ owed = {}
        /\ taken = {}
        /\ due \subseteq Item

(* The box writes items, or writes them again with another content, and    *)
(* deletes what is due, owed or not.                                       *)
Write(new, gone) == /\ gone \subseteq due
                    /\ owed' = (owed \cup new) \ gone
                    /\ UNCHANGED taken

(* The fleet commits a set of items, in one transaction. *)
Take(S) == /\ taken' = taken \cup S
           /\ UNCHANGED owed

(* The box learns that the fleet has a set of items, or will have none of  *)
(* those that are due.                                                     *)
Acknowledge(S) == /\ S \subseteq taken \cup due
                  /\ owed' = owed \ S
                  /\ UNCHANGED taken

(* The fleet deletes items that are due. *)
Release(S) == /\ S \subseteq due
              /\ taken' = taken \ S
              /\ UNCHANGED owed

(* Nothing but the clocks. *)
Elapse == UNCHANGED <<owed, taken>>

(* What is due is for the lane to say, at every step. *)
Next == /\ due' \subseteq Item
        /\ \/ \E new, gone \in SUBSET Item : Write(new, gone)
           \/ \E S \in SUBSET Item : Take(S) \/ Acknowledge(S) \/ Release(S)
           \/ Elapse

Spec == Init /\ [][Next]_vars
=============================================================================

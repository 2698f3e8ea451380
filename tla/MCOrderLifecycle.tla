-------------------------- MODULE MCOrderLifecycle --------------------------
(* Small instances of OrderLifecycle: a BUY and a reduce-only SELL, or two  *)
(* reduce-only SELLs of the same contract and quantity a second apart (two  *)
(* positions closed by one exit cycle).                                     *)
EXTENDS OrderLifecycle

CONSTANTS o1, o2

MCOrders == {o1, o2}
MCQty == [o \in MCOrders |-> 2]
MCLots == [o \in MCOrders |-> 1]
MCBuys == {o1}
NoBuys == {}
MCReduceOnly == {o2}
AllReduceOnly == MCOrders
OnlyItself == {<<o1, o1>>, <<o2, o2>>}
AllAlike == MCOrders \X MCOrders
=============================================================================

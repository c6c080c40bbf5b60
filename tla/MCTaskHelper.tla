----------------------------- MODULE MCTaskHelper -----------------------------
(* TaskHelper with calls of one handler that has a single slot.             *)
EXTENDS TaskHelper

CONSTANTS short, stuck, huge, only

HandlerOfAll == [c \in Calls |-> only]
OneSlot == [h \in Handlers |-> 1]
NoneIsLimited == [c \in Calls |-> FALSE]
ShortIsLimited == [c \in Calls |-> c = short]
=============================================================================

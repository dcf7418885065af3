------------------------------ MODULE MCDispatch ------------------------------
(* Instances of Dispatch for TLC: messages are the ids below, named after  *)
(* their chat and kind.                                                    *)
EXTENDS Dispatch, TLC

CONSTANTS a, b, w1, w2, au1, au2, au3, as1, ah1, aa1, bu1, bu2

MCChatOf == [m \in Msgs |-> IF m \in {bu1, bu2} THEN b ELSE a]
MCKindOf == [m \in Msgs |-> CASE m = as1 -> "stop" [] m = ah1 -> "system"
                              [] m = aa1 -> "admin" [] OTHER -> "user"]
WorkerSymmetry == Permutations(Workers)
=============================================================================

----------------------------- MODULE MCChannel ------------------------------
(* Info objects for TLC. *)
EXTENDS Channel, TLC

Info(mode, set) == [null |-> FALSE, PMODE |-> mode, SET |-> set]
NullInfo == [null |-> TRUE, PMODE |-> "unset", SET |-> {}]

\* Every way to choose the messages with the keys the init call reads.
KeyedInfos ==
    {NullInfo, Info("SENDER", {}), Info("RECEIVER", {}), Info("unknown", {})}
       \union {Info("HARD", {n}) : n \in -1..4}

\* ... and the objects without a key it reads.
AnyInfos == KeyedInfos \union {Info("unset", {}), Info("HARD", {})}

SenderInfo == {Info("SENDER", {})}
=============================================================================

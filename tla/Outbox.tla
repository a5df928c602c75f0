-------------------------------- MODULE Outbox --------------------------------
(***************************************************************************)
(* What the outbox promises of an accepted message, whatever is lost,      *)
(* repeated or restarted on the way: it is accepted whole; each of its     *)
(* chunks is kept for its lifetime; a copy of it that others can find is   *)
(* lost before only where the message has been read; a chunk counts as     *)
(* shared only when someone has had it; and nothing is taken up again      *)
(* after its end.                                                          *)
(***************************************************************************)

CONSTANTS
    Message,
    Chunk,
    MsgOf,       \* [Chunk -> Message]
    Peer,
    Holders,     \* [Chunk -> SUBSET Peer]: who may hold a chunk for its recipient
    Readers      \* [Chunk -> SUBSET Peer]: who may come to read what it is part of

VARIABLES
    status,      \* a chunk: "new", "kept", "shared" or "over"
    copies,      \* the peers that hold it, and are known to
    read         \* the peers that have read what it is part of

vars == <<status, copies, read>>

Live(c) == status[c] \in {"kept", "shared"}

Init ==
    /\ status = [c \in Chunk |-> "new"]
    /\ copies = [c \in Chunk |-> {}]
    /\ read = [c \in Chunk |-> {}]

Accept(m) ==
    /\ \A c \in Chunk : MsgOf[c] = m => status[c] = "new"
    /\ status' = [c \in Chunk |-> IF MsgOf[c] = m THEN "kept" ELSE status[c]]
    /\ UNCHANGED <<copies, read>>

(* A peer comes to hold some chunks. *)
Copy(p) ==
    /\ \E S \in SUBSET {c \in Chunk : Live(c) /\ p \in Holders[c]} :
         copies' = [c \in Chunk |-> IF c \in S THEN copies[c] \cup {p} ELSE copies[c]]
    /\ UNCHANGED <<status, read>>

(* It reads a message. *)
Read(p) ==
    /\ \E m \in Message :
         read' = [c \in Chunk |-> IF MsgOf[c] = m /\ p \in Readers[c] THEN read[c] \cup {p}
                                                                      ELSE read[c]]
    /\ UNCHANGED <<status, copies>>

(* It has no use for what it has read. *)
Drop(p) ==
    /\ \E S \in SUBSET {c \in Chunk : p \in read[c]} :
         copies' = [c \in Chunk |-> IF c \in S THEN copies[c] \ {p} ELSE copies[c]]
    /\ UNCHANGED <<status, read>>

Share ==
    /\ \E S \in SUBSET {c \in Chunk : Live(c) /\ copies[c] \cup (read[c] \cap Holders[c]) # {}} :
         status' = [c \in Chunk |-> IF c \in S THEN "shared" ELSE status[c]]
    /\ UNCHANGED <<copies, read>>

Expire ==
    /\ \E S \in SUBSET {c \in Chunk : Live(c)} :
        /\ status' = [c \in Chunk |-> IF c \in S THEN "over" ELSE status[c]]
        /\ copies' = [c \in Chunk |-> IF c \in S THEN {} ELSE copies[c]]
    /\ UNCHANGED read

Next ==
    \/ \E m \in Message : Accept(m)
    \/ \E p \in Peer : Copy(p) \/ Read(p) \/ Drop(p)
    \/ Share
    \/ Expire

Spec == Init /\ [][Next]_vars
=============================================================================

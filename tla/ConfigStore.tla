------------------------------- MODULE ConfigStore -------------------------------
(***************************************************************************)
(* What the configuration store promises to its callers                    *)
(* (internal/configctl/client.go): one value per key, read at one moment   *)
(* between call and return, and written at one at least.  A write may be   *)
(* repeated, also after its call has returned: the store does not promise  *)
(* that a value stays until the next call that writes it.                  *)
(***************************************************************************)
CONSTANTS Clients,    \* the callers, one call each at a time
          Keys,
          Values,     \* what may be stored
          Absent      \* "no item"; not a value

VARIABLES content,    \* content[k]: what is stored
          call,       \* call[c]: what c has asked for
          took,       \* took[c]: the write c asked for has happened
          got,        \* got[c]: what the call that c just made answered
          loose       \* writes of calls that returned, which may still happen

vars == <<content, call, took, got, loose>>

Idle == [op |-> "idle"]
Gets == [op : {"get"}, key : Keys]
Sets == [op : {"set"}, key : Keys, value : Values \cup {Absent}]

Init == /\ content = [k \in Keys |-> Absent]
        /\ call = [c \in Clients |-> Idle]
        /\ took = [c \in Clients |-> FALSE]
        /\ got = [c \in Clients |-> "none"]
        /\ loose = {}

\* A call; to delete is to set to Absent.
Call(c, what) == /\ call[c] = Idle
                 /\ call' = [call EXCEPT ![c] = what]
                 /\ got' = [got EXCEPT ![c] = "none"]
                 /\ UNCHANGED <<content, took, loose>>

Write(c) == /\ call[c] \in Sets
            /\ content' = [content EXCEPT ![call[c].key] = call[c].value]
            /\ took' = [took EXCEPT ![c] = TRUE]
            /\ UNCHANGED <<call, got, loose>>

\* A Get answers what is stored at this moment.
Read(c) == /\ call[c] \in Gets
           /\ got' = [got EXCEPT ![c] = content[call[c].key]]
           /\ call' = [call EXCEPT ![c] = Idle]
           /\ UNCHANGED <<content, took, loose>>

\* A Set that returns no error has happened; one that returns an error may have.
Return(c, ok) == /\ call[c] \in Sets
                 /\ ok => took[c]
                 /\ call' = [call EXCEPT ![c] = Idle]
                 /\ took' = [took EXCEPT ![c] = FALSE]
                 /\ loose' \in {loose, loose \cup {call[c]}}
                 /\ got' = [got EXCEPT ![c] = IF ok THEN "ok" ELSE "failed"]
                 /\ UNCHANGED content

ReadFails(c) == /\ call[c] \in Gets
                /\ got' = [got EXCEPT ![c] = "failed"]
                /\ call' = [call EXCEPT ![c] = Idle]
                /\ UNCHANGED <<content, took, loose>>

\* A write that was left behind happens, for the last time or not, or is lost.
WriteLate(what) == /\ what \in loose
                   /\ content' = [content EXCEPT ![what.key] = what.value]
                   /\ loose' \in {loose, loose \ {what}}
                   /\ UNCHANGED <<call, took, got>>

Forget(what) == /\ what \in loose
                /\ loose' = loose \ {what}
                /\ UNCHANGED <<content, call, took, got>>

Next == \/ \E c \in Clients : \/ \E what \in Gets \cup Sets : Call(c, what)
                              \/ Write(c)
                              \/ Read(c)
                              \/ ReadFails(c)
                              \/ \E ok \in BOOLEAN : Return(c, ok)
        \/ \E what \in Sets : WriteLate(what) \/ Forget(what)

Spec == Init /\ [][Next]_vars
================================================================================

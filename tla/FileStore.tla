------------------------------ MODULE FileStore ------------------------------
(***************************************************************************)
(* What the uploads of the server promise, whichever route they come       *)
(* through: the files of a post get under their keys one by one, each      *)
(* whole and at once, while the post is being served, and it is accepted   *)
(* when all of them are there.  A post that is refused may have left some. *)
(***************************************************************************)
CONSTANTS
    Posts,      \* uploads being served at a time
    Fields,     \* names that a URL and the fields of a form give to files
    Bytes,      \* what is in a file
    NoFile

\* The key of a file is its name, or the hash of what is in it.
Keys == ({"named"} \X Fields) \cup ({"contents"} \X Bytes)

Parts == {part \in [field : Fields, key : Keys, bytes : Bytes] :
             part.key \in {<<"named", part.field>>, <<"contents", part.bytes>>}}

VARIABLES
    files,      \* what is under each key
    waiting,    \* parts of each post that are not stored yet
    status

vars == <<files, waiting, status>>

Init ==
    /\ files = [key \in Keys |-> NoFile]
    /\ waiting = [p \in Posts |-> {}]
    /\ status = [p \in Posts |-> "idle"]

Ask(p) ==
    /\ status[p] # "asked"
    /\ status' = [status EXCEPT ![p] = "asked"]
    /\ \E parts \in SUBSET Parts : waiting' = [waiting EXCEPT ![p] = parts]
    /\ UNCHANGED files

Store(p) ==
    /\ status[p] = "asked"
    /\ \E part \in waiting[p] :
          /\ files' = [files EXCEPT ![part.key] = part.bytes]
          /\ waiting' = [waiting EXCEPT ![p] = @ \ {part}]
    /\ UNCHANGED status

Accept(p) ==
    /\ status[p] = "asked" /\ waiting[p] = {}
    /\ status' = [status EXCEPT ![p] = "ok"]
    /\ UNCHANGED <<files, waiting>>

Refuse(p) ==
    /\ status[p] = "asked"
    /\ status' = [status EXCEPT ![p] = "failed"]
    /\ waiting' = [waiting EXCEPT ![p] = {}]
    /\ UNCHANGED files

Next == \E p \in Posts : Ask(p) \/ Store(p) \/ Accept(p) \/ Refuse(p)

Spec == Init /\ [][Next]_vars

=============================================================================

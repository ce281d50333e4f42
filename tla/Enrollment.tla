------------------------------ MODULE Enrollment -------------------------------
(***************************************************************************)
(* EnrollmentManager (src/auth/enrollment.rs) and the certificate          *)
(* authority it keeps in two files (CaCertificate, src/auth/certs.rs).     *)
(* The manager is shared by threads: tokens and enrolled nodes are maps    *)
(* behind a lock each, and enroll takes those locks one after the other,   *)
(* so every critical section is a step.  The process may be killed         *)
(* anywhere, and writing a file may fail.                                  *)
(*                                                                         *)
(* Left out: host names, addresses, which tags a token allows (a call may  *)
(* be refused for its tags), the random characters of a token (a new one   *)
(* is fresh), a wall clock that is set back.                               *)
(***************************************************************************)
EXTENDS Naturals, Sequences

CONSTANTS Token, Node,
          Call,          \* the calls of enroll
          None,          \* no file, no authority, a call not made yet
          Torn,          \* a file that was created and not yet written
          MaxStarts      \* bound: starts of the process

\* The authority generated by the k-th start.
Authority == 1..MaxStarts

\* How far a call is.  late: history, whether the token was of no use when the
\* call began.
Enroll == [pc    : {"begun", "found", "expired", "signed", "listed",
                    "answered", "refused", "killed"},
           token : Token,
           node  : Node,
           peers : SUBSET Node,
           late  : BOOLEAN]

ASSUME EnrollmentAssumption ==
  /\ MaxStarts \in Nat
  /\ None \notin Authority /\ Torn \notin Authority /\ None # Torn
  /\ None \notin Enroll

VARIABLES files,      \* ca.crt and ca.key in the data directory
          starts,     \* starts of the process so far
          todo,       \* the writes CaCertificate::save has still to make
          ca,         \* the authority the manager holds: certificate and key
          up,         \* load_or_create has returned the manager
          tokens,     \* the tokens map
          expired,    \* the tokens whose expires_at has passed
          issued,     \* history: the tokens generated by this process
          past,       \* history: and by earlier ones
          enrolled,   \* the enrolled_nodes map
          calls,      \* the calls of enroll
          signed      \* history: root and signer of every node certificate

fileVars  == <<files, starts, todo, ca, up>>
tokenVars == <<tokens, expired, issued, past>>
vars == <<fileVars, tokenVars, enrolled, calls, signed>>

File == Authority \cup {None, Torn}
Write == [file : {"cert", "key"}, content : File]

At(c, pc) == calls[c] # None /\ calls[c].pc = pc

Goes(c, pc) == calls' = [calls EXCEPT ![c].pc = pc]

Init ==
  /\ files = [f \in {"cert", "key"} |-> None]
  /\ starts = 0
  /\ todo = <<>>
  /\ ca = [f \in {"cert", "key"} |-> None]
  /\ up = FALSE
  /\ tokens = {} /\ expired = {} /\ issued = {} /\ past = {}
  /\ enrolled = {}
  /\ calls = [c \in Call |-> None]
  /\ signed = {}

-----------------------------------------------------------------------------
(***************************************************************************)
(* Starting and stopping.                                                  *)
(***************************************************************************)
Exists(f) == files[f] # None

\* A key taken for one without being parsed.
ParsesAnything(content) == TRUE

\* KeyPair::from_pem accepts a key that was written to its end.
Parses(content) == content # Torn

\* CaCertificate::save: each file is created, then written.
Save(authority) ==
  <<[file |-> "cert", content |-> Torn], [file |-> "cert", content |-> authority],
    [file |-> "key",  content |-> Torn], [file |-> "key",  content |-> authority]>>

\* load_or_create: an authority is loaded where both files exist, which fails
\* on a key that is no key, and generated otherwise.
LoadOrCreate ==
  /\ ~ up /\ todo = <<>>
  /\ starts < MaxStarts
  /\ starts' = starts + 1
  /\ \/ /\ Exists("cert") /\ Exists("key")
        /\ Parses(files["key"])
        /\ ca' = files
        /\ up' = TRUE
        /\ todo' = todo
     \/ /\ Exists("cert") /\ Exists("key")
        /\ ~ Parses(files["key"])
        /\ UNCHANGED <<ca, up, todo>>
     \/ /\ ~ (Exists("cert") /\ Exists("key"))
        /\ ca' = [f \in {"cert", "key"} |-> starts']
        /\ todo' = Save(starts')
        /\ up' = up
  /\ UNCHANGED <<files, tokenVars, enrolled, calls, signed>>

Nothing == [f \in {"cert", "key"} |-> None]

\* A failure to save that is only logged.
SaveStepTolerant ==
  /\ todo # <<>>
  /\ \/ /\ files' = [files EXCEPT ![Head(todo).file] = Head(todo).content]
        /\ todo' = Tail(todo)
        /\ up' = (todo' = <<>>)
     \/ /\ todo' = <<>> /\ up' = TRUE
        /\ files' = files
  /\ UNCHANGED <<starts, ca, tokenVars, enrolled, calls, signed>>

\* The next write of save; when it fails, load_or_create returns the error.
SaveStep ==
  /\ todo # <<>>
  /\ \/ /\ files' = [files EXCEPT ![Head(todo).file] = Head(todo).content]
        /\ todo' = Tail(todo)
        /\ up' = (todo' = <<>>)
        /\ ca' = ca
     \/ /\ todo' = <<>>
        /\ ca' = Nothing
        /\ UNCHANGED <<files, up>>
  /\ UNCHANGED <<starts, tokenVars, enrolled, calls, signed>>

\* The process is killed.  Both maps are in memory only.
Kill ==
  /\ up \/ todo # <<>>
  /\ up' = FALSE /\ todo' = <<>> /\ ca' = Nothing
  /\ tokens' = {} /\ enrolled' = {}
  /\ past' = past \cup issued /\ issued' = {}
  /\ calls' = [c \in Call |->
       IF calls[c] = None \/ At(c, "answered") \/ At(c, "refused") THEN calls[c]
       ELSE [calls[c] EXCEPT !.pc = "killed"]]
  /\ UNCHANGED <<files, starts, expired, signed>>

-----------------------------------------------------------------------------
(***************************************************************************)
(* Tokens and nodes.                                                       *)
(***************************************************************************)
\* generate_token
GenerateToken ==
  /\ up
  /\ \E t \in Token \ (issued \cup past) :
       tokens' = tokens \cup {t} /\ issued' = issued \cup {t}
  /\ UNCHANGED <<fileVars, expired, past, enrolled, calls, signed>>

\* Time passes; valid_hours may have been 0 or less.
Expire ==
  /\ \E t \in (issued \cup past) \ expired : expired' = expired \cup {t}
  /\ UNCHANGED <<fileVars, tokens, issued, past, enrolled, calls, signed>>

\* register_enrolled_node
RegisterEnrolledNode ==
  /\ up
  /\ \E n \in Node \ enrolled : enrolled' = enrolled \cup {n}
  /\ UNCHANGED <<fileVars, tokenVars, calls, signed>>

-----------------------------------------------------------------------------
(***************************************************************************)
(* enroll.                                                                 *)
(***************************************************************************)
Answered(t) == \E c \in Call : At(c, "answered") /\ calls[c].token = t

\* Of no use to a call that begins now: generated by an earlier process,
\* expired, or answered for.
Spent(t) == t \in past \/ t \in expired \/ Answered(t)

Begin(c) ==
  /\ up
  /\ calls[c] = None
  /\ \E t \in Token, n \in Node :
       calls' = [calls EXCEPT ![c] = [pc |-> "begun", token |-> t, node |-> n,
                                      peers |-> {}, late |-> Spent(t)]]
  /\ UNCHANGED <<fileVars, tokenVars, enrolled, signed>>

\* The token taken out of the map by the lookup.
LookupTakes(c) ==
  /\ At(c, "begun")
  /\ Goes(c, IF calls[c].token \in tokens THEN "found" ELSE "refused")
  /\ tokens' = tokens \ {calls[c].token}
  /\ UNCHANGED <<fileVars, expired, issued, past, enrolled, signed>>

\* The token is looked up and copied under the read lock.
Lookup(c) ==
  /\ At(c, "begun")
  /\ Goes(c, IF calls[c].token \in tokens THEN "found" ELSE "refused")
  /\ UNCHANGED <<fileVars, tokenVars, enrolled, signed>>

\* The copy is checked against the clock and the tags; sign_node may refuse a
\* name that is no DNS name.
Check(c) ==
  /\ At(c, "found")
  /\ \/ /\ calls[c].token \in expired
        /\ Goes(c, "expired")
        /\ signed' = signed
     \/ /\ calls[c].token \notin expired
        /\ Goes(c, "refused")
        /\ signed' = signed
     \/ /\ calls[c].token \notin expired
        /\ Goes(c, "signed")
        /\ signed' = signed \cup {ca}
  /\ UNCHANGED <<fileVars, tokenVars, enrolled>>

\* An expired token is removed under the write lock.
DropExpired(c) ==
  /\ At(c, "expired")
  /\ tokens' = tokens \ {calls[c].token}
  /\ Goes(c, "refused")
  /\ UNCHANGED <<fileVars, expired, issued, past, enrolled, signed>>

\* The peers are copied under the read lock of the other map.
ListPeers(c) ==
  /\ At(c, "signed")
  /\ calls' = [calls EXCEPT ![c].pc = "listed", ![c].peers = enrolled]
  /\ UNCHANGED <<fileVars, tokenVars, enrolled, signed>>

\* An answer that leaves the token in the map.
AnswerKeeping(c) ==
  /\ At(c, "listed")
  /\ Goes(c, "answered")
  /\ UNCHANGED <<fileVars, tokenVars, enrolled, signed>>

\* The token is removed under the write lock and the response returned.
Answer(c) ==
  /\ At(c, "listed")
  /\ tokens' = tokens \ {calls[c].token}
  /\ Goes(c, "answered")
  /\ UNCHANGED <<fileVars, expired, issued, past, enrolled, signed>>

-----------------------------------------------------------------------------
Next ==
  \/ LoadOrCreate \/ SaveStep \/ Kill
  \/ GenerateToken \/ Expire \/ RegisterEnrolledNode
  \/ \E c \in Call :
       \/ Begin(c) \/ Lookup(c) \/ Check(c) \/ DropExpired(c)
       \/ ListPeers(c) \/ Answer(c)

Spec == Init /\ [][Next]_vars

-----------------------------------------------------------------------------
(***************************************************************************)
(* Properties.                                                             *)
(***************************************************************************)
\* Types of the variables.
TypeOK ==
  /\ files \in [{"cert", "key"} -> File]
  /\ starts \in 0..MaxStarts
  /\ todo \in Seq(Write)
  /\ ca \in [{"cert", "key"} -> Authority \cup {None}]
  /\ up \in BOOLEAN
  /\ tokens \subseteq issued /\ issued \subseteq Token /\ past \subseteq Token
  /\ expired \subseteq issued \cup past
  /\ enrolled \subseteq Node
  /\ calls \in [Call -> Enroll \cup {None}]
  /\ signed \subseteq [{"cert", "key"} -> Authority]

\* A token that was answered for, has expired or was forgotten by a restart
\* stays spent: a call that begins then is never answered, although the token
\* is looked up and removed in separate critical sections.
SpentStaysSpent ==
  \A c \in Call : At(c, "answered") => ~ calls[c].late

\* A call that was refused, for its tags or its name, leaves its token usable.
UnusedTokenStays ==
  \A t \in issued \ expired : ~ Answered(t) => t \in tokens

\* The authority outlives kills and failed writes: every certificate a node
\* was ever given is signed by the key on the disk, and was handed out with the
\* root certificate on the disk, which is that key's.
AuthorityIsKept ==
  \A s \in signed : s = files /\ s["cert"] = s["key"]

=============================================================================

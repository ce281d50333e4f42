--------------------------- MODULE EnrollmentProofs ----------------------------
(***************************************************************************)
(* Proofs about Enrollment, for any number of tokens, nodes, concurrent    *)
(* calls and starts.  The four invariants of the run are proved together,  *)
(* from IInv.                                                              *)
(***************************************************************************)
EXTENDS Enrollment, TLAPS

Kinds == {"cert", "key"}

InProgress == {"begun", "found", "expired", "signed", "listed"}

\* Calls end with the process.
CallsNeedManager ==
  \A c \in Call : calls[c] # None /\ calls[c].pc \in InProgress => up

-----------------------------------------------------------------------------
(***************************************************************************)
(* The authority's files.                                                  *)
(***************************************************************************)
\* A key file is there only next to the whole certificate of its authority.
FilesFit ==
  \/ files["key"] = None
  \/ files["cert"] \in Authority /\ files["key"] \in {Torn, files["cert"]}

\* What save has still to write, and what it has written by then.
Saving ==
  todo # <<>> =>
    /\ ~ up
    /\ \E a \in Authority :
         /\ ca = [f \in Kinds |-> a]
         /\ \/ todo = Save(a) /\ files["key"] = None
            \/ todo = <<Save(a)[2], Save(a)[3], Save(a)[4]>> /\ files["key"] = None
            \/ /\ todo = <<Save(a)[3], Save(a)[4]>>
               /\ files["key"] = None /\ files["cert"] = a
            \/ /\ todo = <<Save(a)[4]>>
               /\ files["key"] = Torn /\ files["cert"] = a

\* The manager holds what is on the disk.
Holds == up => todo = <<>> /\ ca = files /\ files["key"] \in Authority

FilesInv == FilesFit /\ Saving /\ Holds

-----------------------------------------------------------------------------
(***************************************************************************)
(* Tokens and calls.                                                       *)
(***************************************************************************)
\* A token is generated once, and a call that has found one found a real one.
TokensInv ==
  /\ issued \cap past = {}
  /\ \A t \in Token : t \in tokens /\ Answered(t) => t \in expired
  /\ \A c \in Call :
       calls[c] # None /\ calls[c].pc \in {"found", "expired", "signed", "listed", "answered"}
         => calls[c].token \in issued \cup past
  /\ \A c \in Call :
       calls[c] # None /\ calls[c].pc = "expired" => calls[c].token \in expired

\* A call for a spent token gets no further than the check of its expiry.
LateInv ==
  \A c \in Call : calls[c] # None /\ calls[c].late =>
    /\ Spent(calls[c].token)
    /\ calls[c].pc \notin {"signed", "listed", "answered"}
    /\ calls[c].pc = "found" => calls[c].token \in expired

IInv ==
  /\ TypeOK /\ CallsNeedManager /\ FilesInv /\ AuthorityIsKept
  /\ TokensInv /\ LateInv /\ UnusedTokenStays

-----------------------------------------------------------------------------
(***************************************************************************)
(* Lemmas about the operators.                                             *)
(***************************************************************************)
\* save writes each file twice, the certificate first.
LEMMA SaveType ==
  ASSUME NEW a \in Authority
  PROVE  /\ Save(a) \in Seq(Write) /\ Len(Save(a)) = 4 /\ Save(a) # <<>>
         /\ Save(a)[1] = [file |-> "cert", content |-> Torn]
         /\ Save(a)[2] = [file |-> "cert", content |-> a]
         /\ Save(a)[3] = [file |-> "key", content |-> Torn]
         /\ Save(a)[4] = [file |-> "key", content |-> a]
         /\ \A k \in 1..4 : Save(a)[k] \in Write
<1>1. /\ [file |-> "cert", content |-> Torn] \in Write
      /\ [file |-> "cert", content |-> a] \in Write
      /\ [file |-> "key", content |-> Torn] \in Write
      /\ [file |-> "key", content |-> a] \in Write
  BY DEF Write, File
<1> QED
  BY <1>1 DEF Save

\* A token that is spent stays spent while calls are answered and time passes.
LEMMA SpentStays ==
  ASSUME past \subseteq past', expired \subseteq expired',
         \A c \in Call : At(c, "answered") => calls'[c] = calls[c],
         NEW t, Spent(t)
  PROVE  Spent(t)'
  BY DEF Spent, Answered, At

\* The token of a call stays spent as long as the call keeps its token.
LEMMA LateStays ==
  ASSUME IInv, past \subseteq past', expired \subseteq expired',
         \A d \in Call : At(d, "answered") => calls'[d] = calls[d],
         NEW c \in Call, calls[c] # None, calls[c].late,
         calls'[c].token = calls[c].token
  PROVE  Spent(calls[c].token)'
<1>1. PICK t : t = calls[c].token
  OBVIOUS
<1>2. Spent(t)'
  BY <1>1, SpentStays DEF IInv, LateInv
<1>3. t = calls'[c].token
  BY <1>1
<1> QED
  BY <1>2, <1>3 DEF Spent, Answered, At

-----------------------------------------------------------------------------
(***************************************************************************)
(* IInv holds initially and every action keeps it.                         *)
(***************************************************************************)
LEMMA InitInv ==
  ASSUME Init
  PROVE  IInv
<1>1. TypeOK
  <2>1. files \in [{"cert", "key"} -> File] /\ ca \in [{"cert", "key"} -> Authority \cup {None}]
    BY DEF Init, File
  <2>2. starts \in 0..MaxStarts /\ todo \in Seq(Write) /\ up \in BOOLEAN
    <3>1. MaxStarts \in Nat
      BY EnrollmentAssumption
    <3>2. 0 \in 0..MaxStarts
      BY <3>1
    <3>3. <<>> \in Seq(Write)
      OBVIOUS
    <3> QED
      BY <3>2, <3>3 DEF Init
  <2>3. calls \in [Call -> Enroll \cup {None}]
    BY DEF Init
  <2>4. /\ tokens \subseteq issued /\ issued \subseteq Token /\ past \subseteq Token
        /\ expired \subseteq issued \cup past
        /\ enrolled \subseteq Node
        /\ signed \subseteq [{"cert", "key"} -> Authority]
    BY DEF Init
  <2> QED
    BY <2>1, <2>2, <2>3, <2>4 DEF TypeOK
<1>2. CallsNeedManager /\ FilesInv /\ AuthorityIsKept
  BY DEF Init, CallsNeedManager, FilesInv, FilesFit, Saving, Holds, AuthorityIsKept
<1>3. TokensInv /\ LateInv /\ UnusedTokenStays
  BY DEF Init, TokensInv, LateInv, UnusedTokenStays
<1> QED
  BY <1>1, <1>2, <1>3 DEF IInv

\* The parts of IInv that speak of calls, where none of their variables changes.
LEMMA CallsUntouched ==
  ASSUME IInv, UNCHANGED <<tokenVars, enrolled, calls>>
  PROVE  (TokensInv /\ LateInv /\ UnusedTokenStays)'
  BY DEF IInv, tokenVars, TokensInv, LateInv, UnusedTokenStays,
         Answered, At, Spent

\* The parts that speak of files, where none of theirs changes.
LEMMA FilesUntouched ==
  ASSUME IInv, UNCHANGED fileVars
  PROVE  FilesInv'
  BY DEF IInv, fileVars, FilesInv, FilesFit, Saving, Holds

\* A certificate exists only where both files are whole.
LEMMA SignedFiles ==
  ASSUME IInv, signed # {}
  PROVE  files["key"] \in Authority
  BY DEF IInv, TypeOK, AuthorityIsKept

LEMMA LoadOrCreateInv ==
  ASSUME IInv, LoadOrCreate
  PROVE  IInv'
<1> USE EnrollmentAssumption
<1>1. starts' \in Authority /\ starts' \in 0..MaxStarts
  BY DEF IInv, TypeOK, LoadOrCreate, Authority
<1>2. CASE Exists("cert") /\ Exists("key") /\ Parses(files["key"])
  <2>1. files["cert"] \in Authority /\ files["key"] = files["cert"]
    BY <1>2 DEF IInv, FilesInv, FilesFit, Exists, Parses
  <2>2. ca' = files /\ up' /\ todo' = todo /\ files' = files /\ todo = <<>>
    BY <1>2 DEF LoadOrCreate
  <2>3. files \in [{"cert", "key"} -> Authority \cup {None}]
    BY <2>1 DEF IInv, TypeOK
  <2>4. TypeOK'
    BY <1>1, <1>2, <2>2, <2>3 DEF IInv, TypeOK, LoadOrCreate, tokenVars
  <2>5. FilesInv'
    BY <2>1, <2>2 DEF IInv, FilesInv, FilesFit, Saving, Holds
  <2>6. CallsNeedManager'
    BY <2>2 DEF CallsNeedManager
  <2> QED
    BY <2>2, <2>4, <2>5, <2>6, CallsUntouched
    DEF IInv, LoadOrCreate, AuthorityIsKept
<1>3. CASE Exists("cert") /\ Exists("key") /\ ~ Parses(files["key"])
  <2>1. UNCHANGED <<files, ca, up, todo, tokenVars, enrolled, calls, signed>>
    BY <1>3 DEF LoadOrCreate
  <2>2. TypeOK'
    BY <1>1, <2>1 DEF IInv, TypeOK, tokenVars
  <2>3. FilesInv' /\ CallsNeedManager'
    BY <2>1 DEF IInv, FilesInv, FilesFit, Saving, Holds, CallsNeedManager
  <2> QED
    BY <2>1, <2>2, <2>3, CallsUntouched DEF IInv, AuthorityIsKept
<1>4. CASE ~ (Exists("cert") /\ Exists("key"))
  <2>1. /\ ca' = [f \in {"cert", "key"} |-> starts']
        /\ todo' = Save(starts') /\ up' = up /\ up = FALSE
        /\ UNCHANGED <<files, tokenVars, enrolled, calls, signed>>
    BY <1>4 DEF LoadOrCreate, IInv, TypeOK
  <2>2. files["key"] = None
    BY <1>4 DEF IInv, FilesInv, FilesFit, Exists
  <2>3. TypeOK'
    BY <1>1, <2>1, SaveType DEF IInv, TypeOK, tokenVars
  <2>4. FilesInv'
    BY <1>1, <2>1, <2>2 DEF IInv, FilesInv, FilesFit, Saving, Holds, Kinds
  <2>5. CallsNeedManager'
    BY <2>1 DEF IInv, CallsNeedManager
  <2> QED
    BY <2>1, <2>3, <2>4, <2>5, CallsUntouched DEF IInv, AuthorityIsKept
<1> QED
  BY <1>2, <1>3, <1>4

LEMMA SaveStepInv ==
  ASSUME IInv, SaveStep
  PROVE  IInv'
<1> USE EnrollmentAssumption
<1>1. signed = {}
  BY SignedFiles DEF SaveStep, IInv, FilesInv, Saving
<1>2. /\ ~ up /\ todo # <<>> /\ todo \in Seq(Write)
      /\ UNCHANGED <<starts, tokenVars, enrolled, calls, signed>>
  BY DEF SaveStep, IInv, FilesInv, Saving, TypeOK
<1>3. PICK a \in Authority :
        /\ ca = [f \in Kinds |-> a]
        /\ \/ todo = Save(a) /\ files["key"] = None
           \/ todo = <<Save(a)[2], Save(a)[3], Save(a)[4]>> /\ files["key"] = None
           \/ /\ todo = <<Save(a)[3], Save(a)[4]>>
              /\ files["key"] = None /\ files["cert"] = a
           \/ /\ todo = <<Save(a)[4]>>
              /\ files["key"] = Torn /\ files["cert"] = a
  BY <1>2 DEF IInv, FilesInv, Saving
<1>4. CallsNeedManager'
  BY <1>2 DEF IInv, CallsNeedManager
<1>5. AuthorityIsKept'
  BY <1>1, <1>2 DEF AuthorityIsKept
<1>6. TypeOK' /\ FilesInv'
  <2>1. CASE /\ todo' = <<>> /\ ca' = Nothing
             /\ UNCHANGED <<files, up>>
    <3>1. TypeOK'
      BY <1>2, <2>1 DEF IInv, TypeOK, tokenVars, Nothing
    <3>2. FilesInv'
      BY <1>2, <2>1 DEF IInv, FilesInv, FilesFit, Saving, Holds
    <3> QED
      BY <3>1, <3>2
  <2>2. CASE /\ files' = [files EXCEPT ![Head(todo).file] = Head(todo).content]
             /\ todo' = Tail(todo)
             /\ up' = (todo' = <<>>)
             /\ ca' = ca
    <3>1. /\ Head(todo) \in Write /\ Tail(todo) \in Seq(Write)
      BY <1>2
    <3>2. files' \in [{"cert", "key"} -> File] /\ up' \in BOOLEAN
      BY <2>2, <3>1 DEF IInv, TypeOK, Write
    <3>3. TypeOK'
      BY <1>2, <2>2, <3>1, <3>2 DEF IInv, TypeOK, tokenVars
    <3>4. files \in [Kinds -> File]
      BY DEF IInv, TypeOK, Kinds
    <3>5. CASE todo = Save(a) /\ files["key"] = None
      <4>1. /\ Head(todo) = [file |-> "cert", content |-> Torn]
            /\ Tail(todo) = <<Save(a)[2], Save(a)[3], Save(a)[4]>>
        BY <3>5 DEF Save
      <4>2. files'["key"] = None
        BY <2>2, <3>4, <3>5, <4>1 DEF Kinds
      <4>3. todo' # <<>>
        BY <2>2, <4>1
      <4>4. up' = FALSE
        BY <2>2, <4>3
      <4>5. Saving'
        BY <1>3, <2>2, <4>1, <4>2, <4>4 DEF Saving
      <4> QED
        BY <1>3, <3>3, <4>2, <4>4, <4>5 DEF FilesInv, FilesFit, Holds
    <3>6. CASE todo = <<Save(a)[2], Save(a)[3], Save(a)[4]>> /\ files["key"] = None
      <4>1. /\ Head(todo) = [file |-> "cert", content |-> a]
            /\ Tail(todo) = <<Save(a)[3], Save(a)[4]>>
        BY <3>6 DEF Save
      <4>2. files'["key"] = None /\ files'["cert"] = a
        BY <2>2, <3>4, <3>6, <4>1 DEF Kinds
      <4>3. todo' # <<>>
        BY <2>2, <4>1
      <4>4. up' = FALSE
        BY <2>2, <4>3
      <4>5. Saving'
        BY <1>3, <2>2, <4>1, <4>2, <4>4 DEF Saving
      <4> QED
        BY <1>3, <3>3, <4>2, <4>4, <4>5 DEF FilesInv, FilesFit, Holds
    <3>7. CASE /\ todo = <<Save(a)[3], Save(a)[4]>>
               /\ files["key"] = None /\ files["cert"] = a
      <4>1. /\ Head(todo) = [file |-> "key", content |-> Torn]
            /\ Tail(todo) = <<Save(a)[4]>>
        BY <3>7 DEF Save
      <4>2. files'["key"] = Torn /\ files'["cert"] = a
        BY <2>2, <3>4, <3>7, <4>1 DEF Kinds
      <4>3. todo' # <<>>
        BY <2>2, <4>1
      <4>4. up' = FALSE
        BY <2>2, <4>3
      <4>5. Saving'
        BY <1>3, <2>2, <4>1, <4>2, <4>4 DEF Saving
      <4> QED
        BY <1>3, <3>3, <4>2, <4>4, <4>5 DEF FilesInv, FilesFit, Holds
    <3>8. CASE /\ todo = <<Save(a)[4]>>
               /\ files["key"] = Torn /\ files["cert"] = a
      <4>1. /\ Head(todo) = [file |-> "key", content |-> a]
            /\ Tail(todo) = <<>>
        BY <3>8 DEF Save
      <4>2. files'["key"] = a /\ files'["cert"] = a /\ todo' = <<>>
        BY <2>2, <3>4, <3>8, <4>1 DEF Kinds
      <4>3. files' = [f \in Kinds |-> a]
        BY <3>2, <4>2 DEF Kinds
      <4> QED
        <5>1. ca' = files' /\ files'["key"] \in Authority
          BY <1>3, <2>2, <4>2, <4>3
        <5> QED
          BY <3>3, <4>2, <5>1 DEF FilesInv, FilesFit, Saving, Holds
    <3> QED
      BY <1>3, <3>3, <3>5, <3>6, <3>7, <3>8
  <2> QED
    BY <2>1, <2>2 DEF SaveStep
<1> QED
  BY <1>2, <1>4, <1>5, <1>6, CallsUntouched DEF IInv

LEMMA KillInv ==
  ASSUME IInv, Kill
  PROVE  IInv'
<1> USE EnrollmentAssumption
<1>1. \A c \in Call :
        \/ calls'[c] = calls[c]
           /\ (calls[c] = None \/ calls[c].pc \in {"answered", "refused"})
        \/ calls[c] # None /\ calls'[c] = [calls[c] EXCEPT !.pc = "killed"]
  BY DEF Kill, At
<1>2. calls' \in [Call -> Enroll \cup {None}]
  <2>1. ASSUME NEW c \in Call
        PROVE  calls'[c] \in Enroll \cup {None}
    <3>1. calls[c] \in Enroll \cup {None}
      BY DEF IInv, TypeOK
    <3>2. CASE calls'[c] = calls[c]
      BY <3>1, <3>2
    <3>3. CASE calls[c] # None /\ calls'[c] = [calls[c] EXCEPT !.pc = "killed"]
      BY <3>1, <3>3 DEF Enroll
    <3> QED
      BY <1>1, <3>2, <3>3
  <2>2. calls' = [c \in Call |-> calls'[c]]
    BY DEF Kill
  <2> QED
    BY <2>1, <2>2
<1>3. TypeOK'
  <2>1. ca' \in [{"cert", "key"} -> Authority \cup {None}] /\ todo' \in Seq(Write)
    BY DEF Kill, Nothing
  <2> QED
    BY <1>2, <2>1 DEF IInv, TypeOK, Kill
<1>4. \A c \in Call : calls[c] # None => calls[c] \in Enroll
  BY DEF IInv, TypeOK
<1>5. \A c \in Call : calls'[c] # None =>
        /\ calls[c] # None
        /\ calls'[c].token = calls[c].token /\ calls'[c].late = calls[c].late
        /\ \/ calls'[c] = calls[c] /\ calls[c].pc \in {"answered", "refused"}
           \/ calls'[c].pc = "killed"
  BY <1>1, <1>4 DEF Enroll
<1>6. CallsNeedManager'
  BY <1>5 DEF IInv, CallsNeedManager, InProgress
<1>7. FilesInv' /\ AuthorityIsKept'
  BY DEF IInv, Kill, FilesInv, FilesFit, Saving, Holds, AuthorityIsKept
<1>8. tokens' = {} /\ issued' = {} /\ past' = past \cup issued /\ expired' = expired
  BY DEF Kill
<1>9. TokensInv' /\ UnusedTokenStays'
  BY <1>5, <1>8 DEF IInv, TokensInv, UnusedTokenStays
<1>10. LateInv'
  <2>1. \A c \in Call : At(c, "answered") => calls'[c] = calls[c]
    BY <1>1 DEF At, Kill
  <2>2. ASSUME NEW c \in Call, calls'[c] # None, calls'[c].late
        PROVE  Spent(calls[c].token)'
    BY <1>5, <1>8, <2>1, <2>2, LateStays
  <2> QED
    BY <1>5, <2>2 DEF IInv, LateInv
<1> QED
  BY <1>3, <1>6, <1>7, <1>9, <1>10 DEF IInv

LEMMA GenerateTokenInv ==
  ASSUME IInv, GenerateToken
  PROVE  IInv'
<1>1. PICK t \in Token \ (issued \cup past) :
        tokens' = tokens \cup {t} /\ issued' = issued \cup {t}
  BY DEF GenerateToken
<1>2. UNCHANGED <<fileVars, expired, past, enrolled, calls, signed>>
  BY DEF GenerateToken
<1>3. ~ Answered(t) /\ t \notin expired
  BY <1>1 DEF IInv, TypeOK, TokensInv, Answered, At
<1>4. \A u : Answered(u)' <=> Answered(u)
  BY <1>2 DEF Answered, At
<1>5. TypeOK' /\ CallsNeedManager' /\ AuthorityIsKept'
  BY <1>1, <1>2 DEF IInv, TypeOK, fileVars, CallsNeedManager, AuthorityIsKept
<1>6. TokensInv' /\ UnusedTokenStays'
  BY <1>1, <1>2, <1>3, <1>4 DEF IInv, TypeOK, TokensInv, UnusedTokenStays
<1>7. LateInv'
  BY <1>2 DEF IInv, LateInv, Spent, Answered, At
<1> QED
  BY <1>2, <1>5, <1>6, <1>7, FilesUntouched DEF IInv

LEMMA ExpireInv ==
  ASSUME IInv, Expire
  PROVE  IInv'
<1>1. PICK t \in (issued \cup past) \ expired : expired' = expired \cup {t}
  BY DEF Expire
<1>2. UNCHANGED <<fileVars, tokens, issued, past, enrolled, calls, signed>>
  BY DEF Expire
<1>3. \A u : Answered(u)' <=> Answered(u)
  BY <1>2 DEF Answered, At
<1>4. TypeOK' /\ CallsNeedManager' /\ AuthorityIsKept'
  BY <1>1, <1>2 DEF IInv, TypeOK, fileVars, CallsNeedManager, AuthorityIsKept
<1>5. TokensInv' /\ UnusedTokenStays'
  BY <1>1, <1>2, <1>3 DEF IInv, TokensInv, UnusedTokenStays
<1>6. LateInv'
  BY <1>1, <1>2 DEF IInv, LateInv, Spent, Answered, At
<1> QED
  BY <1>2, <1>4, <1>5, <1>6, FilesUntouched DEF IInv

LEMMA RegisterEnrolledNodeInv ==
  ASSUME IInv, RegisterEnrolledNode
  PROVE  IInv'
<1>1. PICK n \in Node : enrolled' = enrolled \cup {n}
  BY DEF RegisterEnrolledNode
<1>2. UNCHANGED <<fileVars, tokenVars, calls, signed>>
  BY DEF RegisterEnrolledNode
<1>3. TypeOK' /\ CallsNeedManager' /\ AuthorityIsKept'
  BY <1>1, <1>2 DEF IInv, TypeOK, fileVars, tokenVars, CallsNeedManager, AuthorityIsKept
<1>4. TokensInv' /\ LateInv' /\ UnusedTokenStays'
  BY <1>2 DEF IInv, tokenVars, TokensInv, LateInv, UnusedTokenStays, Spent, Answered, At
<1> QED
  BY <1>2, <1>3, <1>4, FilesUntouched DEF IInv

LEMMA BeginInv ==
  ASSUME IInv, NEW c \in Call, Begin(c)
  PROVE  IInv'
<1> USE EnrollmentAssumption
<1>1. PICK t \in Token, n \in Node :
        calls' = [calls EXCEPT ![c] = [pc |-> "begun", token |-> t, node |-> n,
                                       peers |-> {}, late |-> Spent(t)]]
  BY DEF Begin
<1>2. up /\ calls[c] = None /\ UNCHANGED <<fileVars, tokenVars, enrolled, signed>>
  BY DEF Begin
<1>3. Spent(t) \in BOOLEAN
  BY DEF Spent
<1> DEFINE call == [pc |-> "begun", token |-> t, node |-> n, peers |-> {},
                    late |-> Spent(t)]
<1>4. /\ call \in Enroll /\ call.pc = "begun" /\ call.token = t
      /\ call.late = Spent(t)
  BY <1>3 DEF IInv, TypeOK, Enroll
<1>5. call # None
  BY <1>4
<1> HIDE DEF call
<1>6. /\ calls' \in [Call -> Enroll \cup {None}] /\ calls'[c] = call
      /\ \A d \in Call : d # c => calls'[d] = calls[d]
  BY <1>1, <1>4 DEF IInv, TypeOK, call
<1>7. \A u : Answered(u)' <=> Answered(u)
  BY <1>2, <1>4, <1>6 DEF Answered, At
<1>8. \A u : Spent(u)' <=> Spent(u)
  BY <1>2, <1>7 DEF Spent, tokenVars
<1>9. TypeOK' /\ AuthorityIsKept'
  BY <1>2, <1>6 DEF IInv, TypeOK, fileVars, tokenVars, AuthorityIsKept
<1>10. CallsNeedManager'
  BY <1>2 DEF fileVars, CallsNeedManager
<1>11. TokensInv' /\ UnusedTokenStays'
  BY <1>2, <1>4, <1>6, <1>7 DEF IInv, tokenVars, TokensInv, UnusedTokenStays
<1>12. LateInv'
  <2>1. ASSUME NEW d \in Call, calls'[d] # None, calls'[d].late
        PROVE  /\ Spent(calls[d].token)'
               /\ calls'[d].pc \notin {"signed", "listed", "answered"}
               /\ calls'[d].pc = "found" => calls'[d].token \in expired'
    <3>1. CASE d = c
      <4>1. calls'[d].token = t /\ Spent(t)
        BY <1>4, <1>6, <2>1, <3>1
      <4>2. Spent(t)'
        BY <1>8, <4>1
      <4>3. Spent(calls[d].token)'
        BY <4>1, <4>2 DEF Spent, Answered, At
      <4> QED
        BY <1>4, <1>6, <3>1, <4>3
    <3>2. CASE d # c
      <4>1. calls'[d] = calls[d]
        BY <1>6, <3>2
      <4>2. \A b \in Call : At(b, "answered") => calls'[b] = calls[b]
        BY <1>2, <1>6 DEF At
      <4>3. Spent(calls[d].token)'
        BY <1>2, <2>1, <4>1, <4>2, LateStays DEF tokenVars
      <4> QED
        BY <1>2, <2>1, <4>1, <4>3 DEF IInv, LateInv, tokenVars
    <3> QED
      BY <3>1, <3>2
  <2> QED
    BY <2>1 DEF LateInv
<1> QED
  BY <1>2, <1>9, <1>10, <1>11, <1>12, FilesUntouched DEF IInv

\* What Goes changes.
LEMMA GoesType ==
  ASSUME IInv, NEW c \in Call, calls[c] # None,
         NEW pc \in {"found", "expired", "signed", "answered", "refused"}, Goes(c, pc)
  PROVE  /\ calls' \in [Call -> Enroll \cup {None}]
         /\ calls'[c] # None /\ calls'[c].pc = pc
         /\ calls'[c].token = calls[c].token /\ calls'[c].late = calls[c].late
         /\ \A d \in Call : d # c => calls'[d] = calls[d]
<1>1. calls[c] \in Enroll
  BY DEF IInv, TypeOK
<1>2. [calls[c] EXCEPT !.pc = pc] \in Enroll
  BY <1>1 DEF Enroll
<1>3. calls'[c] = [calls[c] EXCEPT !.pc = pc] /\ calls'[c] # None
  BY <1>2, EnrollmentAssumption DEF Goes, IInv, TypeOK
<1>4. /\ calls'[c].pc = pc
      /\ calls'[c].token = calls[c].token /\ calls'[c].late = calls[c].late
  BY <1>1, <1>3 DEF Enroll
<1>5. calls' \in [Call -> Enroll \cup {None}] /\ \A d \in Call : d # c => calls'[d] = calls[d]
  BY <1>2 DEF Goes, IInv, TypeOK
<1> QED
  BY <1>3, <1>4, <1>5

\* A call goes on, or is refused: what Lookup, Check and DropExpired share.
LEMMA MoveInv ==
  ASSUME IInv, NEW c \in Call, calls[c] # None, calls[c].pc \in InProgress,
         NEW pc \in {"found", "expired", "signed", "refused"}, Goes(c, pc),
         pc = "found" => calls[c].token \in tokens,
         pc = "expired" => calls[c].pc = "found" /\ calls[c].token \in expired,
         pc = "signed" => calls[c].pc = "found" /\ calls[c].token \notin expired,
         pc = "found" => calls[c].pc = "begun",
         \/ tokens' = tokens
         \/ tokens' = tokens \ {calls[c].token} /\ calls[c].token \in expired,
         UNCHANGED <<fileVars, expired, issued, past, enrolled>>,
         signed' \subseteq [{"cert", "key"} -> Authority], AuthorityIsKept'
  PROVE  IInv'
<1>1. /\ calls' \in [Call -> Enroll \cup {None}]
      /\ calls'[c] # None /\ calls'[c].pc = pc
      /\ calls'[c].token = calls[c].token /\ calls'[c].late = calls[c].late
      /\ \A d \in Call : d # c => calls'[d] = calls[d]
  BY GoesType
<1>2. \A d \in Call : At(d, "answered")' <=> At(d, "answered")
  BY <1>1 DEF At, InProgress
<1>3. \A u : Answered(u)' <=> Answered(u)
  BY <1>1, <1>2 DEF Answered, At, InProgress
<1>4. TypeOK'
  BY <1>1 DEF IInv, TypeOK, fileVars
<1>5. CallsNeedManager'
  BY DEF IInv, CallsNeedManager, fileVars
<1>6. TokensInv' /\ UnusedTokenStays'
  BY <1>1, <1>3 DEF IInv, TypeOK, TokensInv, UnusedTokenStays
<1>7. LateInv'
  <2>1. \A d \in Call : At(d, "answered") => calls'[d] = calls[d]
    BY <1>1 DEF At, InProgress
  <2>2. ASSUME NEW d \in Call, calls'[d] # None, calls'[d].late
        PROVE  /\ Spent(calls[d].token)'
               /\ calls'[d].pc \notin {"signed", "listed", "answered"}
               /\ calls'[d].pc = "found" => calls'[d].token \in expired'
    <3>1. /\ calls[d] # None /\ calls[d].late /\ calls'[d].token = calls[d].token
      BY <1>1, <2>2
    <3>2. Spent(calls[d].token)'
      BY <2>1, <3>1, LateStays
    <3>3. /\ Spent(calls[d].token)
          /\ calls[d].pc \notin {"signed", "listed", "answered"}
          /\ calls[d].pc = "found" => calls[d].token \in expired
      BY <3>1 DEF IInv, LateInv
    <3>4. calls[d].token \in tokens => calls[d].token \in expired
      BY <3>1, <3>3 DEF IInv, TypeOK, TokensInv, Spent, Enroll
    <3> QED
      BY <1>1, <3>2, <3>3, <3>4
  <2> QED
    BY <2>2 DEF LateInv
<1> QED
  BY <1>4, <1>5, <1>6, <1>7, FilesUntouched DEF IInv

LEMMA LookupInv ==
  ASSUME IInv, NEW c \in Call, Lookup(c)
  PROVE  IInv'
<1>1. AuthorityIsKept' /\ signed' \subseteq [{"cert", "key"} -> Authority]
  BY DEF IInv, TypeOK, Lookup, fileVars, AuthorityIsKept
<1>2. CASE calls[c].token \in tokens
  <2>1. Goes(c, "found")
    BY <1>2 DEF Lookup
  <2> QED
    BY <1>1, <1>2, <2>1, MoveInv DEF Lookup, At, InProgress, tokenVars
<1>3. CASE calls[c].token \notin tokens
  <2>1. Goes(c, "refused")
    BY <1>3 DEF Lookup
  <2> QED
    BY <1>1, <2>1, MoveInv DEF Lookup, At, InProgress, tokenVars
<1> QED
  BY <1>2, <1>3

LEMMA CheckInv ==
  ASSUME IInv, NEW c \in Call, Check(c)
  PROVE  IInv'
<1>1. At(c, "found") /\ UNCHANGED <<fileVars, tokenVars, enrolled>>
  BY DEF Check
<1>2. CASE signed' = signed
  <2>1. AuthorityIsKept' /\ signed' \subseteq [{"cert", "key"} -> Authority]
    BY <1>1, <1>2 DEF IInv, TypeOK, fileVars, AuthorityIsKept
  <2>2. CASE calls[c].token \in expired /\ Goes(c, "expired")
    BY <1>1, <2>1, <2>2, MoveInv DEF At, InProgress, tokenVars
  <2>3. CASE Goes(c, "refused")
    BY <1>1, <2>1, <2>3, MoveInv DEF At, InProgress, tokenVars
  <2>4. CASE calls[c].token \notin expired /\ Goes(c, "signed")
    BY <1>1, <2>1, <2>4, MoveInv DEF At, InProgress, tokenVars
  <2> QED
    BY <2>2, <2>3, <2>4 DEF Check
<1>3. CASE /\ calls[c].token \notin expired
           /\ Goes(c, "signed")
           /\ signed' = signed \cup {ca}
  <2>1. up
    BY <1>1 DEF IInv, CallsNeedManager, At, InProgress
  <2>2. ca = files /\ files["key"] \in Authority /\ files["cert"] = files["key"]
    BY <2>1, EnrollmentAssumption DEF IInv, FilesInv, FilesFit, Holds
  <2>3. AuthorityIsKept'
    BY <1>1, <1>3, <2>2 DEF IInv, fileVars, AuthorityIsKept
  <2>4. ca \in [{"cert", "key"} -> Authority]
    BY <2>2 DEF IInv, TypeOK
  <2>5. signed' \subseteq [{"cert", "key"} -> Authority]
    BY <1>3, <2>4 DEF IInv, TypeOK
  <2> QED
    BY <1>1, <1>3, <2>3, <2>5, MoveInv DEF At, InProgress, tokenVars
<1> QED
  BY <1>2, <1>3 DEF Check

LEMMA DropExpiredInv ==
  ASSUME IInv, NEW c \in Call, DropExpired(c)
  PROVE  IInv'
<1>1. AuthorityIsKept' /\ signed' \subseteq [{"cert", "key"} -> Authority]
  BY DEF IInv, TypeOK, DropExpired, fileVars, AuthorityIsKept
<1>2. calls[c].token \in expired
  BY DEF IInv, TokensInv, DropExpired, At
<1> QED
  BY <1>1, <1>2, MoveInv DEF DropExpired, At, InProgress

LEMMA ListPeersInv ==
  ASSUME IInv, NEW c \in Call, ListPeers(c)
  PROVE  IInv'
<1>1. /\ calls[c] # None /\ calls[c].pc = "signed"
      /\ UNCHANGED <<fileVars, tokenVars, enrolled, signed>>
  BY DEF ListPeers, At
<1>2. calls[c] \in Enroll /\ enrolled \subseteq Node
  BY <1>1 DEF IInv, TypeOK
<1> DEFINE listed == [calls[c] EXCEPT !.pc = "listed", !.peers = enrolled]
<1>3. /\ listed \in Enroll /\ listed.pc = "listed"
      /\ listed.token = calls[c].token /\ listed.late = calls[c].late
  BY <1>2 DEF Enroll
<1>4. calls' = [calls EXCEPT ![c] = listed]
  BY DEF ListPeers
<1> HIDE DEF listed
<1>5. /\ calls' \in [Call -> Enroll \cup {None}] /\ calls'[c] = listed
      /\ \A d \in Call : d # c => calls'[d] = calls[d]
  BY <1>3, <1>4 DEF IInv, TypeOK
<1>6. \A u : Answered(u)' <=> Answered(u)
  BY <1>1, <1>3, <1>5 DEF Answered, At
<1>7. ~ calls[c].late
  BY <1>1 DEF IInv, LateInv
<1>8. TypeOK' /\ AuthorityIsKept'
  BY <1>1, <1>5 DEF IInv, TypeOK, fileVars, tokenVars, AuthorityIsKept
<1>9. CallsNeedManager'
  <2>1. up'
    BY <1>1 DEF IInv, CallsNeedManager, InProgress, fileVars
  <2> QED
    BY <2>1 DEF CallsNeedManager
<1>10. TokensInv' /\ UnusedTokenStays'
  BY <1>1, <1>3, <1>5, <1>6 DEF IInv, tokenVars, TokensInv, UnusedTokenStays
<1>11. LateInv'
  BY <1>1, <1>3, <1>5, <1>6, <1>7 DEF IInv, LateInv, Spent, tokenVars
<1> QED
  BY <1>1, <1>8, <1>9, <1>10, <1>11, FilesUntouched DEF IInv

LEMMA AnswerInv ==
  ASSUME IInv, NEW c \in Call, Answer(c)
  PROVE  IInv'
<1>1. /\ calls[c] # None /\ calls[c].pc = "listed" /\ Goes(c, "answered")
      /\ tokens' = tokens \ {calls[c].token}
      /\ UNCHANGED <<fileVars, expired, issued, past, enrolled, signed>>
  BY DEF Answer, At
<1>2. /\ calls' \in [Call -> Enroll \cup {None}]
      /\ calls'[c] # None /\ calls'[c].pc = "answered"
      /\ calls'[c].token = calls[c].token /\ calls'[c].late = calls[c].late
      /\ \A d \in Call : d # c => calls'[d] = calls[d]
  BY <1>1, GoesType
<1>3. \A u : Answered(u)' <=> Answered(u) \/ u = calls[c].token
  BY <1>1, <1>2 DEF Answered, At
<1>4. ~ calls[c].late
  BY <1>1 DEF IInv, LateInv
<1>5. TypeOK' /\ AuthorityIsKept'
  BY <1>1, <1>2 DEF IInv, TypeOK, fileVars, AuthorityIsKept
<1>6. CallsNeedManager'
  <2>1. up'
    BY <1>1 DEF IInv, CallsNeedManager, InProgress, fileVars
  <2> QED
    BY <2>1 DEF CallsNeedManager
<1>7. TokensInv' /\ UnusedTokenStays'
  BY <1>1, <1>2, <1>3 DEF IInv, TokensInv, UnusedTokenStays
<1>8. LateInv'
  BY <1>1, <1>2, <1>3, <1>4 DEF IInv, LateInv, Spent
<1> QED
  BY <1>1, <1>5, <1>6, <1>7, <1>8, FilesUntouched DEF IInv

LEMMA NextInv ==
  ASSUME IInv, [Next]_vars
  PROVE  IInv'
<1>1. CASE LoadOrCreate
  BY <1>1, LoadOrCreateInv
<1>2. CASE SaveStep
  BY <1>2, SaveStepInv
<1>3. CASE Kill
  BY <1>3, KillInv
<1>4. CASE GenerateToken
  BY <1>4, GenerateTokenInv
<1>5. CASE Expire
  BY <1>5, ExpireInv
<1>6. CASE RegisterEnrolledNode
  BY <1>6, RegisterEnrolledNodeInv
<1>7. ASSUME NEW c \in Call,
             \/ Begin(c) \/ Lookup(c) \/ Check(c) \/ DropExpired(c)
             \/ ListPeers(c) \/ Answer(c)
      PROVE  IInv'
  BY <1>7, BeginInv, LookupInv, CheckInv, DropExpiredInv, ListPeersInv, AnswerInv
<1>8. CASE UNCHANGED vars
  <2>1. UNCHANGED <<fileVars, tokenVars, enrolled, calls, signed>>
    BY <1>8 DEF vars, fileVars, tokenVars
  <2>2. TypeOK' /\ CallsNeedManager' /\ AuthorityIsKept'
    BY <2>1 DEF IInv, TypeOK, fileVars, tokenVars, CallsNeedManager, AuthorityIsKept
  <2> QED
    BY <2>1, <2>2, CallsUntouched, FilesUntouched DEF IInv
<1> QED
  BY <1>1, <1>2, <1>3, <1>4, <1>5, <1>6, <1>7, <1>8 DEF Next

LEMMA Invariance == Spec => []IInv
<1>1. Init => IInv
  BY InitInv
<1>2. IInv /\ [Next]_vars => IInv'
  BY NextInv
<1> QED
  BY <1>1, <1>2, PTL DEF Spec

-----------------------------------------------------------------------------
(***************************************************************************)
(* The theorems.                                                           *)
(***************************************************************************)
\* The variables have their types; in particular only tokens of this process
\* are in its map.
THEOREM EnrollmentTypeCorrect == Spec => []TypeOK
<1>1. IInv => TypeOK
  BY DEF IInv
<1> QED
  BY <1>1, Invariance, PTL

\* A call of enroll that begins when its token was answered for, has expired or
\* was forgotten by a restart is never answered.
THEOREM SpentStaysSpentCorrect == Spec => []SpentStaysSpent
<1>1. IInv => SpentStaysSpent
  BY DEF IInv, LateInv, SpentStaysSpent, At
<1> QED
  BY <1>1, Invariance, PTL

\* A token that has not expired is in the map until a call is answered for it.
THEOREM UnusedTokenStaysCorrect == Spec => []UnusedTokenStays
<1>1. IInv => UnusedTokenStays
  BY DEF IInv
<1> QED
  BY <1>1, Invariance, PTL

\* Every certificate ever issued belongs to the authority on the disk, wherever
\* the writes of save were cut short.
THEOREM AuthorityIsKeptCorrect == Spec => []AuthorityIsKept
<1>1. IInv => AuthorityIsKept
  BY DEF IInv
<1> QED
  BY <1>1, Invariance, PTL

=============================================================================

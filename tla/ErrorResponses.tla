--------------------------- MODULE ErrorResponses ---------------------------
(***************************************************************************)
(* The refusals of the services are package-level values, one per kind of  *)
(* error for the whole process.  WithTraceID, WithDetail and WithMessage   *)
(* write into the value itself, the error handler reads it when it makes   *)
(* the answer, and nothing keeps two requests that are refused for the     *)
(* same reason apart.                                                      *)
(*                                                                         *)
(* What is written is as wide as one or two machine words.  The accesses   *)
(* are a data race, so a word may be read or written in any order and      *)
(* between any two words of other requests.  A word is abstracted to the   *)
(* request that wrote it.                                                  *)
(***************************************************************************)
EXTENDS Naturals

CONSTANTS
    Requests,   \* requests, each answered at most once
    Traced,     \* ErrInternalServer, always returned with a trace identifier
    Detailed,   \* errors always returned with a detail
    Reworded,   \* ErrNotFound, returned with a message of its own or without
    Fixed,      \* errors always returned as they are declared
    Nobody,     \* wrote the words the errors are declared with
    None        \* the request has not been refused

Errors == Traced \union Detailed \union Reworded \union Fixed

ASSUME NobodyAssumption == Nobody \notin Requests
ASSUME NoneAssumption == None \notin Errors
ASSUME ErrorsAssumption ==
    /\ Traced \intersect (Detailed \union Reworded \union Fixed) = {}
    /\ Detailed \intersect (Reworded \union Fixed) = {}
    /\ Reworded \intersect Fixed = {}

Words == {"trace", "kind", "data", "text", "length"}

\* Mutant: an internal error is given a text besides its trace.
WordsOfTold(e) ==
    CASE e \in Traced -> {"trace", "text"}
      [] e \in Detailed -> {"kind", "data"}
      [] e \in Reworded -> {"text", "length"}
      [] OTHER -> {}

\* The words the services write into an error: a pointer to the trace, the two
\* words of an interface value, the two words of a string.
WordsOf(e) ==
    CASE e \in Traced -> {"trace"}
      [] e \in Detailed -> {"kind", "data"}
      [] e \in Reworded -> {"text", "length"}
      [] OTHER -> {}

\* How often the error is worded before it is answered with: the auth service
\* words what the user service has worded already.
Wordings(e) ==
    CASE e \in Traced -> {1, 2}
      [] e \in Detailed -> {1}
      [] e \in Reworded -> {0, 1, 2}
      [] OTHER -> {0}

VARIABLES
    author,     \* of each word of each error, the request that wrote it last
    req,        \* of each request, how far its refusal has come
    answer,     \* of each request, the words its answer has been made of
    met         \* remembered: requests refused alike while this one was

vars == <<author, req, answer, met>>

\* wordings: those to come, the one under way included; the last stays counted.
Refusal == [err : Errors \union {None}, wordings : 0..2,
            unwritten : SUBSET Words, unread : SUBSET Words]
Unrefused == [err |-> None, wordings |-> 0, unwritten |-> {}, unread |-> {}]

ErrInit ==
    /\ author = [e \in Errors |-> [w \in Words |-> Nobody]]
    /\ req = [r \in Requests |-> Unrefused]
    /\ answer = [r \in Requests |-> [w \in Words |-> Nobody]]
    /\ met = [r \in Requests |-> {}]

\* Refused with e, and the answer is not out yet.
Alike(e) == {r \in Requests : req[r].err = e /\ req[r].unread # {}}

\* A service refuses r with e, which will be worded n times.
Refuse(r, e, n) ==
    /\ req[r] = Unrefused
    /\ req' = [req EXCEPT ![r] =
           [err |-> e, wordings |-> n,
            unwritten |-> IF n = 0 THEN {} ELSE WordsOf(e), unread |-> WordsOf(e)]]
    /\ met' = [s \in Requests |->
           IF s = r THEN Alike(e)
           ELSE IF s \in Alike(e) THEN met[s] \union {r} ELSE met[s]]
    /\ UNCHANGED <<author, answer>>

\* One word of WithTraceID, WithDetail or WithMessage.
Write(r, w) ==
    /\ w \in req[r].unwritten
    /\ author' = [author EXCEPT ![req[r].err][w] = r]
    /\ req' = [req EXCEPT ![r].unwritten = @ \ {w}]
    /\ UNCHANGED <<answer, met>>

\* Mutant: the answer is made while the error is being worded.
AtAnyTime(r) == req[r].wordings < 2

Worded(r) == req[r].unwritten = {} /\ req[r].wordings < 2

\* The service that called the first one words the error anew.
Reword(r) ==
    /\ req[r].unwritten = {}
    /\ req[r].wordings = 2
    /\ req' = [req EXCEPT ![r].unwritten = WordsOf(req[r].err), ![r].wordings = 1]
    /\ UNCHANGED <<author, answer, met>>

\* Asked for a registration code, the auth service is told that there is no such
\* user, as it should be, and goes on.
Discard(r) ==
    /\ req[r].err \in Reworded
    /\ Worded(r)
    /\ req[r].wordings = 1
    /\ req[r].unread = WordsOf(req[r].err)
    /\ req' = [req EXCEPT ![r] = Unrefused]
    /\ met' = [met EXCEPT ![r] = {}]
    /\ UNCHANGED <<author, answer>>

\* The error handler encodes one word of the error.
Read(r, w) ==
    /\ Worded(r)
    /\ w \in req[r].unread
    /\ answer' = [answer EXCEPT ![r][w] = author[req[r].err][w]]
    /\ req' = [req EXCEPT ![r].unread = @ \ {w}]
    /\ UNCHANGED <<author, met>>

ErrNext ==
    \E r \in Requests :
        \/ \E e \in Errors : \E n \in Wordings(e) : Refuse(r, e, n)
        \/ \E w \in Words : Write(r, w) \/ Read(r, w)
        \/ Reword(r)
        \/ Discard(r)

ErrSpec == ErrInit /\ [][ErrNext]_vars

-----------------------------------------------------------------------------
(* Properties *)

\* Only internal errors carry a trace, only some errors a detail, and only
\* ErrNotFound another text than the one it is declared with.
ErrTypeOK ==
    /\ author \in [Errors -> [Words -> Requests \union {Nobody}]]
    /\ req \in [Requests -> Refusal]
    /\ answer \in [Requests -> [Words -> Requests \union {Nobody}]]
    /\ met \in [Requests -> SUBSET Requests]
    /\ \A e \in Errors :
          /\ author[e]["trace"] # Nobody => e \in Traced
          /\ author[e]["kind"] # Nobody \/ author[e]["data"] # Nobody => e \in Detailed
          /\ author[e]["text"] # Nobody \/ author[e]["length"] # Nobody => e \in Reworded

\* Whoever words the error it is refused with is answered in its own words or,
\* word by word, in those of requests refused alike at the same time: a trace,
\* a detail or a message of a request long answered never comes back.
OwnOrMet ==
    \A r \in Requests : req[r].wordings # 0 =>
        \A w \in WordsOf(req[r].err) \ req[r].unread : answer[r][w] \in met[r] \union {r}
=============================================================================

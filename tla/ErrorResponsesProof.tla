------------------------ MODULE ErrorResponsesProof ------------------------
(***************************************************************************)
(* Proofs about ErrorResponses, for any number of requests and errors.     *)
(***************************************************************************)
EXTENDS ErrorResponses, TLAPS

LEMMA WordsOfType == \A e : WordsOf(e) \subseteq Words
BY ErrorsAssumption DEF WordsOf, Words

\* None is the reason of no refusal, so it has no words.
LEMMA NoWordsOfNone == WordsOf(None) = {}
BY NoneAssumption, ErrorsAssumption DEF WordsOf, Errors

-----------------------------------------------------------------------------
(* Types, and which words change at all.                                    *)

\* Nothing is written into a word that the errors of a kind have not.
Untouched ==
    \A e \in Errors : \A w \in Words : author[e][w] # Nobody => w \in WordsOf(e)

\* A request's words to be written and to be read are words of its error.
Course ==
    \A r \in Requests :
        /\ req[r].unread \subseteq WordsOf(req[r].err)
        /\ req[r].unwritten \subseteq WordsOf(req[r].err)
        /\ req[r].unwritten # {} => /\ req[r].unread = WordsOf(req[r].err)
                                    /\ req[r].wordings # 0
        /\ req[r].wordings = 2 => req[r].unread = WordsOf(req[r].err)

TypeInv ==
    /\ author \in [Errors -> [Words -> Requests \union {Nobody}]]
    /\ req \in [Requests -> Refusal]
    /\ answer \in [Requests -> [Words -> Requests \union {Nobody}]]
    /\ met \in [Requests -> SUBSET Requests]
    /\ Untouched
    /\ Course

LEMMA UnrefusedAtFirst ==
  ErrInit => \A r \in Requests :
                 req[r].wordings = 0 /\ req[r].unread = {} /\ req[r].unwritten = {}
<1> SUFFICES ASSUME ErrInit, NEW r \in Requests
             PROVE  req[r].wordings = 0 /\ req[r].unread = {} /\ req[r].unwritten = {}
  OBVIOUS
<1>1. req[r] = Unrefused
  BY DEF ErrInit
<1>2. Unrefused.wordings = 0 /\ Unrefused.unread = {} /\ Unrefused.unwritten = {}
  BY DEF Unrefused
<1> QED
  BY <1>1, <1>2, Zenon

LEMMA OneLess ==
  ASSUME NEW q \in Refusal, NEW w
  PROVE  /\ [q EXCEPT !.unwritten = @ \ {w}] \in Refusal
         /\ [q EXCEPT !.unread = @ \ {w}] \in Refusal
BY DEF Refusal

LEMMA TypeInvInit == ErrInit => TypeInv
<1> SUFFICES ASSUME ErrInit PROVE TypeInv
  OBVIOUS
<1>1. req \in [Requests -> Refusal]
  <2>1. Unrefused \in Refusal
    BY DEF Unrefused, Refusal
  <2> QED
    BY <2>1 DEF ErrInit
<1>2. Untouched
  BY DEF ErrInit, Untouched
<1>3. Course
  <2> SUFFICES ASSUME NEW r \in Requests
               PROVE  /\ req[r].unread \subseteq WordsOf(req[r].err)
                      /\ req[r].unwritten \subseteq WordsOf(req[r].err)
                      /\ req[r].unwritten = {}
                      /\ req[r].wordings # 2
    BY DEF Course
  <2>1. req[r].wordings = 0 /\ req[r].unread = {} /\ req[r].unwritten = {}
    BY UnrefusedAtFirst
  <2> QED
    BY <2>1
<1>4. /\ author \in [Errors -> [Words -> Requests \union {Nobody}]]
      /\ answer \in [Requests -> [Words -> Requests \union {Nobody}]]
      /\ met \in [Requests -> SUBSET Requests]
  <2>1. [w \in Words |-> Nobody] \in [Words -> Requests \union {Nobody}]
    OBVIOUS
  <2>2. author \in [Errors -> [Words -> Requests \union {Nobody}]]
    BY <2>1, Zenon DEF ErrInit
  <2>3. answer \in [Requests -> [Words -> Requests \union {Nobody}]]
    BY <2>1, Zenon DEF ErrInit
  <2>4. met \in [Requests -> SUBSET Requests]
    BY Zenon DEF ErrInit
  <2> QED
    BY <2>2, <2>3, <2>4
<1> QED
  BY <1>1, <1>2, <1>3, <1>4 DEF TypeInv

LEMMA TypeInvStep == TypeInv /\ [ErrNext]_vars => TypeInv'
<1> SUFFICES ASSUME TypeInv, [ErrNext]_vars PROVE TypeInv'
  OBVIOUS
<1>0. /\ author \in [Errors -> [Words -> Requests \union {Nobody}]]
      /\ req \in [Requests -> Refusal]
      /\ answer \in [Requests -> [Words -> Requests \union {Nobody}]]
      /\ met \in [Requests -> SUBSET Requests]
      /\ Untouched /\ Course
  BY DEF TypeInv
<1>1. ASSUME NEW r \in Requests, NEW e \in Errors, NEW n \in Wordings(e), Refuse(r, e, n)
      PROVE  TypeInv'
  <2> DEFINE q == [err |-> e, wordings |-> n,
                   unwritten |-> IF n = 0 THEN {} ELSE WordsOf(e), unread |-> WordsOf(e)]
  <2>1. n \in 0..2
    BY ErrorsAssumption DEF Wordings
  <2>2. q \in Refusal
    BY <2>1, WordsOfType DEF Refusal
  <2>3. req' = [req EXCEPT ![r] = q] /\ UNCHANGED <<author, answer>>
    BY <1>1 DEF Refuse
  <2>4. req' \in [Requests -> Refusal]
    BY <1>0, <2>2, <2>3
  <2>5. met' \in [Requests -> SUBSET Requests]
    BY <1>0, <1>1 DEF Refuse, Alike
  <2>6. Course'
    BY <1>0, <2>3 DEF Course, Refusal
  <2>7. Untouched'
    BY <1>0, <2>3 DEF Untouched
  <2> QED
    BY <1>0, <2>3, <2>4, <2>5, <2>6, <2>7 DEF TypeInv
<1>2. ASSUME NEW r \in Requests, NEW w \in Words, Write(r, w)
      PROVE  TypeInv'
  <2>1. /\ w \in req[r].unwritten /\ req[r].err \in Errors /\ w \in WordsOf(req[r].err)
        /\ author' = [author EXCEPT ![req[r].err][w] = r]
        /\ req' = [req EXCEPT ![r].unwritten = @ \ {w}]
        /\ UNCHANGED <<answer, met>>
    BY <1>0, <1>2, NoWordsOfNone DEF Write, Course, Refusal
  <2>2. author' \in [Errors -> [Words -> Requests \union {Nobody}]]
    BY <1>0, <2>1
  <2>3. req' \in [Requests -> Refusal]
    <3>1. [req[r] EXCEPT !.unwritten = @ \ {w}] \in Refusal
      BY <1>0, OneLess
    <3> QED
      BY <1>0, <2>1, <3>1
  <2>4. Untouched'
    BY <1>0, <2>1 DEF Untouched
  <2>5. Course'
    BY <1>0, <2>1 DEF Course, Refusal
  <2> QED
    BY <1>0, <2>1, <2>2, <2>3, <2>4, <2>5 DEF TypeInv
<1>3. ASSUME NEW r \in Requests, NEW w \in Words, Read(r, w)
      PROVE  TypeInv'
  <2>1. /\ w \in req[r].unread /\ req[r].err \in Errors
        /\ req[r].unwritten = {} /\ req[r].wordings < 2
        /\ answer' = [answer EXCEPT ![r][w] = author[req[r].err][w]]
        /\ req' = [req EXCEPT ![r].unread = @ \ {w}]
        /\ UNCHANGED <<author, met>>
    BY <1>0, <1>3, NoWordsOfNone DEF Read, Worded, Course, Refusal
  <2>2. answer' \in [Requests -> [Words -> Requests \union {Nobody}]]
    <3>1. author[req[r].err][w] \in Requests \union {Nobody}
      BY <1>0, <2>1
    <3> QED
      BY <1>0, <2>1, <3>1
  <2>3. req' \in [Requests -> Refusal]
    <3>1. [req[r] EXCEPT !.unread = @ \ {w}] \in Refusal
      BY <1>0, OneLess
    <3> QED
      BY <1>0, <2>1, <3>1
  <2>4. Untouched'
    BY <1>0, <2>1 DEF Untouched
  <2>5. Course'
    BY <1>0, <2>1 DEF Course, Refusal
  <2> QED
    BY <1>0, <2>1, <2>2, <2>3, <2>4, <2>5 DEF TypeInv
<1>4. ASSUME NEW r \in Requests, Reword(r)
      PROVE  TypeInv'
  <2>1. /\ req' = [req EXCEPT ![r].unwritten = WordsOf(req[r].err), ![r].wordings = 1]
        /\ req[r].wordings = 2 /\ UNCHANGED <<author, answer, met>>
    BY <1>4 DEF Reword
  <2>2. req' \in [Requests -> Refusal]
    BY <1>0, <2>1, WordsOfType DEF Refusal
  <2>3. Untouched'
    BY <1>0, <2>1 DEF Untouched
  <2>4. Course'
    BY <1>0, <2>1 DEF Course, Refusal
  <2> QED
    BY <1>0, <2>1, <2>2, <2>3, <2>4 DEF TypeInv
<1>5. ASSUME NEW r \in Requests, Discard(r)
      PROVE  TypeInv'
  <2>1. /\ req' = [req EXCEPT ![r] = Unrefused] /\ met' = [met EXCEPT ![r] = {}]
        /\ UNCHANGED <<author, answer>>
    BY <1>5 DEF Discard
  <2>2. req' \in [Requests -> Refusal] /\ met' \in [Requests -> SUBSET Requests]
    BY <1>0, <2>1 DEF Refusal, Unrefused
  <2>3. Untouched'
    BY <1>0, <2>1 DEF Untouched
  <2>4. Course'
    BY <1>0, <2>1 DEF Course, Refusal, Unrefused
  <2> QED
    BY <1>0, <2>1, <2>2, <2>3, <2>4 DEF TypeInv
<1>6. CASE UNCHANGED vars
  BY <1>0, <1>6 DEF vars, TypeInv, Untouched, Course
<1> QED
  BY <1>1, <1>2, <1>3, <1>4, <1>5, <1>6 DEF ErrNext

\* Each kind of error is only ever changed in the words its services write.
THEOREM ErrTypeCorrect == ErrSpec => []ErrTypeOK
<1>1. TypeInv => ErrTypeOK
  BY ErrorsAssumption DEF TypeInv, ErrTypeOK, Untouched, WordsOf, Words
<1> QED
  BY <1>1, TypeInvInit, TypeInvStep, PTL DEF ErrSpec

-----------------------------------------------------------------------------
(* Whose words an answer is made of.                                        *)

Company(r) == met[r] \union {r}

\* Requests that are refused alike at the same time know each other.
Acquainted ==
    \A r, s \in Requests :
        /\ r # s /\ req[r].err = req[s].err
        /\ req[r].unread # {} /\ req[s].unread # {}
        => s \in met[r]

\* What a request has written and not read yet is its own or rewritten by
\* somebody it has met.
WrittenInCompany ==
    \A r \in Requests : req[r].wordings # 0 =>
        \A w \in req[r].unread \ req[r].unwritten : author[req[r].err][w] \in Company(r)

AnswerInv == Acquainted /\ WrittenInCompany /\ OwnOrMet

LEMMA AnswerInit == ErrInit => AnswerInv
BY UnrefusedAtFirst DEF AnswerInv, Acquainted, WrittenInCompany, OwnOrMet

LEMMA AnswerStep == TypeInv /\ AnswerInv /\ [ErrNext]_vars => AnswerInv'
<1> SUFFICES ASSUME TypeInv, AnswerInv, [ErrNext]_vars PROVE AnswerInv'
  OBVIOUS
<1>0. /\ author \in [Errors -> [Words -> Requests \union {Nobody}]]
      /\ req \in [Requests -> Refusal]
      /\ answer \in [Requests -> [Words -> Requests \union {Nobody}]]
      /\ met \in [Requests -> SUBSET Requests]
      /\ Course /\ Acquainted /\ WrittenInCompany /\ OwnOrMet
  BY DEF TypeInv, AnswerInv
<1>1. ASSUME NEW r \in Requests, NEW e \in Errors, NEW n \in Wordings(e), Refuse(r, e, n)
      PROVE  AnswerInv'
  <2>1. /\ req[r].unread = {} /\ UNCHANGED <<author, answer>>
        /\ req'[r].err = e /\ req'[r].wordings = n /\ req'[r].unread = WordsOf(e)
        /\ n # 0 => req'[r].unwritten = WordsOf(e)
        /\ \A s \in Requests \ {r} : req'[s] = req[s]
    BY <1>0, <1>1 DEF Refuse, Unrefused
  <2>2. /\ met'[r] = Alike(e)
        /\ \A s \in Requests \ {r} : /\ met[s] \subseteq met'[s]
                                     /\ s \in Alike(e) => r \in met'[s]
    BY <1>0, <1>1 DEF Refuse
  <2>3. Acquainted'
    <3> SUFFICES ASSUME NEW s \in Requests, NEW t \in Requests,
                        s # t, req'[s].err = req'[t].err, req'[s].unread # {}, req'[t].unread # {}
                 PROVE  t \in met'[s]
      BY DEF Acquainted
    <3>1. CASE s = r
      BY <2>1, <2>2, <3>1 DEF Alike
    <3>2. CASE t = r
      BY <2>1, <2>2, <3>2 DEF Alike
    <3>3. CASE s # r /\ t # r
      BY <1>0, <2>1, <2>2, <3>3 DEF Acquainted
    <3> QED
      BY <3>1, <3>2, <3>3
  <2>4. WrittenInCompany'
    <3> SUFFICES ASSUME NEW s \in Requests, req'[s].wordings # 0,
                        NEW w \in req'[s].unread \ req'[s].unwritten
                 PROVE  author'[req'[s].err][w] \in Company(s)'
      BY DEF WrittenInCompany
    <3>1. s # r
      BY <2>1
    <3> QED
      BY <1>0, <2>1, <2>2, <3>1 DEF WrittenInCompany, Company
  <2>5. OwnOrMet'
    <3> SUFFICES ASSUME NEW s \in Requests, req'[s].wordings # 0,
                        NEW w \in WordsOf(req'[s].err) \ req'[s].unread
                 PROVE  answer'[s][w] \in met'[s] \union {s}
      BY DEF OwnOrMet
    <3>1. s # r
      BY <2>1
    <3> QED
      BY <1>0, <2>1, <2>2, <3>1 DEF OwnOrMet
  <2> QED
    BY <2>3, <2>4, <2>5 DEF AnswerInv
<1>2. ASSUME NEW r \in Requests, NEW w \in Words, Write(r, w)
      PROVE  AnswerInv'
  <2>1. /\ w \in req[r].unwritten /\ req[r].err \in Errors /\ w \in req[r].unread
        /\ author' = [author EXCEPT ![req[r].err][w] = r]
        /\ req' = [req EXCEPT ![r].unwritten = @ \ {w}]
        /\ UNCHANGED <<answer, met>>
    BY <1>0, <1>2, NoWordsOfNone DEF Write, Course, Refusal
  <2>2. \A s \in Requests : /\ req'[s].err = req[s].err /\ req'[s].unread = req[s].unread
                            /\ req'[s].wordings = req[s].wordings
                            /\ s # r => req'[s].unwritten = req[s].unwritten
                            /\ req'[s].unwritten \union {w} = req[s].unwritten \union {w}
    BY <1>0, <2>1 DEF Refusal
  <2>3. Acquainted'
    BY <1>0, <2>1, <2>2 DEF Acquainted
  <2>4. WrittenInCompany'
    <3> SUFFICES ASSUME NEW s \in Requests, req'[s].wordings # 0,
                        NEW v \in req'[s].unread \ req'[s].unwritten
                 PROVE  author'[req'[s].err][v] \in Company(s)'
      BY DEF WrittenInCompany
    <3>1. /\ req[s].wordings # 0 /\ v \in req[s].unread /\ req'[s].err = req[s].err
          /\ req[s].err \in Errors /\ v \in Words
      BY <1>0, <2>2, NoWordsOfNone, WordsOfType DEF Course, Refusal
    <3>2. CASE v = w /\ req[s].err = req[r].err
      <4>1. author'[req[s].err][v] = r
        BY <1>0, <2>1, <3>1, <3>2
      <4>2. r \in Company(s)
        BY <1>0, <2>1, <3>1, <3>2 DEF Acquainted, Company
      <4> QED
        BY <2>1, <3>1, <4>1, <4>2 DEF Company
    <3>3. CASE ~(v = w /\ req[s].err = req[r].err)
      <4>1. author'[req[s].err][v] = author[req[s].err][v]
        BY <1>0, <2>1, <3>1, <3>3
      <4>2. v \notin req[s].unwritten
        BY <2>2, <3>3
      <4> QED
        BY <1>0, <2>1, <3>1, <4>1, <4>2 DEF WrittenInCompany, Company
    <3> QED
      BY <3>2, <3>3
  <2>5. OwnOrMet'
    BY <1>0, <2>1, <2>2 DEF OwnOrMet
  <2> QED
    BY <2>3, <2>4, <2>5 DEF AnswerInv
<1>3. ASSUME NEW r \in Requests, NEW w \in Words, Read(r, w)
      PROVE  AnswerInv'
  <2>1. /\ w \in req[r].unread /\ req[r].unwritten = {}
        /\ answer' = [answer EXCEPT ![r][w] = author[req[r].err][w]]
        /\ req' = [req EXCEPT ![r].unread = @ \ {w}]
        /\ UNCHANGED <<author, met>>
    BY <1>3 DEF Read, Worded
  <2>2. \A s \in Requests : /\ req'[s].err = req[s].err /\ req'[s].unwritten = req[s].unwritten
                            /\ req'[s].wordings = req[s].wordings
                            /\ req'[s].unread = IF s = r THEN req[s].unread \ {w} ELSE req[s].unread
    BY <1>0, <2>1 DEF Refusal
  <2>3. Acquainted'
    BY <1>0, <2>1, <2>2 DEF Acquainted
  <2>4. WrittenInCompany'
    BY <1>0, <2>1, <2>2 DEF WrittenInCompany, Company
  <2>5. OwnOrMet'
    <3> SUFFICES ASSUME NEW s \in Requests, req'[s].wordings # 0,
                        NEW v \in WordsOf(req'[s].err) \ req'[s].unread
                 PROVE  answer'[s][v] \in met'[s] \union {s}
      BY DEF OwnOrMet
    <3>1. CASE s = r /\ v = w
      <4>1. author[req[r].err][w] \in Company(r)
        BY <1>0, <2>1, <2>2, <3>1 DEF WrittenInCompany
      <4>2. answer'[s][v] = author[req[r].err][w]
        BY <1>0, <2>1, <3>1
      <4> QED
        BY <2>1, <3>1, <4>1, <4>2 DEF Company
    <3>2. CASE ~(s = r /\ v = w)
      <4>1. answer'[s][v] = answer[s][v]
        BY <1>0, <2>1, <2>2, <3>2, WordsOfType
      <4> QED
        BY <1>0, <2>1, <2>2, <3>2, <4>1 DEF OwnOrMet
    <3> QED
      BY <3>1, <3>2
  <2> QED
    BY <2>3, <2>4, <2>5 DEF AnswerInv
<1>4. ASSUME NEW r \in Requests, Reword(r)
      PROVE  AnswerInv'
  <2>1. /\ req[r].wordings = 2 /\ UNCHANGED <<author, answer, met>>
        /\ req'[r].err = req[r].err /\ req'[r].unread = req[r].unread
        /\ req'[r].unwritten = WordsOf(req[r].err)
        /\ \A s \in Requests \ {r} : req'[s] = req[s]
    BY <1>0, <1>4 DEF Reword, Refusal
  <2>2. Acquainted'
    BY <1>0, <2>1 DEF Acquainted
  <2>3. WrittenInCompany'
    BY <1>0, <2>1 DEF WrittenInCompany, Company, Course
  <2>4. OwnOrMet'
    BY <1>0, <2>1 DEF OwnOrMet
  <2> QED
    BY <2>2, <2>3, <2>4 DEF AnswerInv
<1>5. ASSUME NEW r \in Requests, Discard(r)
      PROVE  AnswerInv'
  <2>1. /\ req'[r] = Unrefused /\ UNCHANGED <<author, answer>>
        /\ \A s \in Requests \ {r} : req'[s] = req[s] /\ met'[s] = met[s]
    BY <1>0, <1>5 DEF Discard
  <2>2. req'[r].unread = {} /\ req'[r].wordings = 0
    BY <2>1 DEF Unrefused
  <2>3. Acquainted'
    BY <1>0, <2>1, <2>2 DEF Acquainted
  <2>4. WrittenInCompany'
    BY <1>0, <2>1, <2>2 DEF WrittenInCompany, Company
  <2>5. OwnOrMet'
    BY <1>0, <2>1, <2>2 DEF OwnOrMet
  <2> QED
    BY <2>3, <2>4, <2>5 DEF AnswerInv
<1>6. CASE UNCHANGED vars
  BY <1>0, <1>6 DEF vars, AnswerInv, Acquainted, WrittenInCompany, OwnOrMet, Company
<1> QED
  BY <1>1, <1>2, <1>3, <1>4, <1>5, <1>6 DEF ErrNext

\* No answer is made of words of a request that was answered before, whatever
\* the number of requests, the order of the words and the races between them.
THEOREM AnswersOwnOrMet == ErrSpec => []OwnOrMet
<1>1. AnswerInv => OwnOrMet
  BY DEF AnswerInv
<1> QED
  BY <1>1, TypeInvInit, TypeInvStep, AnswerInit, AnswerStep, PTL DEF ErrSpec
=============================================================================

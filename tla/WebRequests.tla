---------------------------- MODULE WebRequests ----------------------------
(***************************************************************************)
(* The requests of the app-server that the user answers in the browser     *)
(* (an approval, a question, a form): the list of them is polled           *)
(* (src/web/src/features/session/use-codex-pending-requests.ts), each is   *)
(* described by its method (pending-request-utils.ts), and the user's input*)
(* is kept per request until it is sent                                    *)
(* (components/SessionPendingRequests.tsx).                                *)
(*                                                                         *)
(* A request is a record [id, session, method, mode, decisions, questions, *)
(* schema]; a question is [id, options, other], a field of a schema is     *)
(* [key, type, required].  Titles, messages, layout and the order of the   *)
(* list are left out.                                                      *)
(***************************************************************************)
EXTENDS Naturals, Sequences, FiniteSets, SequencesExt

CONSTANTS
  Requests,       (* the requests there may be                              *)
  Sessions,
  QuestionIDs,    (* ids of questions and keys of fields                    *)
  Keys,
  Texts,          (* what the user types; "" is empty or blank              *)
  Numbers,        (* the texts that are numbers                             *)
  JSONTexts,      (* the texts that are JSON                                *)
  MaxCalls,       (* lists that are asked for at a time                     *)
  MaxOps          (* bound on what the user and the server do               *)

VARIABLES
  waiting,    (* the server: the requests that wait                         *)
  gone,       (* the server: the requests that are over                     *)
  received,   (* the server: the answers that were accepted                 *)
  session,    (* the session that is shown                                  *)
  lists,      (* pendingBySessionID                                         *)
  issued,     (* requestSeqRef                                              *)
  calls,      (* the lists that were asked for                              *)
  error,      (* an error is shown                                          *)
  resolving,  (* resolvingRequestID, "" for none                            *)
  answers,    (* the answers on their way                                   *)
  drafts,     (* what the user has chosen and typed for each request        *)
  wrong,      (* the requests with an error of their own                    *)
  left,       (* ghost: the requests that have left their list              *)
  answered,   (* ghost: those answered here since a list was last asked for *)
  ops         (* what was done so far                                       *)

vars == <<waiting, gone, received, session, lists, issued, calls, error, resolving,
          answers, drafts, wrong, left, answered, ops>>
server == <<waiting, gone, received>>
input == <<drafts, wrong>>
history == <<left, answered>>
listing == <<issued, calls, lists, history>>

Op == ops < MaxOps /\ ops' = ops + 1

-----------------------------------------------------------------------------
(* describePendingRequest.                                                 *)

SimpleDecisionList(raw, fallback) ==
  LET distinct == FoldLeft(LAMBDA out, d : IF d = "" \/ Contains(out, d) THEN out
                                           ELSE Append(out, d), <<>>, raw)
  IN IF distinct # <<>> THEN distinct ELSE fallback

FieldTypes == {"string", "number", "integer", "boolean"}

(* A schema with a field of another type is no simple one.                 *)
SimpleSchemaFields(schema) ==
  IF \A k \in DOMAIN schema : schema[k].type \in FieldTypes THEN schema ELSE <<>>

Descriptor(kind, decisions, questions, fields) ==
  [kind |-> kind, decisions |-> decisions, questions |-> questions, fields |-> fields]

DescribePendingRequest(q) ==
  CASE q.method = "item/commandExecution/requestApproval" ->
         Descriptor("command-approval",
                    SimpleDecisionList(q.decisions, <<"accept", "decline", "cancel">>), <<>>, <<>>)
    [] q.method = "item/fileChange/requestApproval" ->
         Descriptor("file-approval", <<"accept", "acceptForSession", "decline", "cancel">>,
                    <<>>, <<>>)
    [] q.method = "item/tool/requestUserInput" ->
         Descriptor("tool-user-input", <<>>, SelectSeq(q.questions, LAMBDA x : x.id # ""), <<>>)
    [] q.method = "mcpServer/elicitation/request" /\ q.mode = "url" ->
         Descriptor("mcp-url", <<"accept", "decline", "cancel">>, <<>>, <<>>)
    [] q.method = "mcpServer/elicitation/request" /\ q.mode # "url" ->
         Descriptor("mcp-form", <<"decline", "cancel">>, <<>>, SimpleSchemaFields(q.schema))
    [] OTHER -> Descriptor("generic", <<>>, <<>>, <<>>)

Kind(q) == DescribePendingRequest(q).kind

-----------------------------------------------------------------------------
(* The server.                                                             *)

Ask(q) ==
  /\ q \notin waiting \cup gone /\ Op
  /\ waiting' = waiting \cup {q}
  /\ UNCHANGED <<gone, received, session, listing, error, resolving, answers, input>>

Without(requests, id) == {x \in requests : x.id # id}

(* The turn is over, or another client has answered.                       *)
Withdraw(q) ==
  /\ q \in waiting /\ Op
  /\ waiting' = Without(waiting, q.id)
  /\ gone' = gone \cup {q}
  /\ UNCHANGED <<received, session, listing, error, resolving, answers, input>>

-----------------------------------------------------------------------------
(* The list.                                                               *)

NewCall(s) == [seq |-> issued + 1, session |-> s, phase |-> "sent", list |-> {}]

Issued(s) ==
  /\ issued' = issued + 1
  /\ calls' = calls \cup {NewCall(s)}
  /\ answered' = {}

(* refresh, by the timer or the button.                                    *)
Refresh ==
  /\ Cardinality(calls) < MaxCalls /\ Op
  /\ Issued(session)
  /\ UNCHANGED <<server, session, lists, left, error, resolving, answers, input>>

(* Another session is shown, and its list is asked for at once.            *)
Show(s) ==
  /\ s # session /\ Cardinality(calls) < MaxCalls /\ Op
  /\ session' = s
  /\ Issued(s)
  /\ UNCHANGED <<server, lists, left, error, resolving, answers, input>>

ListAnswered ==
  \E c \in calls :
    /\ c.phase = "sent"
    /\ calls' = (calls \ {c}) \cup
         {[c EXCEPT !.phase = "answered", !.list = {q \in waiting : q.session = c.session}]}
    /\ UNCHANGED <<server, session, issued, lists, history, error, resolving, answers, input,
                   ops>>

(* Mutation: a list is shown however late it comes.                        *)
IsAny(c) == TRUE

IsLatest(c) == c.seq = issued

(* What the input of a request is at first.                                *)
NoDraft == [selected |-> [x \in QuestionIDs |-> ""], other |-> [x \in QuestionIDs |-> ""],
            fields |-> [k \in Keys |-> ""], json |-> ""]

(* The effect on the list that is shown gives every request that takes     *)
(* JSON and has none an empty object.                                      *)
WithJSON(shown) ==
  [id \in DOMAIN drafts |->
     IF /\ drafts[id].json = ""
        /\ \E q \in shown : q.id = id /\ Kind(q) \in {"mcp-form", "generic"}
     THEN [drafts[id] EXCEPT !.json = "{}"] ELSE drafts[id]]

Listed(q) == q \in lists[q.session]

(* The requests that the lists no longer have have left them.              *)
Leave == left' = left \cup {q \in Requests : Listed(q) /\ q \notin lists'[q.session]}

ListLands ==
  \E c \in calls :
    /\ c.phase = "answered"
    /\ calls' = calls \ {c}
    /\ IF IsLatest(c)
       THEN /\ lists' = [lists EXCEPT ![c.session] = c.list]
            /\ Leave
            /\ error' = FALSE
            /\ drafts' = WithJSON(lists'[session])
       ELSE UNCHANGED <<lists, left, error, drafts>>
    /\ UNCHANGED <<server, session, issued, answered, resolving, answers, wrong, ops>>

ListFails ==
  \E c \in calls :
    /\ Op
    /\ calls' = calls \ {c}
    /\ error' = (error \/ IsLatest(c))
    /\ UNCHANGED <<server, session, issued, lists, history, resolving, answers, input>>

-----------------------------------------------------------------------------
(* The user's input.  A control of a request is disabled while it is being *)
(* resolved.                                                               *)

Shown(q) == q \in lists[session]
Busy(q) == resolving = q.id
CanAct(q) == Shown(q) /\ ~Busy(q) /\ Op

Edit(q, draft) ==
  /\ CanAct(q)
  /\ drafts' = [drafts EXCEPT ![q.id] = draft]
  /\ UNCHANGED <<server, session, listing, error, resolving, answers, wrong>>

(* An option of a question is chosen; "__other__" when the user may give   *)
(* another answer.                                                         *)
Choose(q, x) ==
  \E option \in ToSet(x.options) \cup (IF x.options # <<>> /\ x.other THEN {"__other__"} ELSE {}) :
    Edit(q, [drafts[q.id] EXCEPT !.selected[x.id] = option])

(* An answer is typed; typing is choosing when there are no options.       *)
Type(q, x, text) ==
  /\ x.options = <<>> \/ drafts[q.id].selected[x.id] = "__other__"
  /\ Edit(q, [drafts[q.id] EXCEPT !.other[x.id] = text, !.selected[x.id] = "__other__"])

Fill(q, field, text) ==
  /\ field.type # "boolean" \/ text \in {"", "true"}
  /\ Edit(q, [drafts[q.id] EXCEPT !.fields[field.key] = text])

TypeJSON(q, text) ==
  /\ Kind(q) = "generic" \/ (Kind(q) = "mcp-form" /\ DescribePendingRequest(q).fields = <<>>)
  /\ Edit(q, [drafts[q.id] EXCEPT !.json = text])

-----------------------------------------------------------------------------
(* Answering.                                                              *)

Payload(decision, given, content, json) ==
  [decision |-> decision, answers |-> given, content |-> content, json |-> json]

Resolve(q, payload) ==
  /\ resolving' = q.id
  /\ error' = FALSE
  /\ answers' = answers \cup {[request |-> q, payload |-> payload]}
  /\ wrong' = wrong \ {q.id}
  /\ UNCHANGED <<server, session, listing, drafts>>

Complain(q) ==
  /\ wrong' = wrong \cup {q.id}
  /\ UNCHANGED <<server, session, listing, error, resolving, answers, drafts>>

Decide(q) ==
  /\ CanAct(q)
  /\ \E d \in ToSet(DescribePendingRequest(q).decisions) : Resolve(q, Payload(d, {}, {}, ""))

Given(q, x) ==
  LET selected == drafts[q.id].selected[x.id]
  IN IF selected = "__other__" THEN drafts[q.id].other[x.id] ELSE selected

(* onSubmitUserInput.                                                      *)
SubmitUserInput(q) ==
  LET questions == ToSet(DescribePendingRequest(q).questions)
  IN /\ Kind(q) = "tool-user-input"
     /\ CanAct(q)
     /\ IF \E x \in questions : Given(q, x) = "" THEN Complain(q)
        ELSE Resolve(q, Payload("", {<<x.id, Given(q, x)>> : x \in questions}, {}, ""))

(* Mutation: a field that is required may be empty.                        *)
AcceptableIfNumber(field, text) ==
  \/ field.type \in {"boolean", "string"} \/ text = ""
  \/ text \in Numbers

(* A field that is no boolean must be filled when it is required, and must *)
(* be a number when it is to be one.                                       *)
Acceptable(field, text) ==
  \/ field.type = "boolean"
  \/ IF text = "" THEN ~field.required
     ELSE field.type \in {"number", "integer"} => text \in Numbers

(* onSubmitMcpForm; a boolean is always sent, an empty field never.        *)
SubmitMcpForm(q) ==
  LET fields == ToSet(DescribePendingRequest(q).fields)
      draft == drafts[q.id]
      content == {<<f.key, draft.fields[f.key]>> :
                    f \in {g \in fields : g.type = "boolean" \/ draft.fields[g.key] # ""}}
  IN /\ Kind(q) = "mcp-form"
     /\ CanAct(q)
     /\ IF IF fields # {} THEN \A f \in fields : Acceptable(f, draft.fields[f.key])
           ELSE draft.json \in JSONTexts
        THEN Resolve(q, Payload("accept", {}, content, IF fields = {} THEN draft.json ELSE ""))
        ELSE Complain(q)

(* onSubmitGenericJSON; nothing typed is an empty object.                  *)
SubmitGenericJSON(q) ==
  LET draft == drafts[q.id].json
  IN /\ Kind(q) = "generic"
     /\ CanAct(q)
     /\ IF draft = "" THEN Resolve(q, Payload("", {}, {}, "{}"))
        ELSE IF draft \in JSONTexts THEN Resolve(q, Payload("", {}, {}, draft))
        ELSE Complain(q)

(* The server takes the answer of a request that waits.                    *)
Accept ==
  \E a \in answers :
    /\ a.request \in waiting
    /\ waiting' = Without(waiting, a.request.id)
    /\ gone' = gone \cup {a.request}
    /\ received' = received \cup {a}
    /\ UNCHANGED <<session, listing, error, resolving, answers, input, ops>>

(* The call returns: the request leaves the list of the session it was     *)
(* shown in, and a list that is on its way may still land (requestSeqRef   *)
(* stays).  Whichever request is being resolved, none is any more.         *)
Resolved ==
  \E a \in answers :
    /\ a \in received
    /\ answers' = answers \ {a}
    /\ lists' = [lists EXCEPT ![a.request.session] = Without(@, a.request.id)]
    /\ Leave
    /\ answered' = answered \cup {a.request}
    /\ resolving' = ""
    /\ UNCHANGED <<server, session, issued, calls, error, input, ops>>

(* The server refuses, or cannot be reached; a form whose JSON was sent    *)
(* blames the JSON.                                                        *)
ResolveFails ==
  \E a \in answers :
    /\ Op
    /\ answers' = answers \ {a}
    /\ error' = TRUE
    /\ resolving' = ""
    /\ wrong' = IF a.payload.json # "" THEN wrong \cup {a.request.id} ELSE wrong
    /\ UNCHANGED <<server, session, listing, drafts>>

-----------------------------------------------------------------------------

Init ==
  /\ waiting = {}
  /\ gone = {}
  /\ received = {}
  /\ session \in Sessions
  /\ lists = [s \in Sessions |-> {}]
  /\ issued = 0
  /\ calls = {}
  /\ error = FALSE
  /\ resolving = ""
  /\ answers = {}
  /\ drafts = [id \in {q.id : q \in Requests} |-> NoDraft]
  /\ wrong = {}
  /\ left = {}
  /\ answered = {}
  /\ ops = 0

UserNext(q) ==
  \/ \E x \in ToSet(DescribePendingRequest(q).questions) :
       Choose(q, x) \/ \E text \in Texts : Type(q, x, text)
  \/ \E f \in ToSet(DescribePendingRequest(q).fields), text \in Texts : Fill(q, f, text)
  \/ \E text \in Texts : TypeJSON(q, text)
  \/ Decide(q)
  \/ SubmitUserInput(q)
  \/ SubmitMcpForm(q)
  \/ SubmitGenericJSON(q)

Next ==
  \/ \E q \in Requests : Ask(q) \/ Withdraw(q) \/ UserNext(q)
  \/ Refresh
  \/ \E s \in Sessions : Show(s)
  \/ ListAnswered \/ ListLands \/ ListFails
  \/ Accept \/ Resolved \/ ResolveFails

Spec == Init /\ [][Next]_vars

-----------------------------------------------------------------------------
(* Properties.                                                             *)

TypeOK ==
  /\ waiting \subseteq Requests
  /\ \A s \in Sessions : \A q \in lists[s] : q.session = s
  /\ \A c \in calls : c.seq \in 1..issued
  /\ answered \subseteq left
  /\ resolving \in {q.id : q \in Requests} \cup {""}
  /\ ops \in 0..MaxOps

(* A request that has left the list of its session does not come back,     *)
(* whatever the order in which the lists that were asked for arrive and    *)
(* however the user moves between sessions (requestSeqRef), except in one  *)
(* case: it was answered here and the list that was asked for last, before *)
(* the answer came back, still has it.                                     *)
ReturnsStep == \A q \in left : q \in lists'[q.session] => Listed(q) \/ q \in answered

RequestsStayGone == [][ReturnsStep]_vars

(* The server never receives an answer that lacks one to a question or a   *)
(* required field, or has a text for a number, although the input is kept  *)
(* by the id of the request while lists replace one another.               *)
CompleteAnswers ==
  \A a \in received :
    LET d == DescribePendingRequest(a.request)
    IN /\ d.kind = "tool-user-input" =>
            \A k \in DOMAIN d.questions : \E text \in Texts \cup ToSet(d.questions[k].options) :
              text \notin {"", "__other__"} /\ <<d.questions[k].id, text>> \in a.payload.answers
       /\ d.kind = "mcp-form" /\ a.payload.decision = "accept" =>
            \A k \in DOMAIN d.fields :
              LET f == d.fields[k]
                  values == {p[2] : p \in {v \in a.payload.content : v[1] = f.key}}
              IN /\ f.required => values # {}
                 /\ f.type \in {"number", "integer"} => values \subseteq Numbers
=============================================================================

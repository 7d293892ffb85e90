----------------------------- MODULE AtinyReport -----------------------------
(***************************************************************************)
(* The LwM2M agent of agent_tiny: reports of the application on their way  *)
(* to the server (atiny_rpt.c, agenttiny.c), the observations they go to   *)
(* (lwm2m/core/observe.c), the CoAP transactions that carry them           *)
(* (transaction.c) and the registration underneath (registration.c,        *)
(* liblwm2m.c).  The agent task runs the loop of atiny_bind, the tasks of  *)
(* the application report at any point of it.  One server, one object      *)
(* instance with reports, /19/0 ("app"), one other resource the server may *)
(* observe ("plain"), no bootstrap.  External: the server and the network, *)
(* which loses, delays and repeats datagrams and may fail to send them.    *)
(***************************************************************************)
EXTENDS Naturals, Sequences, SequencesExt, FiniteSets, FiniteSetsExt

CONSTANTS
    MaxReports,             \* bound: reports the application makes
    MaxUpdates,             \* bound: updates under way; the next one waits
    MaxFaults,              \* bound: allocations and sends that fail, reconnects asked for
    COAP_MAX_RETRANSMIT,
    STORING_CNT,            \* how many reports /19/0 keeps at first
    MAX_BUFFER_REPORT_CNT   \* and when the server has created it

ASSUME ReportAssumption ==
    /\ MaxReports \in Nat /\ MaxUpdates \in Nat /\ MaxFaults \in Nat
    /\ {COAP_MAX_RETRANSMIT, STORING_CNT, MAX_BUFFER_REPORT_CNT} \subseteq Nat \ {0}

Reports == 1 .. MaxReports
URIs == {"app", "plain"}

(***************************************************************************)
(* A message ID, drawn from nextMID, stands for what was sent with it.  The*)
(* notifications of "plain" need no transaction and are left out.          *)
(***************************************************************************)
Mids == ({"register"} \X {0}) \cup ({"update"} \X (1 .. MaxUpdates))
        \cup ({"notify"} \X Reports)

VARIABLES
    pc,                 \* where the agent task is in its loop
    state,              \* context->state
    status,             \* of the server object
    session,            \* its sessionH is not NULL
    reconnect_flag,
    observed,           \* observedList, newest first
    active,             \* the resources whose watcher is active
    lastReport,         \* the report that the lastMid of the watcher of "app" is from
    transactions,       \* transactionList
    sent,               \* the messages that went out over this session
    max_cnt,            \* of the report list of /19/0; 0: there is no list
    nodes,              \* the reports in it
    accepted,           \* how many atiny_data_report has taken
    told,               \* history: how often the callback of each was called
    dropped,            \* history: reports lost or sent, whose callback is never called
    faults

agentVars == <<state, status, session, reconnect_flag>>
observeVars == <<observed, active, lastReport>>
sendVars == <<transactions, sent>>
listVars == <<max_cnt, nodes, accepted>>
history == <<told, dropped>>
reportVars == <<pc, agentVars, observeVars, sendVars, listVars, history, faults>>

Registered == {"STATE_REGISTERED", "STATE_REG_FULL_UPDATE_NEEDED", "STATE_REG_UPDATE_PENDING"}

ReportInit ==
    /\ pc = "reconnect"
    /\ state = "STATE_INITIAL" /\ status = "STATE_DEREGISTERED"
    /\ session = FALSE /\ reconnect_flag = FALSE
    /\ observed = <<>> /\ active = {} /\ lastReport = 0
    /\ transactions = {} /\ sent = {}
    /\ max_cnt = STORING_CNT /\ nodes = <<>> /\ accepted = 0
    /\ told = [r \in Reports |-> 0] /\ dropped = {}
    /\ faults = 0

-----------------------------------------------------------------------------
Fault == faults < MaxFaults /\ faults' = faults + 1

(***************************************************************************)
(* A datagram goes out, and is lost when no answer to it ever comes, or    *)
(* its sending fails for the MAX_SEND_ERR_NUMth time running, which asks   *)
(* for a reconnect.                                                        *)
(***************************************************************************)
Transmit(mid) ==
    \/ sent' = sent \cup {mid} /\ UNCHANGED <<reconnect_flag, faults>>
    \/ sent' \in {sent, sent \ {mid}} /\ reconnect_flag' = TRUE /\ Fault

(***************************************************************************)
(* transaction_new and the first transmission, which sets retrans_counter  *)
(* to 1 and counts it.  live: its peer is the open connection.             *)
(***************************************************************************)
Start(mid) ==
    /\ transactions' = transactions \cup
           {[mid |-> mid, retrans |-> 2, acked |-> FALSE, live |-> TRUE]}
    /\ Transmit(mid)

Kind(t) == t.mid[1]
Carriers(r) == {t \in transactions : t.mid = <<"notify", r>>}

(***************************************************************************)
(* The callback of a transaction that is over: prv_handleRegistrationReply,*)
(* prv_handleRegistrationUpdateReply and observe_handle_ack.               *)
(***************************************************************************)
AwaitedBy(t) == <<Kind(t), status>> \in {<<"register", "STATE_REG_PENDING">>,
                                        <<"update", "STATE_REG_UPDATE_PENDING">>}

Told(S, T) ==
    [r \in Reports |-> told[r] + (IF r \in S THEN 1 ELSE 0) + (IF r \in T THEN 1 ELSE 0)]

Callback(t, ok) ==
    /\ status' = IF ~AwaitedBy(t) THEN status
                 ELSE IF ok THEN "STATE_REGISTERED" ELSE "STATE_REG_FAILED"
    /\ told' = Told({r \in Reports : t \in Carriers(r)}, {})

Finish(t, ok) ==
    /\ transactions' = transactions \ {t}
    /\ Callback(t, ok)

-----------------------------------------------------------------------------
(***************************************************************************)
(* OBSERVE_UNSUBSCRIBE of the resources in S: atiny_event_handle has       *)
(* atiny_clear_rpt_data take the reports of /19/0 out of their list, which *)
(* stays, and tell the application SENT_FAIL.                              *)
(***************************************************************************)
Unsubscribed(S) == IF "app" \in S THEN ToSet(nodes) ELSE {}
NodesWithout(S) == IF "app" \in S THEN <<>> ELSE nodes

(***************************************************************************)
(* atiny_handle_reconnect: when the flag is set, lwm2m_reconnect closes the*)
(* connection and ends every observation and every transaction.            *)
(***************************************************************************)
lwm2m_reconnect ==
    /\ pc = "reconnect" /\ reconnect_flag
    /\ reconnect_flag' = FALSE
    /\ session' = FALSE /\ status' = "STATE_DEREGISTERED"
    /\ state' = "STATE_REGISTER_REQUIRED"
    /\ LET gone == ToSet(observed)
       IN  /\ nodes' = NodesWithout(gone)
           /\ told' = Told(Unsubscribed(gone), {r \in Reports : Carriers(r) # {}})
    /\ observed' = <<>> /\ active' = {} /\ lastReport' = 0
    /\ transactions' = {} /\ sent' = {}
    /\ pc' = "state"
    /\ UNCHANGED <<max_cnt, accepted, dropped, faults>>

(***************************************************************************)
(* Nothing remembers the ID of a message that is over and is not the last  *)
(* notification of the watcher: answers to it are ignored.                 *)
(***************************************************************************)
Remembered == {t.mid : t \in transactions} \cup {<<"notify", lastReport>>}

NoReconnect ==
    /\ pc = "reconnect" /\ ~reconnect_flag
    /\ pc' = "state"
    /\ sent' = sent \cap Remembered
    /\ UNCHANGED <<agentVars, observeVars, transactions, listVars, history, faults>>

-----------------------------------------------------------------------------
(***************************************************************************)
(* The state machine at the head of lwm2m_step: each case goes to the next *)
(* step or leaves the switch.                                              *)
(***************************************************************************)
NextStep(from, to) ==
    /\ pc = "state" /\ state = from
    /\ state' = to
    /\ UNCHANGED <<pc, status, session, reconnect_flag,
                   observeVars, sendVars, listVars, history, faults>>

LeaveSwitch(from, to) ==
    /\ pc = "state" /\ state = from
    /\ state' = to /\ pc' = "observe"
    /\ UNCHANGED <<status, session, reconnect_flag,
                   observeVars, sendVars, listVars, history, faults>>

DelayExpires == NextStep("STATE_DELAY", "STATE_REGISTER_REQUIRED")

StepState ==
    \/ NextStep("STATE_INITIAL", "STATE_DELAY")
    \/ LeaveSwitch("STATE_DELAY", "STATE_DELAY")
    \/ status \in Registered /\ LeaveSwitch("STATE_REGISTERING", "STATE_READY")
    \/ status = "STATE_REG_PENDING" /\ LeaveSwitch("STATE_REGISTERING", "STATE_REGISTERING")
    \/ status \in {"STATE_REG_FAILED", "STATE_DEREGISTERED"}
       /\ LeaveSwitch("STATE_REGISTERING", "STATE_DELAY")
    \/ status \in {"STATE_REG_FAILED", "STATE_DEREGISTERED"}
       /\ NextStep("STATE_READY", "STATE_REGISTER_REQUIRED")
    \/ status \notin {"STATE_REG_FAILED", "STATE_DEREGISTERED"}
       /\ LeaveSwitch("STATE_READY", "STATE_READY")

(***************************************************************************)
(* prv_register: a connection if there is none, a transaction, its first   *)
(* transmission; the status is pending when that did not fail.             *)
(***************************************************************************)
prv_register ==
    /\ pc = "state" /\ state = "STATE_REGISTER_REQUIRED"
    /\ status \in {"STATE_DEREGISTERED", "STATE_REG_FAILED"}
    /\ session' = TRUE
    /\ Start(<<"register", 0>>)
    /\ status' = "STATE_REG_PENDING"
    /\ state' = "STATE_REGISTERING" /\ pc' = "observe"
    /\ UNCHANGED <<observeVars, listVars, history>>

PendingBeforeSent ==        \* faulty: the status is set before the message is sent
    /\ Fault
    /\ pc = "state" /\ state = "STATE_REGISTER_REQUIRED"
    /\ session' \in {session, TRUE}
    /\ status' = "STATE_REG_PENDING"
    /\ state' = "STATE_DELAY" /\ pc' = "observe"
    /\ UNCHANGED <<reconnect_flag, observeVars, sendVars, listVars, history>>

RegisterFails ==
    /\ Fault
    /\ pc = "state" /\ state = "STATE_REGISTER_REQUIRED"
    /\ session' \in {session, TRUE}
    /\ state' = "STATE_DELAY" /\ pc' = "observe"
    /\ UNCHANGED <<status, reconnect_flag, observeVars, sendVars, listVars, history>>

-----------------------------------------------------------------------------
(***************************************************************************)
(* observe_step: observe_app_step takes every report out of the list,      *)
(* whatever becomes of it.  One with a callback travels in a transaction,  *)
(* one without is sent once, unconfirmed; an inactive watcher, a failing   *)
(* allocation or a closed connection loses it.                             *)
(***************************************************************************)
TakeReport ==
    /\ pc = "observe" /\ "app" \in ToSet(observed) /\ nodes # <<>>
    /\ nodes' = Tail(nodes)
    /\ UNCHANGED <<pc, state, status, session, observed, active, max_cnt, accepted, told>>

SendReport ==
    /\ TakeReport
    /\ "app" \in active /\ session
    /\ Start(<<"notify", Head(nodes)>>)
    /\ lastReport' = Head(nodes)
    /\ UNCHANGED dropped

SendUnconfirmed ==
    /\ TakeReport
    /\ "app" \in active /\ session
    /\ Transmit(<<"notify", Head(nodes)>>)
    /\ lastReport' = Head(nodes)
    /\ dropped' = dropped \cup {Head(nodes)}
    /\ UNCHANGED transactions

LoseReport ==
    /\ TakeReport
    /\ dropped' = dropped \cup {Head(nodes)}
    /\ \/ "app" \notin active /\ UNCHANGED <<lastReport, faults>>
       \/ "app" \in active /\ ~session /\ lastReport' = 0 /\ UNCHANGED faults
       \/ "app" \in active /\ session /\ lastReport' \in {lastReport, 0} /\ Fault
    /\ UNCHANGED <<reconnect_flag, sendVars>>

EndsAnyway == TRUE          \* faulty: the loop may end with reports left

NothingToReport == "app" \in ToSet(observed) => nodes = <<>>

ObserveEnds ==
    /\ pc = "observe" /\ NothingToReport
    /\ pc' = "registration"
    /\ UNCHANGED <<agentVars, observeVars, sendVars, listVars, history, faults>>

-----------------------------------------------------------------------------
Updates == {t \in transactions : Kind(t) = "update"}

(***************************************************************************)
(* registration_step: an update when the lifetime is nearly over or the    *)
(* objects have changed; the connection is closed when the registration    *)
(* failed, and with it nothing that refers to it.                          *)
(***************************************************************************)
prv_updateRegistration ==
    /\ pc = "registration" /\ pc' = "transactions"
    /\ status \in {"STATE_REGISTERED", "STATE_REG_FULL_UPDATE_NEEDED"}
    /\ Cardinality(Updates) < MaxUpdates
    /\ Start(<<"update", Min({i \in 1 .. MaxUpdates : \A t \in Updates : t.mid[2] # i})>>)
    /\ status' = "STATE_REG_UPDATE_PENDING"
    /\ UNCHANGED <<state, session, observeVars, listVars, history>>

RegistrationFailed ==
    /\ pc = "registration" /\ pc' = "transactions"
    /\ status = "STATE_REG_FAILED"
    /\ session' = FALSE
    /\ transactions' = {[t EXCEPT !.live = FALSE] : t \in transactions}
    /\ sent' = {}
    /\ UNCHANGED <<state, status, reconnect_flag, observeVars, listVars, history, faults>>

NoUpdate ==
    /\ pc = "registration" /\ pc' = "transactions"
    /\ status # "STATE_REG_FAILED"
    /\ \/ status # "STATE_REG_FULL_UPDATE_NEEDED" /\ UNCHANGED faults
       \/ Cardinality(Updates) = MaxUpdates /\ UNCHANGED faults
       \/ status = "STATE_REG_FULL_UPDATE_NEEDED" /\ Fault
    /\ UNCHANGED <<agentVars, observeVars, sendVars, listVars, history>>

(***************************************************************************)
(* transaction_step: transaction_send of a transaction whose time has come.*)
(* Its peer may have been freed with the connection: what is sent then     *)
(* reaches nobody.                                                         *)
(***************************************************************************)
Exhausted(t) == t.acked \/ t.retrans > COAP_MAX_RETRANSMIT + 1

Retransmit(t) ==
    /\ ~Exhausted(t)
    /\ transactions' = (transactions \ {t}) \cup {[t EXCEPT !.retrans = @ + 1]}
    /\ IF t.live THEN Transmit(t.mid) ELSE UNCHANGED <<sent, reconnect_flag, faults>>
    /\ UNCHANGED <<status, told>>

GivesUp(t) ==
    /\ Exhausted(t)
    /\ Finish(t, FALSE)
    /\ UNCHANGED <<sent, reconnect_flag, faults>>

transaction_send(t) ==
    /\ pc = "transactions"
    /\ Retransmit(t) \/ GivesUp(t)
    /\ UNCHANGED <<pc, state, session, observeVars, listVars, dropped>>

-----------------------------------------------------------------------------
(***************************************************************************)
(* lwm2m_poll: one packet or none.  What the server can answer it has got, *)
(* in this session; it may answer late, twice or differently.              *)
(***************************************************************************)
Polls == pc = "transactions" /\ pc' = "reconnect" /\ UNCHANGED <<state, session, accepted>>

NoPacket ==
    /\ Polls
    /\ UNCHANGED <<status, reconnect_flag, observeVars, sendVars, max_cnt, nodes, history, faults>>

ReceiveFails ==
    /\ Polls /\ session /\ Fault
    /\ reconnect_flag' = TRUE
    /\ UNCHANGED <<status, observeVars, sendVars, max_cnt, nodes, history>>

Answers(t) == t.live /\ t.mid \in sent

(***************************************************************************)
(* transaction_handleResponse.  An acknowledgement ends a notification; a  *)
(* request goes on until the response with its token comes.                *)
(***************************************************************************)
Acknowledged(t) ==
    IF Kind(t) = "notify"
    THEN Finish(t, FALSE)
    ELSE /\ transactions' = (transactions \ {t}) \cup {[t EXCEPT !.acked = TRUE]}
         /\ UNCHANGED <<status, told>>

ReceiveAck(t) ==
    /\ Polls /\ Answers(t) /\ ~t.acked
    /\ Acknowledged(t)
    /\ UNCHANGED <<sent, reconnect_flag, observeVars, max_cnt, nodes, dropped, faults>>

ReceiveResponse(t, ok) ==
    /\ Polls /\ Answers(t) /\ Kind(t) # "notify"
    /\ Finish(t, ok)
    /\ UNCHANGED <<sent, reconnect_flag, observeVars, max_cnt, nodes, dropped, faults>>

(***************************************************************************)
(* observe_cancel of the observation at place i: its watcher and the       *)
(* reports that wait for it go.                                            *)
(***************************************************************************)
observe_cancel(i) ==
    /\ observed' = RemoveAt(observed, i)
    /\ active' = active \ {observed[i]}
    /\ lastReport' = IF observed[i] = "app" THEN 0 ELSE lastReport
    /\ nodes' = NodesWithout({observed[i]})

Place(u) == CHOOSE i \in DOMAIN observed : observed[i] = u

(***************************************************************************)
(* A reset first cancels the observation whose last notification it        *)
(* answers, and then ends the transaction of that notification.            *)
(***************************************************************************)
ReceiveReset(mid) ==
    /\ Polls /\ mid \in sent
    /\ LET mine == {t \in transactions : t.live /\ t.mid = mid /\ ~t.acked}
           over == {r \in Reports : mine \cap Carriers(r) # {}}
       IN  /\ transactions' = transactions \ mine
           /\ status' = IF \E t \in mine : AwaitedBy(t) THEN "STATE_REG_FAILED" ELSE status
           /\ IF mid = <<"notify", lastReport>>
              THEN observe_cancel(Place("app")) /\ told' = Told(over, Unsubscribed({"app"}))
              ELSE told' = Told(over, {}) /\ UNCHANGED <<observeVars, nodes>>
    /\ UNCHANGED <<sent, reconnect_flag, max_cnt, dropped, faults>>

ResetOfPlain ==
    /\ Polls /\ session /\ "plain" \in active
    /\ observe_cancel(Place("plain"))
    /\ UNCHANGED <<status, reconnect_flag, sendVars, max_cnt, history, faults>>

(***************************************************************************)
(* Requests of the server, which are ignored while it is not registered.   *)
(***************************************************************************)
Requests == Polls /\ session /\ status \in Registered

Exists(u) == u = "app" => max_cnt > 0

(***************************************************************************)
(* prv_getWatcher: a new observation goes to the head of the list.  When   *)
(* its allocation fails nothing changes.  When that of its watcher fails   *)
(* the observation is freed and stays in the list, and what the agent does *)
(* from there is undefined: the model assumes that it succeeds.            *)
(***************************************************************************)
WithWatcher(u) == IF u \in ToSet(observed) THEN observed ELSE <<u>> \o observed

Observe(u) ==
    /\ Requests /\ Exists(u)
    /\ observed' = WithWatcher(u)
    /\ active' = active \cup {u}
    /\ UNCHANGED <<lastReport, status, reconnect_flag, sendVars, max_cnt, nodes, history, faults>>

(***************************************************************************)
(* Attributes written to a resource make a watcher that is not active; with*)
(* "app" they have no other effect.                                        *)
(***************************************************************************)
WriteAttributes(u) ==
    /\ Requests /\ Exists(u)
    /\ observed' = WithWatcher(u)
    /\ UNCHANGED <<active, lastReport, status, reconnect_flag, sendVars, max_cnt, nodes,
                   history, faults>>

(***************************************************************************)
(* The cancellation of an observation cancels the newest, whatever resource*)
(* it is for: observe_handleRequest passes LWM2M_MAX_ID and no URI.        *)
(***************************************************************************)
Cancel ==
    /\ Requests /\ observed # <<>>
    /\ observe_cancel(1)
    /\ told' = Told(Unsubscribed({observed[1]}), {})
    /\ UNCHANGED <<status, reconnect_flag, sendVars, max_cnt, dropped, faults>>

lwm2m_update_registration ==
    status' = IF status \in {"STATE_REGISTERED", "STATE_REG_UPDATE_PENDING"}
              THEN "STATE_REG_FULL_UPDATE_NEEDED" ELSE status

Unobserved(u) == IF u \in ToSet(observed) THEN RemoveAt(observed, Place(u)) ELSE observed

DeleteKeepsReports ==       \* faulty: the list is freed without telling anybody
    /\ Requests /\ max_cnt > 0
    /\ max_cnt' = 0 /\ nodes' = <<>>
    /\ observed' = Unobserved("app")
    /\ active' = active \ {"app"} /\ lastReport' = 0
    /\ lwm2m_update_registration
    /\ UNCHANGED <<reconnect_flag, sendVars, history, faults>>

(***************************************************************************)
(* The instance of /19/0 is deleted: atiny_rm_rpt_uri ends its reports     *)
(* NOT_SENT, observe_clear takes the observation away without a word.      *)
(***************************************************************************)
DeleteInstance ==
    /\ Requests /\ max_cnt > 0
    /\ max_cnt' = 0 /\ nodes' = <<>>
    /\ told' = Told(ToSet(nodes), {})
    /\ observed' = Unobserved("app")
    /\ active' = active \ {"app"} /\ lastReport' = 0
    /\ lwm2m_update_registration
    /\ UNCHANGED <<reconnect_flag, sendVars, dropped, faults>>

CreateInstance ==
    /\ Requests /\ max_cnt = 0
    /\ max_cnt' = MAX_BUFFER_REPORT_CNT
    /\ lwm2m_update_registration
    /\ UNCHANGED <<reconnect_flag, observeVars, sendVars, nodes, history, faults>>

-----------------------------------------------------------------------------
(***************************************************************************)
(* The application.  A report is refused, which changes nothing, when the  *)
(* list is full or there is none.                                          *)
(***************************************************************************)
FullTooLate == Len(nodes) > max_cnt     \* faulty: one report more than the list may hold

Full == Len(nodes) >= max_cnt

atiny_data_report ==
    /\ accepted < MaxReports
    /\ ~Full
    /\ accepted' = accepted + 1
    /\ nodes' = Append(nodes, accepted + 1)
    /\ UNCHANGED <<pc, agentVars, observeVars, sendVars, max_cnt, history, faults>>

atiny_reconnect ==
    /\ ~reconnect_flag /\ Fault
    /\ reconnect_flag' = TRUE
    /\ UNCHANGED <<pc, state, status, session, observeVars, sendVars, listVars, history>>

Agent ==
    \/ lwm2m_reconnect \/ NoReconnect
    \/ StepState \/ DelayExpires \/ prv_register \/ RegisterFails
    \/ SendReport \/ SendUnconfirmed \/ LoseReport \/ ObserveEnds
    \/ prv_updateRegistration \/ RegistrationFailed \/ NoUpdate
    \/ \E t \in transactions : transaction_send(t)
    \/ NoPacket \/ ReceiveFails
    \/ \E t \in transactions : ReceiveAck(t)
    \/ \E t \in transactions, ok \in BOOLEAN : ReceiveResponse(t, ok)
    \/ \E mid \in sent : ReceiveReset(mid)
    \/ ResetOfPlain
    \/ \E u \in URIs : Observe(u) \/ WriteAttributes(u)
    \/ Cancel \/ DeleteInstance \/ CreateInstance

ReportNext == Agent \/ atiny_data_report \/ atiny_reconnect

(***************************************************************************)
(* The agent task runs, which the kernel sees to, and the time of every    *)
(* retransmission comes.  Nothing is assumed of the server.                *)
(***************************************************************************)
ReportFairness ==
    /\ WF_reportVars(Agent)
    /\ \A r \in Reports : SF_reportVars(\E t \in Carriers(r) : transaction_send(t))

ReportSpec == ReportInit /\ [][ReportNext]_reportVars /\ ReportFairness

-----------------------------------------------------------------------------
(***************************************************************************)
(* Types; a report list never holds more than it may.                      *)
(***************************************************************************)
ReportTypeOK ==
    /\ pc \in {"reconnect", "state", "observe", "registration", "transactions"}
    /\ state \in {"STATE_INITIAL", "STATE_DELAY", "STATE_REGISTER_REQUIRED",
                  "STATE_REGISTERING", "STATE_READY"}
    /\ status \in Registered \cup {"STATE_DEREGISTERED", "STATE_REG_PENDING", "STATE_REG_FAILED"}
    /\ session \in BOOLEAN /\ reconnect_flag \in BOOLEAN
    /\ observed \in Seq(URIs) /\ IsInjective(observed)
    /\ active \subseteq ToSet(observed) /\ lastReport \in Reports \cup {0}
    /\ transactions \subseteq [mid : Mids, retrans : 2 .. COAP_MAX_RETRANSMIT + 2,
                               acked : BOOLEAN, live : BOOLEAN]
    /\ sent \subseteq Mids
    /\ max_cnt \in {0, STORING_CNT, MAX_BUFFER_REPORT_CNT}
    /\ nodes \in Seq(Reports) /\ Len(nodes) <= max_cnt
    /\ accepted \in 0 .. MaxReports
    /\ told \in [Reports -> 0 .. 2]
    /\ dropped \subseteq Reports
    /\ faults \in 0 .. MaxFaults

(***************************************************************************)
(* A report that atiny_data_report took is in one place: in the list, in   *)
(* one transaction, told to the application once, sent without a callback, *)
(* or lost on the way.  It is never told twice and never forgotten,        *)
(* whatever cancellations, deletions, resets and reconnects come between.  *)
(***************************************************************************)
ReportsConserved ==
    \A r \in Reports :
        Cardinality({i \in DOMAIN nodes : nodes[i] = r}) + Cardinality(Carriers(r))
            + told[r] + (IF r \in dropped THEN 1 ELSE 0)
        = IF r <= accepted THEN 1 ELSE 0

(***************************************************************************)
(* A registration or an update that is pending has a transaction that will *)
(* end it: no order of timeouts, late answers, changes of the objects and  *)
(* reconnects leaves the agent waiting for nothing in STATE_REGISTERING.   *)
(***************************************************************************)
PendingIsAwaited ==
    /\ status = "STATE_REG_PENDING" => \E t \in transactions : Kind(t) = "register"
    /\ status = "STATE_REG_UPDATE_PENDING" => \E t \in transactions : Kind(t) = "update"

(***************************************************************************)
(* A report that was taken is told to the application, sent without a      *)
(* callback or lost on the way, whatever the server does, unless nothing   *)
(* observes /19/0.  The reports are finitely many: as long as new ones keep*)
(* coming, the loop of observe_app_step does not end.                      *)
(***************************************************************************)
EveryReportEnds ==
    \A r \in Reports :
        r <= accepted ~> \/ told[r] > 0 \/ r \in dropped
                         \/ r \in ToSet(nodes) /\ "app" \notin ToSet(observed)

=============================================================================

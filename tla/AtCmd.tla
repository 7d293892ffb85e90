------------------------------- MODULE AtCmd -------------------------------
(***************************************************************************)
(* The AT command framework (components/net/at_frame/at_main.c) with the   *)
(* receive interrupt of the board (at_hal.c) and the data indications of   *)
(* the BC95 driver (bc95.c, nb_cmd_match registered) for one of its        *)
(* sockets: tasks send commands, those that close and create the socket    *)
(* among them, and wait for resp_sem; the receive task matches what the    *)
(* modem sends with the first listener.  What lies between LOS_MuxPend and *)
(* LOS_MuxPost of cmd_mux is one step; so is what the receive task does    *)
(* with a message, since its priority is 0, which no other task preempts.  *)
(***************************************************************************)
EXTENDS Naturals, Sequences, SequencesExt, FiniteSets

CONSTANTS
    Clients,            \* tasks that send commands
    Writers,            \* those that call at_write; the others call at_cmd
    MaxCommands,        \* bound: commands sent
    MaxIndications,     \* bound: "+NSONMI:" lines the modem sends
    MaxLeaks,           \* bound: failures of at_malloc
    RECV_QUEUE,         \* length of recvQueue
    BUF                 \* user_buf_len, in lines

ASSUME AtAssumption ==
    /\ IsFiniteSet(Clients) /\ Writers \subseteq Clients
    /\ "at_recv_task" \notin Clients /\ "nobody" \notin Clients
    /\ MaxCommands \in Nat /\ MaxIndications \in Nat /\ MaxLeaks \in Nat
    /\ RECV_QUEUE \in Nat \ {0}
    /\ BUF \in Nat \ {0, 1}

Recv == "at_recv_task"
Nobody == "nobody"

(***************************************************************************)
(* A line of the modem: the answer or the prompt for a command, the answer *)
(* to "AT+NSORF" (which ends with OK too), or an indication.               *)
(***************************************************************************)
Line(k, n) == [kind |-> k, of |-> n]
Lines == [kind : {"OK", ">", "DATA", "IND"}, of : 0 .. MaxCommands]

(***************************************************************************)
(* A listener is on the stack of the client that waits, or is allocated for*)
(* a callback, with a time after which it has expired.                     *)
(***************************************************************************)
CallbackListener(e) == [by |-> Recv, expired |-> e]
ListenerOf(c) == [by |-> c, expired |-> FALSE]

VARIABLES
    list,               \* at.head and what follows
    trx,                \* owner and count of trx_mux
    tokens,             \* the count of resp_sem
    leaked,             \* levels of trx_mux nobody is going to post
    valid,              \* g_data_ind_info.valid_flag
    used,               \* sockinfo[].used_flag of the socket
    op,                 \* what each client's command is for
    stale,              \* history: the put-off indication is of a socket closed since
    stage,              \* where each client is in at_cmd or at_write
    cmd,                \* the command it sends
    queue,              \* recvQueue
    rx,                 \* the cells of at.recv_buf that can still be read
    wi, wi_bak, ri,
    modem,              \* external: what the modem is going to answer, in order
    issued,             \* commands sent so far
    indications,        \* indications sent so far
    mixed,              \* history: lines and commands may have got mixed up
    own,                \* history, until then: its answer met the command's listener
    okWithout           \* history, until then: AT_OK was returned without it

clientVars == <<stage, cmd, issued>>
atHistory == <<mixed, own, okWithout>>
listenerVars == <<list, trx, tokens>>
sockVars == <<used, op, stale>>
indVars == <<leaked, valid, sockVars>>
rxVars == <<rx, wi, wi_bak, ri, indications>>
atVars == <<clientVars, listenerVars, indVars, rxVars, queue, modem, atHistory>>

Waiting == {"prompt", "wait"}

AtInit ==
    /\ list = <<>>
    /\ trx = [owner |-> Nobody, count |-> 0]
    /\ tokens = 0 /\ leaked = 0 /\ valid = FALSE
    /\ used = TRUE /\ stale = FALSE
    /\ op = [c \in Clients |-> "send"]
    /\ stage = [c \in Clients |-> "idle"]
    /\ cmd = [c \in Clients |-> 0]
    /\ own = [c \in Clients |-> FALSE]
    /\ queue = <<>>
    /\ rx = <<>> /\ wi = 0 /\ wi_bak = 0 /\ ri = 0
    /\ modem = <<>>
    /\ issued = 0 /\ indications = 0
    /\ mixed = FALSE /\ okWithout = FALSE

-----------------------------------------------------------------------------
(***************************************************************************)
(* at_listner_list_del looks at the head and at the one after it; when its *)
(* listener is further on it never ends.                                   *)
(***************************************************************************)
DelEnds(p) == Len(list) >= 2 => p \in {list[1], list[2]}

at_listner_list_del(p) ==
    IF list = <<>> THEN list
    ELSE IF p = list[1] THEN Tail(list)
    ELSE IF Len(list) >= 2 /\ p = list[2] THEN RemoveAt(list, 2) ELSE list

(***************************************************************************)
(* nb_close sends its command only if the socket is in use.  nb_connect    *)
(* creates it when it is not.                                              *)
(***************************************************************************)
Purposes(c) ==
    {"send"} \cup IF c \in Writers THEN {} ELSE IF used THEN {"close"} ELSE {"create"}

Calls(c) ==
    /\ stage[c] = "idle" /\ issued < MaxCommands
    /\ \E o \in Purposes(c) : op' = [op EXCEPT ![c] = o]
    /\ issued' = issued + 1
    /\ cmd' = [cmd EXCEPT ![c] = issued + 1]
    /\ own' = [own EXCEPT ![c] = FALSE]
    /\ stage' = [stage EXCEPT ![c] = "calling"]
    /\ UNCHANGED <<listenerVars, leaked, valid, used, stale, rxVars, queue, modem, mixed,
                   okWithout>>

BeginUnowned(c, to, line) ==     \* faulty: the command is sent without trx_mux
    /\ stage[c] = "calling"
    /\ list' = Append(list, ListenerOf(c))
    /\ modem' = Append(modem, Line(line, cmd[c]))
    /\ stage' = [stage EXCEPT ![c] = to]
    /\ trx' = [owner |-> c, count |-> 1]
    /\ UNCHANGED <<tokens, cmd, issued, indVars, rxVars, queue, atHistory>>

(***************************************************************************)
(* trx_mux is taken, the listener added, the command transmitted.          *)
(***************************************************************************)
Begin(c, to, line) ==
    /\ stage[c] = "calling"
    /\ trx.owner = Nobody
    /\ trx' = [owner |-> c, count |-> 1]
    /\ list' = Append(list, ListenerOf(c))
    /\ modem' = Append(modem, Line(line, cmd[c]))
    /\ stage' = [stage EXCEPT ![c] = to]
    /\ UNCHANGED <<tokens, cmd, issued, indVars, rxVars, queue, atHistory>>

at_cmd_multi_suffix(c) == c \notin Writers /\ Begin(c, "wait", "OK")

at_write(c) == c \in Writers /\ Begin(c, "prompt", ">")

(***************************************************************************)
(* LOS_SemPend on resp_sem ends with a token, or with LOS_ERRNO_SEM_TIMEOUT*)
(* which at_write ignores while it waits for the prompt.                   *)
(***************************************************************************)
RespSemTaken(c) ==
    /\ stage[c] \in Waiting /\ tokens > 0
    /\ tokens' = tokens - 1
    /\ stage' = [stage EXCEPT ![c] = IF @ = "prompt" THEN "prompted" ELSE "answered"]
    /\ UNCHANGED <<list, trx, cmd, issued, indVars, rxVars, queue, modem, atHistory>>

(***************************************************************************)
(* Nothing is said of answers once they may be mixed up.                   *)
(***************************************************************************)
Mixes(cond) ==
    /\ mixed' = (mixed \/ cond)
    /\ own' = IF mixed' THEN [c \in Clients |-> FALSE] ELSE own

(***************************************************************************)
(* Without an answer nb_create_sock fails, and its caller has nothing left *)
(* to do.                                                                  *)
(***************************************************************************)
RespSemTimeout(c) ==
    /\ stage[c] \in Waiting /\ tokens = 0
    /\ stage' = [stage EXCEPT ![c] = IF @ = "prompt" THEN "prompted" ELSE "timedout"]
    /\ op' = [op EXCEPT ![c] = IF @ = "create" THEN "send" ELSE @]
    /\ Mixes(TRUE)
    /\ UNCHANGED <<listenerVars, cmd, issued, leaked, valid, used, stale, rxVars, queue, modem,
                   okWithout>>

(***************************************************************************)
(* The second half of at_write: the listener now waits for the suffix.     *)
(***************************************************************************)
WriteData(c) ==
    /\ stage[c] = "prompted"
    /\ DelEnds(ListenerOf(c))
    /\ list' = Append(at_listner_list_del(ListenerOf(c)), ListenerOf(c))
    /\ modem' = Append(modem, Line("OK", cmd[c]))
    /\ stage' = [stage EXCEPT ![c] = "wait"]
    /\ UNCHANGED <<tokens, trx, cmd, issued, indVars, rxVars, queue, atHistory>>

Released(t, n) ==
    IF t.count = n THEN [owner |-> Nobody, count |-> 0] ELSE [t EXCEPT !.count = @ - n]

(***************************************************************************)
(* The listener is deleted and trx_mux posted; then the receive task is    *)
(* told, for the indication it may have put off, and the call returns.     *)
(***************************************************************************)
Releases(c) ==
    /\ stage[c] \in {"answered", "timedout"}
    /\ DelEnds(ListenerOf(c))
    /\ list' = at_listner_list_del(ListenerOf(c))
    /\ trx' = Released(trx, 1)
    /\ okWithout' = (okWithout \/ (stage[c] = "answered" /\ ~own[c] /\ ~mixed))
    /\ own' = [own EXCEPT ![c] = FALSE]
    /\ stage' = [stage EXCEPT ![c] = "released"]
    /\ UNCHANGED <<tokens, cmd, issued, indVars, rxVars, queue, modem, mixed>>

QueuedAlways(m) == Append(queue, m)     \* faulty: as if the queue were never full

(***************************************************************************)
(* LOS_QueueWriteCopy without waiting: the message is lost if the queue is *)
(* full.                                                                   *)
(***************************************************************************)
Queued(m) == IF Len(queue) < RECV_QUEUE THEN Append(queue, m) ELSE queue

Returned(c) ==
    stage' = [stage EXCEPT ![c] = IF op[c] = "send" THEN "idle" ELSE "returned"]

ReturnSilently(c) ==                    \* faulty: the receive task is not told
    /\ stage[c] = "released"
    /\ Returned(c)
    /\ UNCHANGED <<listenerVars, cmd, issued, indVars, rxVars, queue, modem, atHistory>>

Return(c) ==
    /\ stage[c] = "released"
    /\ queue' = Queued([type |-> "SENT_DONE"])
    /\ Returned(c)
    /\ UNCHANGED <<listenerVars, cmd, issued, indVars, rxVars, modem, atHistory>>

(***************************************************************************)
(* Whatever the answer, nb_close then forgets the socket, but not an       *)
(* indication of it that was put off.                                      *)
(***************************************************************************)
nb_close(c) ==
    /\ stage[c] = "returned" /\ op[c] = "close"
    /\ used' = FALSE
    /\ stale' = valid
    /\ op' = [op EXCEPT ![c] = "send"]
    /\ stage' = [stage EXCEPT ![c] = "idle"]
    /\ UNCHANGED <<cmd, issued, listenerVars, leaked, valid, rxVars, queue, modem, atHistory>>

(***************************************************************************)
(* The answer may hold no socket, and LOS_QueueCreate may fail.            *)
(***************************************************************************)
nb_create_sock_link(c) ==
    /\ stage[c] = "returned" /\ op[c] = "create"
    /\ used' \in {used, TRUE}
    /\ op' = [op EXCEPT ![c] = "send"]
    /\ stage' = [stage EXCEPT ![c] = "idle"]
    /\ UNCHANGED <<cmd, issued, listenerVars, leaked, valid, stale, rxVars, queue, modem,
                   atHistory>>

-----------------------------------------------------------------------------
(***************************************************************************)
(* The cells from a up to b, b excluded.                                   *)
(***************************************************************************)
Cells(a, b) == {i \in 0 .. BUF - 1 : IF a <= b THEN a <= i /\ i < b ELSE i >= a \/ i < b}

MessageCells(m) == IF m.type = "RX" THEN Cells(m.ori, m.end) ELSE {}

(***************************************************************************)
(* What queued messages refer to, what comes after one of them (ri is set  *)
(* back to its end when it is read) and what has not been queued.          *)
(***************************************************************************)
Readable(q, r, w) ==
    Cells(r, w) \cup UNION {MessageCells(q[k]) \cup Cells(q[k].end, w) :
                               k \in {j \in 1 .. Len(q) : q[j].type = "RX"}}

(***************************************************************************)
(* at_irq_handler stores a line.  wi is not stopped from overtaking ri.    *)
(***************************************************************************)
Receives(l) ==
    LET next == (wi + 1) % BUF
    IN  /\ rx' = [i \in Readable(queue, ri, next) |-> IF i = wi THEN l ELSE rx[i]]
        /\ wi' = next
        /\ Mixes(next = ri \/ wi \in Readable(queue, ri, wi))
        /\ UNCHANGED <<clientVars, listenerVars, indVars, wi_bak, ri, queue, okWithout>>

ModemAnswers ==
    /\ modem # <<>>
    /\ modem' = Tail(modem)
    /\ Receives(Head(modem))
    /\ UNCHANGED indications

ModemIndicates ==
    /\ indications < MaxIndications
    /\ indications' = indications + 1
    /\ Receives(Line("IND", 0))
    /\ UNCHANGED modem

(***************************************************************************)
(* The line has become idle: at_irq_handler queues what was received.      *)
(***************************************************************************)
Idle ==
    /\ wi # wi_bak
    /\ wi_bak' = wi
    /\ ri' = wi
    /\ queue' = Queued([type |-> "RX", ori |-> ri, end |-> wi])
    /\ rx' = [i \in Readable(queue', wi, wi) |-> rx[i]]
    /\ UNCHANGED <<clientVars, listenerVars, indVars, wi, indications, modem, atHistory>>

-----------------------------------------------------------------------------
(***************************************************************************)
(* What the receive task works on, as a value.                             *)
(***************************************************************************)
Now == [list |-> list, trx |-> trx, leaked |-> leaked, valid |-> valid, stale |-> stale,
        tokens |-> tokens, sent |-> FALSE]

Unexpired(l) ==
    LET walk[k \in 0 .. Len(l)] ==
            IF k = 0 THEN <<>>
            ELSE IF l[k].expired THEN walk[k - 1] ELSE Append(walk[k - 1], l[k])
    IN  walk[Len(l)]

NodesRemoved(s) ==              \* faulty: trx_mux is not posted for them
    [s EXCEPT !.list = Unexpired(@)]

(***************************************************************************)
(* at_rm_timeout_nodes: expired callbacks go, each with a level of trx_mux.*)
(***************************************************************************)
at_rm_timeout_nodes(s) ==
    LET kept == Unexpired(s.list)
        n    == Len(s.list) - Len(kept)
    IN  [s EXCEPT !.list = kept, !.trx = Released(@, n)]

(***************************************************************************)
(* at_cmd_in_callback, which nb_cmd_rcv_data calls with "AT+NSORF": it does*)
(* not wait for trx_mux, may own it already, and keeps it if no listener   *)
(* can be allocated.  When it fails the indication is kept for later.      *)
(***************************************************************************)
nb_cmd_rcv_data(s) ==
    LET t == [s EXCEPT !.trx = [owner |-> Recv, count |-> @.count + 1], !.sent = TRUE]
    IN  IF s.trx.owner \notin {Nobody, Recv} THEN {[s EXCEPT !.valid = TRUE]}
        ELSE {[t EXCEPT !.list = Append(@, CallbackListener(FALSE)), !.valid = FALSE]}
             \cup IF s.leaked < MaxLeaks
                  THEN {[t EXCEPT !.leaked = @ + 1, !.valid = TRUE]} ELSE {}

(***************************************************************************)
(* Nothing is done for a socket that is closed: nb_sock_to_idx does not    *)
(* find it.  One created since is served the indication of the closed one. *)
(***************************************************************************)
nb_step(s) == IF s.valid /\ used THEN nb_cmd_rcv_data(s) ELSE {s}

nb_cmd_match(s, text) ==
    IF used /\ \E l \in text : l.kind = "IND"
    THEN nb_cmd_rcv_data([s EXCEPT !.stale = FALSE]) ELSE {s}

Suffix(c) == IF stage[c] \in {"prompt", "prompted"} THEN ">" ELSE "OK"

Matches(suffix, l) == l.kind = suffix \/ (suffix = "OK" /\ l.kind = "DATA")

(***************************************************************************)
(* at_handle_resp.  A callback that does not take the text has no suffix,  *)
(* and resp_sem is posted though no client waits.                          *)
(***************************************************************************)
CallbackTakes(s, text) ==
    s.list # <<>> /\ Head(s.list).by = Recv /\ \E l \in text : l.kind = "DATA"

CallbackRefuses(s, text) ==
    s.list # <<>> /\ Head(s.list).by = Recv /\ ~ \E l \in text : l.kind = "DATA"

Answered(s, text, c) ==
    s.list # <<>> /\ Head(s.list).by = c /\ \E l \in text : Matches(Suffix(c), l)

at_handle_resp(s, text) ==
    IF CallbackTakes(s, text)
    THEN [s EXCEPT !.list = Tail(@), !.trx = Released(@, 1)]
    ELSE IF CallbackRefuses(s, text) \/ \E c \in Clients : Answered(s, text, c)
    THEN [s EXCEPT !.tokens = @ + 1]
    ELSE s

(***************************************************************************)
(* at_recv_task with one message: timeouts, the step callback, read_resp,  *)
(* which sets ri back to the end of what it reads, cloud_cmd_matching, and *)
(* the response.  No listener expires within one message, so the second    *)
(* at_rm_timeout_nodes finds nothing.                                      *)
(***************************************************************************)
HandleMessage ==
    LET m    == Head(queue)
        text == {rx[i] : i \in MessageCells(m)}
        old  == at_rm_timeout_nodes(Now)
    IN  /\ queue # <<>>
        /\ queue' = Tail(queue)
        /\ ri' = IF text = {} THEN ri ELSE m.end
        /\ rx' = [i \in Readable(queue', ri', wi) |-> rx[i]]
        /\ \E s1 \in nb_step(old) : \E s \in nb_cmd_match(s1, text) :
               LET e == IF text = {} THEN s ELSE at_handle_resp(s, text)
               IN  /\ list' = e.list /\ trx' = e.trx /\ tokens' = e.tokens
                   /\ leaked' = e.leaked /\ valid' = e.valid /\ stale' = (e.valid /\ e.stale)
                   /\ modem' = IF e.sent THEN Append(modem, Line("DATA", 0)) ELSE modem
                   /\ mixed' = (mixed \/ old.list # list \/ ri' # ri
                                      \/ (text # {} /\ CallbackRefuses(s, text)))
                   /\ own' = [c \in Clients |->
                                 /\ ~mixed'
                                 /\ own[c] \/ (Answered(s, text, c) /\ Line("OK", cmd[c]) \in text)]
        /\ UNCHANGED <<clientVars, used, op, wi, wi_bak, indications, okWithout>>

(***************************************************************************)
(* The expire_time of a callback listener comes.                           *)
(***************************************************************************)
Expires ==
    /\ \E k \in 1 .. Len(list) :
           /\ list[k] = CallbackListener(FALSE)
           /\ list' = [list EXCEPT ![k] = CallbackListener(TRUE)]
    /\ UNCHANGED <<clientVars, trx, tokens, indVars, rxVars, queue, modem, atHistory>>

Proceeds(c) ==
    \/ RespSemTaken(c) \/ RespSemTimeout(c) \/ WriteData(c) \/ Releases(c) \/ Return(c)
    \/ nb_close(c) \/ nb_create_sock_link(c)

ClientStep(c) == Calls(c) \/ at_cmd_multi_suffix(c) \/ at_write(c) \/ Proceeds(c)

AtNext ==
    \/ \E c \in Clients : ClientStep(c)
    \/ ModemAnswers \/ ModemIndicates \/ Idle
    \/ HandleMessage
    \/ Expires

(***************************************************************************)
(* HandleMessage as its fairness sees it: it alone takes from the queue,   *)
(* and can whenever something is there.  (TLC evaluates this one quickly.) *)
(***************************************************************************)
TakesMessage == queue # <<>> /\ queue' = Tail(queue)

(***************************************************************************)
(* Tasks that can run do; time passes; the UART reports an idle line.      *)
(* trx_mux is handed to whoever has waited longest, so a client that waits *)
(* while others come and go gets it.  The modem promises nothing.          *)
(***************************************************************************)
AtFairness ==
    /\ \A c \in Clients :
           /\ SF_atVars(at_cmd_multi_suffix(c) \/ at_write(c))
           /\ WF_atVars(Proceeds(c))
    /\ WF_atVars(Idle) /\ WF_atVars(Expires)
    /\ WF_queue(TakesMessage)

AtSpec == AtInit /\ [][AtNext]_atVars /\ AtFairness

-----------------------------------------------------------------------------
(***************************************************************************)
(* Types; the receive queue never holds more than it was created for.      *)
(***************************************************************************)
AtTypeOK ==
    /\ list \in Seq([by : Clients \cup {Recv}, expired : BOOLEAN])
    /\ trx \in [owner : Clients \cup {Recv, Nobody}, count : Nat]
    /\ trx.owner = Nobody <=> trx.count = 0
    /\ tokens \in Nat /\ leaked \in 0 .. MaxLeaks /\ valid \in BOOLEAN
    /\ stage \in [Clients -> {"idle", "calling", "prompt", "prompted", "wait", "answered",
                           "timedout", "released", "returned"}]
    /\ used \in BOOLEAN /\ stale \in BOOLEAN
    /\ op \in [Clients -> {"send", "close", "create"}]
    /\ cmd \in [Clients -> 0 .. MaxCommands]
    /\ own \in [Clients -> BOOLEAN]
    /\ Len(queue) <= RECV_QUEUE
    /\ DOMAIN rx \subseteq 0 .. BUF - 1 /\ \A i \in DOMAIN rx : rx[i] \in Lines
    /\ {wi, wi_bak, ri} \subseteq 0 .. BUF - 1
    /\ modem \in Seq(Lines)
    /\ mixed \in BOOLEAN /\ okWithout \in BOOLEAN

(***************************************************************************)
(* Listeners and trx_mux agree: a client's listener, which lives on its    *)
(* stack, is in the list only while that client is in the call and owns    *)
(* trx_mux, and it is then the only one, where at_listner_list_del finds   *)
(* it; the receive task owns a level of trx_mux for every callback that is *)
(* listed, whether it is answered, expires or cannot be allocated.         *)
(***************************************************************************)
ListenersHoldTrx ==
    /\ \A c \in Clients :
           stage[c] \in Waiting \cup {"prompted", "answered", "timedout"}
               <=> trx.owner = c /\ list = <<ListenerOf(c)>>
    /\ trx.owner = Recv =>
           /\ \A k \in 1 .. Len(list) : list[k].by = Recv
           /\ trx.count = Len(list) + leaked
    /\ trx.owner = Nobody => list = <<>>

(***************************************************************************)
(* AT_OK is the answer to the command that was sent: a command takes the   *)
(* answer to another only after a wait timed out, after text was handled   *)
(* that no callback took, after a segment was read while a later one was   *)
(* queued, or after received data was overwritten.                         *)
(***************************************************************************)
AnswerIsOwnUnlessMixed == ~okWithout

(* A callback is listed and nothing makes the receive task look at it.     *)
ModemSilent == queue = <<>> /\ \E k \in 1 .. Len(list) : list[k].by = Recv

(***************************************************************************)
(* Every command returns, with an answer or without, unless an at_malloc   *)
(* failed in at_cmd_in_callback, or a callback is listed and the modem is  *)
(* silent for ever: an expired callback is removed only when some message  *)
(* comes.                                                                  *)
(***************************************************************************)
EveryCommandReturns ==
    \/ \A c \in Clients : stage[c] = "calling" ~> (stage[c] = "idle" \/ leaked > 0)
    \/ <>[]ModemSilent

(***************************************************************************)
(* A data indication that found trx_mux taken is not forgotten: until it   *)
(* is acted upon, or its socket closed, a message the receive task has not *)
(* taken is in the queue, or a client owns trx_mux, or has just posted it, *)
(* that is going to send one.  Otherwise the data would stay in the modem  *)
(* until something unrelated happens.                                      *)
(***************************************************************************)
PutOffIsSeen ==
    valid /\ ~stale =>
        \/ leaked > 0
        \/ queue # <<>>
        \/ \E c \in Clients :
               stage[c] \in Waiting \cup {"prompted", "answered", "timedout", "released"}
=============================================================================

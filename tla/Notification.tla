---------------------------- MODULE Notification ----------------------------
(***************************************************************************)
(* Notifications (notification/worker.go, notification/service.go): an     *)
(* event becomes a delivery per recipient if a template is published for   *)
(* it, workers claim deliveries under a 30 s lease and send them, and      *)
(* administrators publish templates and retry failed deliveries. One event *)
(* type and channel; a delivery is an (event, recipient) pair.             *)
(***************************************************************************)
EXTENDS Naturals

CONSTANTS Notices,          \* (event, recipient) pairs
          Senders,          \* delivery loops of all processes
          SendAttempts,     \* attempts after which a failure is final (5)
          Templates,        \* template rows
          MaxSendStops,     \* bound: leases lost under a live sender, deaths
          MaxSendRetries    \* bound: administrator retries

Nobody == "nobody"

ASSUME NotificationAssumption ==
    /\ SendAttempts \in Nat \ {0}
    /\ MaxSendStops \in Nat /\ MaxSendRetries \in Nat
    /\ Nobody \notin Senders

VARIABLES
    template,    \* notification_templates.status of each template, or "none"
    notice,      \* notification_deliveries rows
    sender,      \* what each loop is doing
    grounds,     \* history: the provider took the notice ("taken"), or answered without an
                 \* error in a status that nobody reads ("unread")
    sendStops,
    sendRetries

nvars == <<template, notice, sender, grounds, sendStops, sendRetries>>

TemplateStatus == {"draft", "published", "retired"}
NoNotice == [status |-> "none", owner |-> Nobody, lapsed |-> FALSE, attempts |-> 0]

NotifyTypeOK ==
    /\ template \in [Templates -> TemplateStatus \cup {"none"}]
    /\ notice \in [Notices -> [status : {"none", "pending", "processing", "retry_wait",
                                         "succeeded", "dead"},
                               owner : Senders \cup {Nobody}, lapsed : BOOLEAN,
                               attempts : 0..(SendAttempts + MaxSendRetries + 1)]]
    /\ \A w \in Senders : sender[w].pc \in {"idle", "send", "query", "finish"}
    /\ grounds \in [Notices -> SUBSET {"taken", "unread"}]

NotifyInit ==
    /\ template = [v \in Templates |-> "none"]
    /\ notice = [n \in Notices |-> NoNotice]
    /\ sender = [w \in Senders |-> [pc |-> "idle"]]
    /\ grounds = [n \in Notices |-> {}]
    /\ sendStops = 0
    /\ sendRetries = 0

----------------------------------------
\* retirePublished: the templates another one replaces.
RetirePublished(v, status) ==
    [u \in Templates |-> IF u = v THEN status
                         ELSE IF status = "published" /\ template[u] = "published" THEN "retired"
                         ELSE template[u]]

\* CreateTemplate, in the status the request asks for.
CreateTemplate(v, status) ==
    /\ template[v] = "none"
    /\ template' = RetirePublished(v, status)
    /\ UNCHANGED <<notice, sender, grounds, sendStops, sendRetries>>

\* UpdateTemplate: only a draft may change.
UpdateTemplate(v, status) ==
    /\ template[v] = "draft"
    /\ template' = RetirePublished(v, status)
    /\ UNCHANGED <<notice, sender, grounds, sendStops, sendRetries>>

\* materializeForEvent and its variants, by the consumer or by the scan: rows keyed
\* by event and recipient, if a template is published.
Materialize(n) ==
    /\ \E v \in Templates : template[v] = "published"
    /\ notice[n].status = "none"
    /\ notice' = [notice EXCEPT ![n].status = "pending"]
    /\ UNCHANGED <<template, sender, grounds, sendStops, sendRetries>>

\* Retry: the administrator puts a failed delivery back; its attempts stay.
RetryNotice(n) ==
    /\ notice[n].status \in {"dead", "retry_wait"}
    /\ sendRetries < MaxSendRetries
    /\ sendRetries' = sendRetries + 1
    /\ notice' = [notice EXCEPT ![n].status = "pending", ![n].owner = Nobody, ![n].lapsed = FALSE]
    /\ UNCHANGED <<template, sender, grounds, sendStops>>

----------------------------------------
\* claim.
ClaimNotice(w, n) ==
    /\ sender[w].pc = "idle"
    /\ notice[n].status \in {"pending", "retry_wait", "processing"}
    /\ notice[n].owner = Nobody \/ notice[n].lapsed
    /\ notice' = [notice EXCEPT ![n].status = "processing", ![n].owner = w, ![n].lapsed = FALSE]
    /\ sender' = [sender EXCEPT ![w] = [pc |-> "send", notice |-> n, result |-> "none",
                                        attempts |-> notice[n].attempts]]
    /\ UNCHANGED <<template, grounds, sendStops, sendRetries>>

Answered(w, result) == sender' = [sender EXCEPT ![w].pc = "finish", ![w].result = result]

Ground(w, g) == grounds' = [grounds EXCEPT ![sender[w].notice] = @ \cup {g}]

\* send: provider.Send; when the outcome is unknown the provider is asked at once. Only the
\* error is looked at, never SendResult.Status: a notice that the provider has queued or
\* turned down in an answer without an error counts as sent.
SendNotice(w) ==
    /\ sender[w].pc = "send"
    /\ \/ Ground(w, "taken") /\ (Answered(w, "ok") \/ sender' = [sender EXCEPT ![w].pc = "query"])
       \/ Ground(w, "unread") /\ Answered(w, "ok")
       \/ /\ UNCHANGED grounds
          /\ \/ \E r \in {"retryable", "permanent"} : Answered(w, r)
             \/ sender' = [sender EXCEPT ![w].pc = "query"]
    /\ UNCHANGED <<template, notice, sendStops, sendRetries>>

\* provider.Query, which also may answer of a notice it never took.
Query(w) ==
    /\ sender[w].pc = "query"
    /\ \/ "taken" \in grounds[sender[w].notice] /\ Answered(w, "ok") /\ UNCHANGED grounds
       \/ Ground(w, "unread") /\ Answered(w, "ok")
       \/ \E r \in {"retryable", "permanent"} : Answered(w, r) /\ UNCHANGED grounds
    /\ UNCHANGED <<template, notice, sendStops, sendRetries>>

\* send: what the attempt makes of the delivery, if the lease is still held.
NoticeStatus(w) ==
    IF sender[w].result = "ok" THEN "succeeded"
    ELSE IF sender[w].result = "retryable" /\ sender[w].attempts + 1 < SendAttempts
         THEN "retry_wait" ELSE "dead"

Finish(w) ==
    LET n == sender[w].notice IN
    /\ sender[w].pc = "finish"
    /\ \/ /\ notice[n].owner = w
          /\ notice' = [notice EXCEPT ![n] =
                [status |-> NoticeStatus(w), owner |-> Nobody, lapsed |-> FALSE,
                 attempts |-> sender[w].attempts + 1]]
       \/ /\ notice[n].owner # w
          /\ UNCHANGED notice
    /\ sender' = [sender EXCEPT ![w] = [pc |-> "idle"]]
    /\ UNCHANGED <<template, grounds, sendStops, sendRetries>>

SenderDies(w) ==
    /\ sender[w].pc # "idle"
    /\ sendStops < MaxSendStops
    /\ sendStops' = sendStops + 1
    /\ sender' = [sender EXCEPT ![w] = [pc |-> "idle"]]
    /\ UNCHANGED <<template, notice, grounds, sendRetries>>

Sending(w, n) == sender[w].pc # "idle" /\ sender[w].notice = n /\ notice[n].owner = w

NoticeLeaseLapses(n) ==
    /\ notice[n].owner # Nobody /\ ~notice[n].lapsed
    /\ notice' = [notice EXCEPT ![n].lapsed = TRUE]
    /\ \/ /\ \E w \in Senders : Sending(w, n)
          /\ sendStops < MaxSendStops
          /\ sendStops' = sendStops + 1
       \/ /\ \A w \in Senders : ~Sending(w, n)
          /\ UNCHANGED sendStops
    /\ UNCHANGED <<template, sender, grounds, sendRetries>>

NotifyWork(w) == SendNotice(w) \/ Query(w) \/ Finish(w)

NotifyNext ==
    \/ \E v \in Templates, status \in TemplateStatus :
          CreateTemplate(v, status) \/ UpdateTemplate(v, status)
    \/ \E n \in Notices : Materialize(n) \/ RetryNotice(n) \/ NoticeLeaseLapses(n)
    \/ \E w \in Senders, n \in Notices : ClaimNotice(w, n)
    \/ \E w \in Senders : NotifyWork(w) \/ SenderDies(w)

NotifyFairness ==
    /\ \A w \in Senders : WF_nvars(NotifyWork(w))
    /\ \A n \in Notices : /\ SF_nvars(\E w \in Senders : ClaimNotice(w, n))
                          /\ WF_nvars(NoticeLeaseLapses(n))

----------------------------------------
\* Behind a delivery that reads succeeded stands an answer of the provider without an error,
\* to it and not to a lost attempt; what the answer said is not known to the code.
SucceededIsSent == \A n \in Notices : notice[n].status = "succeeded" => grounds[n] # {}

\* Where every delivery must get to: succeeded, or dead for the administrator to see.
NoticesSettled == \A n \in Notices : notice[n].status \in {"none", "succeeded", "dead"}
=============================================================================

--------------------------- MODULE TriageFeatures ---------------------------
(***************************************************************************)
(* What is read out of a message before anyone judges it:                  *)
(* packages/triage-features (the facts, and how they age) and              *)
(* packages/triage-events (the keys a message joins an event by).          *)
(*                                                                         *)
(* A message is abstract.  `signs` names the patterns its subject and body *)
(* match, `entities` the first id of each kind found there ("" for none),  *)
(* `participants` the sorted addresses, `headers` the headers that say so; *)
(* texts, places and the evidence of a match are left out, and so are the  *)
(* amounts and errors, which nothing decides by.  Times are ticks of one   *)
(* clock: a day is one, and so is the lifetime a code is given.            *)
(***************************************************************************)
EXTENDS TriagePriority, Sequences, FiniteSets

PaymentEventKind == {"payment_failed", "payment_succeeded", "payment_due", "refund",
                     "charge_dispute", "payout_failed"}
SecurityEventKind == {"oauth_grant", "new_login", "password_reset", "password_change",
                      "mfa_change", "recovery_change", "certificate_change"}
InfrastructureEventKind == {"http_5xx", "deployment_failed", "database_upgraded",
                            "certificate_event", "domain_expiry", "domain_renewed",
                            "certificate_expiry", "service_outage", "service_restored"}
Signs == PaymentEventKind \union SecurityEventKind \union InfrastructureEventKind
           \union {"request_closed", "code"}
EntityKinds == {"jira_issue", "github_pr", "github_repository", "stripe_invoice",
                "stripe_subscription", "domain"}
Checks == {"spf", "dkim", "dmarc"}
Headers == {"auto-submitted", "precedence", "list-unsubscribe", "list-id"}

(* A flag of the provider, which need not be set; a date as it is stated. *)
ProviderFlag == {"unset", "yes", "no"}
Stated == [as : {"tomorrow", "date", "other"}, day : Nat]

TriageFeatureMessage ==
  [id : STRING, content : STRING, messageId : Seq(STRING), references : Seq(STRING),
   thread : Seq(STRING), subject : STRING, participants : Seq(STRING),
   signs : SUBSET Signs, entities : [EntityKinds -> STRING],
   deadlines : SUBSET Stated, ttl : SUBSET Nat,
   headers : SUBSET Headers, automated : ProviderFlag, bulk : ProviderFlag,
   auth : [Checks -> {"pass", "fail", "other", "none"}], receivedAt : Nat]

TriageFacts ==
  [automated : ProviderFlag, bulk : ProviderFlag, listUnsubscribe : BOOLEAN,
   auth : [Checks -> {"pass", "fail", "unknown"}], entities : [EntityKinds -> STRING],
   deadlines : SUBSET [at : SUBSET Nat, state : {"past", "future", "unknown"}],
   credentials : SUBSET [expiresAt : Nat, state : {"valid", "expired"}],
   payment : SUBSET PaymentEventKind, security : SUBSET SecurityEventKind,
   infrastructure : SUBSET InfrastructureEventKind]

-----------------------------------------------------------------------------
(* What a provider says of a message goes before what its headers say. *)
Given(flag, header) == IF flag # "unset" THEN flag ELSE IF header THEN "yes" ELSE "unset"
ListUnsubscribe(m) == m.headers \intersect {"list-unsubscribe", "list-id"} # {}

(* A result that is neither of the two words is unknown. *)
parseAuth(m, check) == IF m.auth[check] \in {"pass", "fail"} THEN m.auth[check] ELSE "unknown"

(* "Tomorrow" is counted from the time of the extraction. *)
parseDeadlineAt(stated, now) ==
  CASE stated.as = "tomorrow" -> {now + 1}
    [] stated.as = "date"     -> {stated.day}
    [] OTHER                  -> {}

Deadline(at, now) ==
  [at |-> at, state |-> IF at = {} THEN "unknown"
                        ELSE IF \E day \in at : day < now THEN "past" ELSE "future"]

Credential(expiresAt, now) ==
  [expiresAt |-> expiresAt, state |-> IF expiresAt <= now THEN "expired" ELSE "valid"]

(* A code whose lifetime is not stated is given fifteen minutes. *)
parseCredentials(m, now) ==
  IF "code" \notin m.signs THEN {}
  ELSE {Credential(m.receivedAt + t, now) : t \in IF m.ttl = {} THEN {1} ELSE m.ttl}

extractFeatures(m, now) ==
  [automated |-> Given(m.automated, "auto-submitted" \in m.headers),
   bulk |-> Given(m.bulk, "precedence" \in m.headers \/ ListUnsubscribe(m)),
   listUnsubscribe |-> ListUnsubscribe(m),
   auth |-> [check \in Checks |-> parseAuth(m, check)],
   entities |-> m.entities,
   deadlines |-> {Deadline(parseDeadlineAt(s, now), now) : s \in m.deadlines},
   credentials |-> parseCredentials(m, now),
   payment |-> m.signs \intersect PaymentEventKind,
   security |-> m.signs \intersect SecurityEventKind,
   infrastructure |-> m.signs \intersect InfrastructureEventKind]

(* Facts that were extracted earlier, as they are now. *)
refreshTemporalFacts(f, now) ==
  [f EXCEPT !.deadlines = {Deadline(d.at, now) : d \in @},
            !.credentials = {Credential(c.expiresAt, now) : c \in @}]

(* mergeFacts of an event: the lists of all, the rest of the latest. *)
mergeFacts(latest, all) ==
  [latest EXCEPT !.deadlines = UNION {f.deadlines : f \in all},
                 !.credentials = UNION {f.credentials : f \in all},
                 !.payment = UNION {f.payment : f \in all},
                 !.security = UNION {f.security : f \in all},
                 !.infrastructure = UNION {f.infrastructure : f \in all}]

(* What applyPolicyClamps asks of the facts. *)
ForClamps(f) ==
  [expiredCredential |-> \E c \in f.credentials : c.state = "expired",
   failedPayment |-> f.payment \intersect {"payment_failed", "payout_failed"} # {},
   security |-> f.security # {},
   expiry |-> f.infrastructure \intersect {"domain_expiry", "certificate_expiry"} # {},
   bulk |-> f.bulk = "yes" \/ f.listUnsubscribe,
   authFailed |-> "fail" \in {f.auth["dmarc"], f.auth["spf"]}]

-----------------------------------------------------------------------------
(* A key is the tuple of the parts its text is made of.  typedKey: the     *)
(* first of these that the message has.                                    *)
When(condition, key) == IF condition THEN <<key>> ELSE <<>>
About(f, kinds) == f.entities["domain"] # "" /\ f.infrastructure \intersect kinds # {}

typedKey(m, f) ==
  LET id(kind) == f.entities[kind]
      keys ==
        When(id("jira_issue") # "", <<"jira", id("jira_issue")>>)
        \o When(id("github_pr") # "" /\ id("github_repository") # "",
                <<"github", id("github_repository"), id("github_pr")>>)
        \o When(id("stripe_invoice") # "", <<"invoice", id("stripe_invoice")>>)
        \o When(id("stripe_subscription") # "", <<"subscription", id("stripe_subscription")>>)
        \o When(About(f, {"certificate_event", "certificate_expiry"}),
                <<"certificate", id("domain")>>)
        \o When(About(f, {"domain_expiry", "domain_renewed"}), <<"domain", id("domain")>>)
        \o When(About(f, {"http_5xx"}), <<"http", id("domain")>>)
        \o When(m.id = "", <<"content", m.content>>)
  IN IF keys = <<>> THEN <<>> ELSE <<Head(keys)>>

observedState(m, f) ==
  IF "request_closed" \in m.signs \/ "payment_succeeded" \in f.payment
       \/ f.infrastructure \intersect {"domain_renewed", "service_restored"} # {}
    THEN "resolved" ELSE "active"

Tagged(tag, ids) == [i \in DOMAIN ids |-> <<tag, ids[i]>>]
Unique(keys) ==
  LET first == {i \in DOMAIN keys : \A j \in 1..(i - 1) : keys[j] # keys[i]}
  IN [k \in 1..Cardinality(first) |->
        keys[CHOOSE i \in first : Cardinality({j \in first : j <= i}) = k]]

(* deriveEventIdentity: a message's own id and those it refers to are keys *)
(* of one name, so that an answer joins the event of what it answers.      *)
deriveEventIdentity(m, f) ==
  [keys |-> Unique(<<<<"provider", m.id>>, <<"content", m.content>>>>
              \o Tagged("message-id", m.messageId)
              \o Tagged("thread", m.thread)
              \o Tagged("message-id", m.references)
              \o typedKey(m, f)
              \o When(m.subject # "" /\ Len(m.participants) > 1,
                      <<"subject", m.subject, m.participants>>)),
   observedState |-> observedState(m, f)]
=============================================================================

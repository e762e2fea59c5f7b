-------------------------- MODULE ProviderSelection --------------------------
(***************************************************************************)
(* Which provider runs a ticket, and which ones are tried after it         *)
(* (core/runtime_provider_config.py, core/execution_targets.py), and what  *)
(* one call to a provider returns (core/provider_openai_compat.py,         *)
(* core/provider_claude_code.py, _load_provider_payload).                  *)
(*                                                                         *)
(* A configuration is a record:                                            *)
(*   entry     the saved providers: enabled, configured (address, key and  *)
(*             model, or command and model), command (run as a CLI), floor *)
(*             (the targets its capability tags reach), fallbacks          *)
(*   models    the provider model entries, pairs <<provider, model>>       *)
(*   binding   per bound target, its model entry references in order       *)
(*   default   the default provider, or NoProvider                         *)
(***************************************************************************)
EXTENDS Naturals, Sequences, SequencesExt

CONSTANTS
  Providers, NoProvider,
  CeoTarget,      \* ROLE_BINDING_CEO_SHADOW
  Legacy,         \* target -> the role-profile targets it replaced
  ModelOf,        \* provider -> its preferred model
  Parts           \* output events a complete answer is split into

(* A list of the configuration or of the code.                             *)
IsList(s) == s \in Seq(Range(s))

ASSUME ProviderAssumption ==
  /\ NoProvider \notin Providers
  /\ DOMAIN ModelOf = Providers
  /\ \A target \in DOMAIN Legacy : IsList(Legacy[target])
  /\ Parts \in Nat \ {0}

(* A selection carries the provider's entry as it was when it was made.    *)
NoEntry ==
  [enabled |-> FALSE, configured |-> FALSE, command |-> FALSE, floor |-> {},
   fallbacks |-> <<>>]

NoSelection ==
  [provider |-> NoProvider, ref |-> <<>>, target |-> "", reason |-> "none",
   entry |-> NoEntry]

Selection(config, ref, target, reason) ==
  [provider |-> ref[1], ref |-> ref, target |-> target, reason |-> reason,
   entry |-> config.entry[ref[1]]]

Enabled(config, p) == p \in DOMAIN config.entry /\ config.entry[p].enabled

(* runtime_provider_health_details; `paused` are the providers whose       *)
(* circuit breaker is open.                                                *)
Health(config, paused, p) ==
  CASE ~config.entry[p].enabled    -> "DISABLED"
    [] ~config.entry[p].configured -> "INCOMPLETE"
    [] p \in paused                -> "PAUSED"
    [] OTHER                       -> "HEALTHY"

MeetsFloor(config, p, target) == target \in config.entry[p].floor

PreferredRef(p) == <<p, ModelOf[p]>>

(* The references of a binding and the fallbacks of an entry are lists.     *)
ConfigLists(config) ==
  /\ \A target \in DOMAIN config.binding : IsList(config.binding[target])
  /\ \A p \in DOMAIN config.entry : IsList(config.entry[p].fallbacks)

-----------------------------------------------------------------------------
(* The selections of a binding: its references in order, less those whose  *)
(* model entry is gone or whose provider is disabled.                      *)
BindingSelections(config, target, reason) ==
  LET Add(list, ref) ==
        IF ref \in config.models /\ Enabled(config, ref[1])
        THEN Append(list, Selection(config, ref, target, reason)) ELSE list
  IN FoldLeft(Add, <<>>, config.binding[target])

FirstSelection(selections) ==
  IF selections = <<>> THEN NoSelection ELSE Head(selections)

(* Only the first target that has a binding is looked at, whether or not   *)
(* that binding yields a provider.                                         *)
BindingTargets(target) == <<target>> \o Legacy[target]

RoleSelection(config, target) ==
  LET targets == BindingTargets(target)
      at      == SelectInSeq(targets, LAMBDA t : t \in DOMAIN config.binding)
  IN IF at = 0 THEN NoSelection
     ELSE FirstSelection(BindingSelections(config, targets[at], "role_binding"))

CeoSelection(config) ==
  IF CeoTarget \in DOMAIN config.binding
  THEN FirstSelection(BindingSelections(config, CeoTarget, "ceo_binding_inheritance"))
  ELSE NoSelection

OwnSelection(config, p, target, reason) ==
  IF Enabled(config, p) THEN Selection(config, PreferredRef(p), target, reason)
  ELSE NoSelection

(* resolve_provider_selection: a preference of the ticket is final; then   *)
(* the role's binding, the CEO's, the employee's provider, the default.    *)
Select(config, target, employeeProvider, preference) ==
  LET found == <<RoleSelection(config, target), CeoSelection(config),
                 OwnSelection(config, employeeProvider, "", "employee_provider"),
                 OwnSelection(config, config.default, "", "default_provider")>>
      at    == SelectInSeq(found, LAMBDA s : s # NoSelection)
  IN IF preference # NoProvider
     THEN OwnSelection(config, preference, target, "ticket_runtime_preference")
     ELSE IF at = 0 THEN NoSelection ELSE found[at]

(* Mutant: only the candidates already listed count as attempted.          *)
Attempted_InListOnly(primary, list, p) == \E i \in DOMAIN list : list[i].provider = p

Attempted(primary, list, p) ==
  p = primary.provider \/ \E i \in DOMAIN list : list[i].provider = p

(* resolve_provider_failover_selections: the rest of the binding the       *)
(* primary came from, then the primary's own fallbacks, each provider once *)
(* and only if it reaches the target and is healthy now.  `config` may be  *)
(* a later configuration than the one the primary was selected from.       *)
Failovers(config, paused, target, primary) ==
  LET Usable(p) == /\ p \in DOMAIN config.entry
                   /\ MeetsFloor(config, p, target)
                   /\ Health(config, paused, p) = "HEALTHY"
      bound ==
        IF primary.target \in DOMAIN config.binding
             /\ primary.reason # "ticket_runtime_preference"
        THEN BindingSelections(config, primary.target, "provider_failover")
        ELSE <<>>
      at    == SelectInSeq(bound, LAMBDA s : s.ref = primary.ref)
      later == SubSeq(bound, at + 1, Len(bound))
      own   == [i \in DOMAIN primary.entry.fallbacks |->
                  OwnSelection(config, primary.entry.fallbacks[i], primary.target,
                               "provider_failover")]
      Add(list, s) ==
        IF Attempted(primary, list, s.provider) \/ ~Usable(s.provider)
        THEN list ELSE Append(list, s)
  IN FoldLeft(Add, <<>>, later \o own)

-----------------------------------------------------------------------------
(* One call.  `reply` is what the wire does: an HTTP status, or the events *)
(* of a stream in the order the reader thread queues them.                 *)

HttpKind ==
  [limited |-> "PROVIDER_RATE_LIMITED", auth |-> "PROVIDER_AUTH_FAILED",
   upstream |-> "UPSTREAM_UNAVAILABLE", client |-> "PROVIDER_BAD_RESPONSE",
   unreachable |-> "UPSTREAM_UNAVAILABLE"]

(* _load_provider_payload, then the output schema: the text is an object   *)
(* only when every part of it is there, whatever the repairs do.           *)
Parse(parts) ==
  IF parts = Parts THEN "COMPLETED" ELSE "PROVIDER_BAD_RESPONSE"

(* How far the consumer has come: the parts received and, once it stopped, *)
(* the kind of result.  The end of the stream, [DONE] and                  *)
(* response.completed all finalize what has been received; silence is a    *)
(* timeout of the phase the stream is in.                                  *)
StreamStep(seen, event) ==
  LET End == [seen EXCEPT !.kind = Parse(seen.parts)]
  IN CASE seen.kind # "open" -> seen
       [] event = "delta" -> [seen EXCEPT !.parts = @ + 1]
       [] event \in {"done", "end"} -> End
       [] event = "completed" ->   \* carries the whole text when no delta came
            IF seen.parts = 0 THEN [seen EXCEPT !.kind = "COMPLETED"] ELSE End
       [] event = "silence" ->
            [seen EXCEPT !.kind = IF seen.parts > 0 THEN "STREAM_IDLE_TIMEOUT"
                                  ELSE "FIRST_TOKEN_TIMEOUT"]
       [] event = "lost connection" -> [seen EXCEPT !.kind = "UPSTREAM_UNAVAILABLE"]
       [] event = "malformed" -> [seen EXCEPT !.kind = "PROVIDER_BAD_RESPONSE"]

StreamEvents ==
  {"delta", "done", "end", "completed", "silence", "lost connection", "malformed"}

(* The total timeout ends a stream that says nothing final.                *)
StreamKind(events) ==
  FoldLeft(StreamStep, [parts |-> 0, kind |-> "open"],
           Append(events, "silence")).kind

Streams == UNION {[1 .. n -> StreamEvents] : n \in 0 .. Parts + 1}

(* The kinds of result a provider's adapter can return, or raise.  What a  *)
(* command prints is read by the same function, whose exception is one of  *)
(* the HTTP adapter: output that is no JSON object (UNREADABLE) is not     *)
(* caught around a command, nor is a process that cannot be run for a      *)
(* reason other than a missing file (NOT_RUN).  An exit code, no output at *)
(* all and an object that is not of the schema are bad responses.          *)
StreamKinds  == {StreamKind(s) : s \in Streams}
HttpKinds    == {HttpKind[s] : s \in DOMAIN HttpKind}
BodyKinds    == {Parse(n) : n \in 0 .. Parts}
UncaughtKinds == {"UNREADABLE", "NOT_RUN"}
CommandKinds ==
  {"UPSTREAM_UNAVAILABLE", "PROVIDER_BAD_RESPONSE", "COMPLETED"} \cup UncaughtKinds

CallKinds(entry) ==
  IF entry.command THEN CommandKinds
  ELSE HttpKinds \cup StreamKinds \cup BodyKinds

(* The incidents that pause a provider, and the failures that failover     *)
(* covers: the same four kinds.                                            *)
PauseKinds ==
  {"PROVIDER_RATE_LIMITED", "UPSTREAM_UNAVAILABLE", "FIRST_TOKEN_TIMEOUT",
   "STREAM_IDLE_TIMEOUT"}
FailoverKinds == PauseKinds
=============================================================================

----------------------------- MODULE HostAudit ------------------------------
(***************************************************************************)
(* Three readers of one rules document together: the converter makes an    *)
(* update of a card, the worker merges it into the host (HostUpdateMerge), *)
(* and the quick audit of the UI then compares the host with the card.     *)
(* The first is C#, the last JavaScript, and neither knows the other.      *)
(***************************************************************************)
EXTENDS HostUpdateMerge, QuickAudit

LOCAL INSTANCE SequencesExt

CONSTANTS Cases  \* cards in CMDBuild: [rules, catalog, class, card, bindings,
                 \* hostIds: the host of each profile, found: what the
                 \* resolver knows of it]

\* The body a webhook sends for an event of the card.
EventOf(c, type) == [type |-> type, card |-> ("className" :> c.class) @@ c.card]

ResultsOf(c, type) == Published(Convert(EventOf(c, type), c.rules, c.found))

\* The fields of host.update: tags and macros are those of HostUpdateMerge.
PayloadOf(h) ==
    [fields |-> {"groups", "templates", "tags", "interfaces"},
     groups |-> h.groups, templates |-> h.templates, clear |-> h.clear,
     tags |-> {}, macros |-> <<>>, interfaces |-> h.interfaces]

Conversions ==
    UNION {{[of |-> c, result |-> r, payload |-> PayloadOf(r.host)] :
              r \in ToSet(ResultsOf(c, "update"))} : c \in Cases}

\* The host as Zabbix shows it to the audit.
InZabbix(x) ==
    [hostid |-> x.of.hostIds[x.result.profile], name |-> x.result.host.name,
     groups |-> host.groups, templates |-> host.templates,
     interfaces |-> {host.interfaces[i].address : i \in DOMAIN host.interfaces}]

Whole(c) == [class |-> RootClass, descendants |-> TRUE, onlyRules |-> TRUE, max |-> 100, offset |-> 0]

AuditOf(c, zabbix) ==
    RunQuickAudit(c.rules, c.catalog, Whole(c),
                  [class \in {k.name : k \in c.catalog.classes} |-> IF class = c.class THEN <<c.card>> ELSE <<>>],
                  c.bindings, zabbix)

\* The payload an administrator tries for a host: an event that names a profile.
DryRunOf(c, type, profile) ==
    DryRunRules((HostProfile :> profile) @@ (OutputProfile :> profile) @@ (EventType :> type)
                @@ EventOf(c, type).card, c.rules, c.catalog)

\* Hosts that an event of deletion leaves alone for no reason it should have.
KeptByDeletion ==
    {x \in Conversions :
        \E c \in {d \in Cases : /\ d.rules = x.of.rules /\ d.class = x.of.class
                                /\ d.card[Id] = x.of.card[Id]} :
            /\ \A f \in DOMAIN c.card : c.card[f] \notin Malformed
            /\ ResolveSuppressionRule(ResolveFields(ReadEvent(EventOf(c, "delete"), c.rules), c.rules),
                                      c.rules) = <<>>
            /\ \A r \in ToSet(ResultsOf(c, "delete")) : r.profile # x.result.profile}

(* Right after an update the audit finds the card's class and its host, by *)
(* binding or by name, calls it main or additional as the converter did,   *)
(* and has no error about it, whatever administrators did before: except   *)
(* that it misses the templates a conflict rule of the converter removed.  *)
AuditFollowsUpdate ==
    \A x \in {y \in Conversions : last = y.payload} :
        LET items == {i \in AuditOf(x.of, {InZabbix(x)}) :
                         i.card = x.of.card[Id] /\ i.profile = x.result.profile}
        IN  /\ items # {}
            /\ \A i \in items :
                 /\ i.main = x.result.main
                 /\ i.checks \cap Errors \subseteq
                      IF x.result.host.clear # {} THEN {"template_missing"} ELSE {}

(* What the rules page previews of an event is what the converter makes of *)
(* it for the profile the payload names, and after an update the host has  *)
(* it: except groups named by a field, which the preview never shows,      *)
(* templates a conflict rule removes, which it still shows, the method     *)
(* where the converter found a host id that the payload lacks, and events  *)
(* the converter routes by default: to the preview those are not routed.   *)
PreviewFollowsUpdate ==
    \A x \in {y \in Conversions : last = y.payload}, type \in {"create", "update", "delete"} :
        \A r \in {q \in ToSet(ResultsOf(x.of, type)) : q.profile = x.result.profile} :
            LET run == DryRunOf(x.of, type, r.profile)
                named == {s \in ToSet(x.of.rules.groups) : s.leaf # Unset}
                routed == \E q \in ToSet(x.of.rules.routes) : q.event = type
            IN  /\ run.skip = IF routed THEN "" ELSE "not_routed"
                /\ run.preview.templates \ r.host.clear = r.host.templates
                /\ IF named = {} THEN run.preview.groups = r.host.groups
                   ELSE run.preview.groups \subseteq r.host.groups
                /\ run.preview.groups \subseteq host.groups
                /\ run.preview.templates \subseteq host.templates \cup r.host.clear
                /\ routed /\ r.hostId = Blank => /\ run.preview.method = r.method
                                               /\ run.preview.fallback = r.fallback

(* The audit and the dry run agree with the converter and the worker.      *)
ReadersAgree == AuditFollowsUpdate /\ PreviewFollowsUpdate

(* A host that an update reached is reached by the deletion of its card,   *)
(* although the card may have lost its address, its template or the field  *)
(* a condition asks for in between; only a suppression that matches, or a  *)
(* field that has become malformed, keeps the deletion from being sent.    *)
DeletionReachesHost ==
    \A x \in KeptByDeletion : last # x.payload
=============================================================================

------------------------ MODULE ModelRolesProperties ------------------------
(***************************************************************************)
(* What the model configuration promises: docs/handoff/03-model-           *)
(* providers.md, ADR-006 and the checks of services/model_config.py.       *)
(***************************************************************************)
EXTENDS ModelRoles

\* Rows, bindings and the requests under way have the shape of their tables.
TypeOK ==
  /\ provider \in [Provider -> ProviderRow]
  /\ profile \in [Profile -> ProfileRow]
  /\ binding \in [Role -> Profile \union {None}]
  /\ req \in [Request -> Pending]

\* A role that is bound reaches a profile row and that profile a provider row, whatever
\* deletes, moves and binds of several administrators overlap: get_for_role dereferences
\* both without a check (registry.py:66-68).
RolesReachTheirProvider ==
  \A r \in Role: binding[r] # None =>
    /\ profile[binding[r]].exists
    /\ provider[profile[binding[r]].provider].exists

\* A lookup that succeeds is sent to the settings its capabilities were tested with: new
\* settings clear the results (model_config.py:77-93, 242-243), so a stale role fails to resolve.
ResolvedRolesAreTested ==
  \A r \in Role: Resolves(r) =>
    LET row == profile[binding[r]]
        now == [provider |-> row.provider, endpoint |-> provider[row.provider].endpoint,
                request |-> row.request] IN
    /\ row.text.basis = now
    /\ r = "document_conversion" => row.vision.basis = now
    /\ r = "query_router" => row.status.basis = now

\* "Deleting a Provider that owns Profiles ... returns HTTP 409" (docs/handoff/03-model-
\* providers.md:12-13): a profile goes away by a request to delete that profile.  It does
\* not hold: a profile created between the count and the delete goes with its provider.
ProfilesAreDeletedByName ==
  [][\A f \in Profile: profile[f].exists /\ ~profile'[f].exists =>
       \E t \in Request: req[t].op = "delete_profile" /\ req[t].target = f]_vars
=============================================================================

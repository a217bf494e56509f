----------------------------- MODULE ModelRoles -----------------------------
(***************************************************************************)
(* Providers, model profiles, connection tests and role bindings:          *)
(* services/model_config.py over models/model_config.py, and the lookup    *)
(* of llm/registry.py.                                                     *)
(*                                                                         *)
(* Each request has a session of its own.  What it reads first and what it *)
(* commits later are two steps, and the commit writes only the columns     *)
(* whose value differs from the one read.  The lookups of one read (a row  *)
(* and the rows it refers to) are one step.                                *)
(*                                                                         *)
(* A test result carries, beside its value, the settings it was measured   *)
(* with: the program does not store them, the properties need them.        *)
(***************************************************************************)
EXTENDS Naturals

CONSTANTS
  MaxProvider,   \* bound: provider ids
  MaxProfile,    \* bound: profile ids
  Role,          \* the model roles
  Request,       \* threads of the Web process that serve admin requests
  Setting,       \* settings that change what is sent to a model
  None,          \* no row, no binding, no setting
  Ops,           \* the requests a run allows
  Exclusive      \* those of them that a run keeps apart; nothing in the code does

Edit == {"provider_settings", "provider_on", "provider_off",
         "profile_settings", "profile_provider", "profile_on", "profile_off"}
Operation == Edit \union {"create_provider", "delete_provider", "create_profile",
                          "delete_profile", "test", "bind", "unbind"}

ASSUME ModelRolesConstants ==
  /\ MaxProvider \in Nat /\ MaxProfile \in Nat
  /\ None \notin Nat
  /\ Ops \subseteq Operation /\ Exclusive \subseteq Ops
  /\ None \notin Setting \union Role

Provider == 1..MaxProvider
Profile == 1..MaxProfile

VARIABLES
  provider,   \* api_providers
  profile,    \* model_profiles
  binding,    \* model_role_bindings: the profile of each role
  req         \* what each request has read and is about to commit

vars == <<provider, profile, binding, req>>

-----------------------------------------------------------------------------
Basis == [provider: Provider, endpoint: Setting, request: Setting]
Measured(value) == [value: value, basis: Basis \union {None}]
Flag == Measured(BOOLEAN)
Status == Measured({"untested", "passed", "partial", "failed"})
ProviderRow == [exists: BOOLEAN, endpoint: Setting \union {None}, enabled: BOOLEAN]
ProfileRow == [exists: BOOLEAN, provider: Provider \union {None},
               request: Setting \union {None}, enabled: BOOLEAN,
               text: Flag, vision: Flag, status: Status]

NoProvider == [exists |-> FALSE, endpoint |-> None, enabled |-> FALSE]
Untested(value) == [value |-> value, basis |-> None]
NoProfile == [exists |-> FALSE, provider |-> None, request |-> None, enabled |-> FALSE,
              text |-> Untested(FALSE), vision |-> Untested(FALSE),
              status |-> Untested("untested")]
Idle == [op |-> "idle", target |-> None, role |-> None, to |-> None,
         row |-> NoProfile, endpoint |-> None]

\* What a request is about to do: its target (a provider or a profile), the role it
\* binds, the setting or provider it changes to; the profile row, the binding's profile
\* and the connection settings its session has read.
Pending == [op: Operation \union {"idle"}, target: Nat \union {None},
            role: Role \union {None}, to: Setting \union Nat \union {None},
            row: ProfileRow, endpoint: Setting \union {None}]

Endpoint(p) == provider[p].endpoint
OfProvider(f, p) == profile[f].exists /\ profile[f].provider = p
Bound(f) == \E r \in Role: binding[r] = f

\* SQLite gives a new row the successor of the largest id in use.
Fresh(id, rows) == ~rows[id].exists /\ \A i \in DOMAIN rows: rows[i].exists <=> i < id

-----------------------------------------------------------------------------
(* Columns written by a commit: those that differ from what was read.      *)

Changed(read, stored, new) == IF read = new THEN stored ELSE new
Reset(read, stored, value) ==
  IF read.value = value THEN stored ELSE Untested(value)

\* _reset_profile_test_result on a row whose session read "seen"
ResetResults(stored, seen) ==
  [stored EXCEPT !.text = Reset(seen.text, @, FALSE),
                 !.vision = Reset(seen.vision, @, FALSE),
                 !.status = Reset(seen.status, @, "untested")]

\* validate_profile_for_role
Fits(role, f) ==
  /\ profile[f].enabled
  /\ provider[profile[f].provider].enabled
  /\ profile[f].text.value
  /\ role = "document_conversion" => profile[f].vision.value
  /\ role = "query_router" => profile[f].status.value \in {"passed", "partial"}

-----------------------------------------------------------------------------
Init ==
  /\ provider = [p \in Provider |-> NoProvider]
  /\ profile = [f \in Profile |-> NoProfile]
  /\ binding = [r \in Role |-> None]
  /\ req = [t \in Request |-> Idle]

\* A request of Exclusive runs while no other is under way: an assumption on the
\* administrators, not a guard of the code, which serves all of them at any time.
MayStart(t, op) ==
  /\ op \in Ops
  /\ req[t] = Idle
  /\ \A u \in Request:
       req[u].op # "idle" => op \notin Exclusive /\ req[u].op \notin Exclusive

Begin(t, op, target, new) ==
  /\ MayStart(t, op)
  /\ req' = [req EXCEPT ![t] = [new EXCEPT !.op = op, !.target = target]]
  /\ UNCHANGED <<provider, profile, binding>>

Finish(t) == req' = [req EXCEPT ![t] = Idle]

\* A conflict (409), a row that went away before the commit, a name that is taken:
\* the session is rolled back and nothing is written.
Refuse(t) ==
  /\ req[t].op # "idle"
  /\ Finish(t)
  /\ UNCHANGED <<provider, profile, binding>>

-----------------------------------------------------------------------------
(* Providers                                                               *)

CreateProvider(t, p, s) ==
  /\ MayStart(t, "create_provider")
  /\ Fresh(p, provider)
  /\ provider' = [provider EXCEPT ![p] = [exists |-> TRUE, endpoint |-> s, enabled |-> TRUE]]
  /\ UNCHANGED <<profile, binding, req>>

ReadForSettings(t, p, s) ==
  /\ provider[p].exists
  /\ Begin(t, "provider_settings", p, [Idle EXCEPT !.to = s, !.endpoint = provider[p].endpoint])

\* update_provider with new connection settings: the flush of the provider row takes
\* SQLite's write lock, so the profiles it resets are read as they are.
CommitSettings(t) ==
  LET p == req[t].target IN
  /\ req[t].op = "provider_settings"
  /\ provider[p].exists
  /\ provider' = [provider EXCEPT ![p].endpoint = Changed(req[t].endpoint, @, req[t].to)]
  /\ profile' = [f \in Profile |-> IF OfProvider(f, p) THEN ResetResults(profile[f], profile[f])
                                                       ELSE profile[f]]
  /\ Finish(t)
  /\ UNCHANGED binding

\* An edit that changes nothing writes nothing.
ReadForSwitch(t, p) ==
  /\ provider[p].exists
  /\ Begin(t, IF provider[p].enabled THEN "provider_off" ELSE "provider_on", p, Idle)

CommitSwitch(t) ==
  /\ req[t].op \in {"provider_on", "provider_off"}
  /\ provider[req[t].target].exists
  /\ provider' = [provider EXCEPT ![req[t].target].enabled = req[t].op = "provider_on"]
  /\ Finish(t)
  /\ UNCHANGED <<profile, binding>>

CountProfiles(t, p) ==
  /\ provider[p].exists
  /\ ~\E f \in Profile: OfProvider(f, p)
  /\ Begin(t, "delete_provider", p, Idle)

\* The count may be out of date.  The foreign key of a profile then takes it along, and
\* that of a binding restricts the delete.
DeleteProvider(t) ==
  LET p == req[t].target IN
  /\ req[t].op = "delete_provider"
  /\ \A f \in Profile: OfProvider(f, p) => ~Bound(f)
  /\ provider' = [provider EXCEPT ![p] = NoProvider]
  /\ profile' = [f \in Profile |-> IF OfProvider(f, p) THEN NoProfile ELSE profile[f]]
  /\ Finish(t)
  /\ UNCHANGED binding

-----------------------------------------------------------------------------
(* Profiles                                                                *)

RequireProvider(t, p, s) ==
  /\ provider[p].exists
  /\ Begin(t, "create_profile", p, [Idle EXCEPT !.to = s])

\* The insert fails on the foreign key when the provider is gone.
CreateProfile(t, f) ==
  /\ req[t].op = "create_profile"
  /\ provider[req[t].target].exists
  /\ Fresh(f, profile)
  /\ profile' = [profile EXCEPT ![f] = [NoProfile EXCEPT !.exists = TRUE, !.enabled = TRUE,
                                          !.provider = req[t].target, !.request = req[t].to]]
  /\ Finish(t)
  /\ UNCHANGED <<provider, binding>>

ReadForRequest(t, f, s) ==
  /\ profile[f].exists
  /\ Begin(t, "profile_settings", f, [Idle EXCEPT !.to = s, !.row = profile[f]])

CommitRequest(t) ==
  LET f == req[t].target IN
  /\ req[t].op = "profile_settings"
  /\ profile[f].exists
  /\ profile' = [profile EXCEPT ![f] =
       [ResetResults(profile[f], req[t].row)
          EXCEPT !.request = Changed(req[t].row.request, @, req[t].to)]]
  /\ Finish(t)
  /\ UNCHANGED <<provider, binding>>

ReadForMove(t, f, p) ==
  /\ profile[f].exists
  /\ provider[p].exists
  /\ Begin(t, "profile_provider", f, [Idle EXCEPT !.to = p, !.row = profile[f]])

\* Seeded fault: a move to another provider keeps the results of the old one.
CommitMoveTested(t) ==
  LET f == req[t].target IN
  /\ req[t].op = "profile_provider"
  /\ profile[f].exists
  /\ provider[req[t].to].exists
  /\ profile' = [profile EXCEPT ![f].provider = Changed(req[t].row.provider, @, req[t].to)]
  /\ Finish(t)
  /\ UNCHANGED <<provider, binding>>

CommitMove(t) ==
  LET f == req[t].target IN
  /\ req[t].op = "profile_provider"
  /\ profile[f].exists
  /\ provider[req[t].to].exists
  /\ profile' = [profile EXCEPT ![f] =
       [ResetResults(profile[f], req[t].row)
          EXCEPT !.provider = Changed(req[t].row.provider, @, req[t].to)]]
  /\ Finish(t)
  /\ UNCHANGED <<provider, binding>>

ReadForProfileSwitch(t, f) ==
  /\ profile[f].exists
  /\ Begin(t, IF profile[f].enabled THEN "profile_off" ELSE "profile_on", f, Idle)

CommitProfileSwitch(t) ==
  /\ req[t].op \in {"profile_on", "profile_off"}
  /\ profile[req[t].target].exists
  /\ profile' = [profile EXCEPT ![req[t].target].enabled = req[t].op = "profile_on"]
  /\ Finish(t)
  /\ UNCHANGED <<provider, binding>>

CountBindings(t, f) ==
  /\ profile[f].exists
  /\ ~Bound(f)
  /\ Begin(t, "delete_profile", f, Idle)

\* Seeded fault: the delete trusts the count and the foreign key does not restrict it.
DeleteProfileUnrestricted(t) ==
  /\ req[t].op = "delete_profile"
  /\ profile' = [profile EXCEPT ![req[t].target] = NoProfile]
  /\ Finish(t)
  /\ UNCHANGED <<provider, binding>>

DeleteProfile(t) ==
  /\ req[t].op = "delete_profile"
  /\ ~Bound(req[t].target)
  /\ profile' = [profile EXCEPT ![req[t].target] = NoProfile]
  /\ Finish(t)
  /\ UNCHANGED <<provider, binding>>

-----------------------------------------------------------------------------
(* Connection test: the client is built from the rows read at the start, the *)
(* three probes are awaited, then the results are committed.                 *)

ReadForTest(t, f) ==
  /\ profile[f].exists
  /\ Begin(t, "test", f, [Idle EXCEPT !.row = profile[f],
                                      !.endpoint = provider[profile[f].provider].endpoint])

Verdict(text, json, vision) ==
  IF ~text \/ ~json THEN "failed" ELSE IF vision THEN "passed" ELSE "partial"

Result(t, value, shown) ==
  [value |-> value,
   basis |-> IF shown THEN [provider |-> req[t].row.provider, endpoint |-> req[t].endpoint,
                            request |-> req[t].row.request]
                      ELSE None]

WriteColumn(read, stored, new) == IF read.value = new.value THEN stored ELSE new

CommitTest(t, text, json, vision) ==
  LET f == req[t].target
      row == req[t].row
      status == Verdict(text, json, vision) IN
  /\ req[t].op = "test"
  /\ profile[f].exists
  /\ profile' = [profile EXCEPT
       ![f].text = WriteColumn(row.text, @, Result(t, text, text)),
       ![f].vision = WriteColumn(row.vision, @, Result(t, vision, vision)),
       ![f].status = WriteColumn(row.status, @, Result(t, status, status # "failed"))]
  /\ Finish(t)
  /\ UNCHANGED <<provider, binding>>

-----------------------------------------------------------------------------
(* Role bindings                                                           *)

\* The session keeps the binding it read: its profile, or that there is none.
ReadForBind(t, r, f) ==
  /\ profile[f].exists
  /\ Fits(r, f)
  /\ Begin(t, "bind", f, [Idle EXCEPT !.role = r, !.to = binding[r]])

\* An insert fails on the key when another one came first, an update when the row is
\* gone, both on the foreign key when the profile is gone.
Bind(t) ==
  LET r == req[t].role IN
  /\ req[t].op = "bind"
  /\ profile[req[t].target].exists
  /\ (req[t].to = None) <=> (binding[r] = None)
  /\ binding' = [binding EXCEPT ![r] = Changed(req[t].to, @, req[t].target)]
  /\ Finish(t)
  /\ UNCHANGED <<provider, profile>>

Unbind(t, r) ==
  /\ MayStart(t, "unbind")
  /\ binding[r] # None
  /\ binding' = [binding EXCEPT ![r] = None]
  /\ UNCHANGED <<provider, profile, req>>

-----------------------------------------------------------------------------
ProviderRequest(t) ==
  \/ \E p \in Provider, s \in Setting: CreateProvider(t, p, s) \/ ReadForSettings(t, p, s)
  \/ \E p \in Provider: ReadForSwitch(t, p) \/ CountProfiles(t, p)
  \/ CommitSettings(t) \/ CommitSwitch(t) \/ DeleteProvider(t)

ProfileRequest(t) ==
  \/ \E p \in Provider, s \in Setting: RequireProvider(t, p, s)
  \/ \E f \in Profile: CreateProfile(t, f) \/ ReadForProfileSwitch(t, f) \/ CountBindings(t, f)
  \/ \E f \in Profile, s \in Setting: ReadForRequest(t, f, s)
  \/ \E f \in Profile, p \in Provider: ReadForMove(t, f, p)
  \/ CommitRequest(t) \/ CommitMove(t) \/ CommitProfileSwitch(t) \/ DeleteProfile(t)

TestRequest(t) ==
  \/ \E f \in Profile: ReadForTest(t, f)
  \/ \E text, json, vision \in BOOLEAN: CommitTest(t, text, json, vision)

RoleRequest(t) ==
  \/ \E r \in Role, f \in Profile: ReadForBind(t, r, f)
  \/ Bind(t)
  \/ \E r \in Role: Unbind(t, r)

Next == \E t \in Request:
  \/ ProviderRequest(t) \/ ProfileRequest(t) \/ TestRequest(t) \/ RoleRequest(t)
  \/ Refuse(t)

Spec == Init /\ [][Next]_vars

\* get_for_role: the profile a lookup of the role builds its client from.
Resolves(r) == binding[r] # None /\ Fits(r, binding[r])
=============================================================================

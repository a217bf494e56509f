-------------------------- MODULE ModelRolesProofs --------------------------
(***************************************************************************)
(* The model configuration, for any numbers of providers and profiles, any *)
(* roles, settings and concurrent requests.                                *)
(*                                                                         *)
(* RoleInv is the inductive invariant: rows refer to rows that are there,  *)
(* and a request under way carries what it may write.  TestedInv adds what *)
(* the results of connection tests rest on.                                *)
(***************************************************************************)
EXTENDS ModelRolesProperties, TLAPS

\* What a request under way will write has been read or given as such.
Meant(q) ==
  /\ q.op \in {"provider_settings", "provider_on", "provider_off", "delete_provider",
               "create_profile"} => q.target \in Provider
  /\ q.op \in {"profile_settings", "profile_provider", "profile_on", "profile_off",
               "delete_profile", "test", "bind"} => q.target \in Profile
  /\ q.op \in {"provider_settings", "create_profile", "profile_settings"} => q.to \in Setting
  /\ q.op = "profile_provider" => q.to \in Provider
  /\ q.op = "bind" => q.role \in Role
  /\ q.op = "test" => /\ q.row.provider \in Provider
                      /\ q.row.request \in Setting
                      /\ q.endpoint \in Setting

ProvidersAreWhole == \A p \in Provider: provider[p].exists => provider[p].endpoint \in Setting
ProfilesHaveProvider == \A f \in Profile: profile[f].exists =>
  /\ profile[f].provider \in Provider
  /\ provider[profile[f].provider].exists
  /\ profile[f].request \in Setting
BindingsHaveProfile == \A r \in Role: binding[r] # None => profile[binding[r]].exists
RequestsAreMeant == \A t \in Request: Meant(req[t])

RoleInv ==
  /\ TypeOK /\ ProvidersAreWhole /\ ProfilesHaveProvider /\ BindingsHaveProfile
  /\ RequestsAreMeant

-----------------------------------------------------------------------------
LEMMA EmptyRowsTyped ==
  /\ NoProvider \in ProviderRow
  /\ NoProfile \in ProfileRow
  /\ Idle \in Pending
<1>1. NoProvider \in ProviderRow
  BY DEF NoProvider, ProviderRow
<1>2. NoProfile \in ProfileRow
  BY DEF NoProfile, ProfileRow, Untested, Flag, Status, Measured
<1>3. Idle \in Pending
  BY <1>2 DEF Idle, Pending
<1>4. QED
  BY <1>1, <1>2, <1>3

LEMMA InitRoles == Init => RoleInv
<1> SUFFICES ASSUME Init PROVE RoleInv
  OBVIOUS
<1>1. TypeOK
  BY EmptyRowsTyped DEF Init, TypeOK
<1>2. ProvidersAreWhole /\ ProfilesHaveProvider /\ BindingsHaveProfile
  BY DEF Init, ProvidersAreWhole, ProfilesHaveProvider, BindingsHaveProfile, NoProvider,
         NoProfile
<1>3. RequestsAreMeant
  BY DEF Init, RequestsAreMeant, Meant, Idle
<1>4. QED
  BY <1>1, <1>2, <1>3 DEF RoleInv

\* A reset leaves a column as it is stored, or without a result.
LEMMA ResetTyped ==
  ASSUME NEW row \in ProfileRow, NEW seen \in ProfileRow
  PROVE  /\ ResetResults(row, seen) \in ProfileRow
         /\ ResetResults(row, seen).exists = row.exists
         /\ ResetResults(row, seen).provider = row.provider
         /\ ResetResults(row, seen).request = row.request
<1>1. Untested(FALSE) \in Flag /\ Untested("untested") \in Status
  BY DEF Untested, Flag, Status, Measured
<1>2. row.text \in Flag /\ row.vision \in Flag /\ row.status \in Status
  BY DEF ProfileRow
<1>3. /\ Reset(seen.text, row.text, FALSE) \in Flag
      /\ Reset(seen.vision, row.vision, FALSE) \in Flag
      /\ Reset(seen.status, row.status, "untested") \in Status
  BY <1>1, <1>2 DEF Reset
<1>4. QED
  BY <1>3 DEF ResetResults, ProfileRow

\* A request that has read its rows.
LEMMA BeginKeepsRoles ==
  ASSUME RoleInv, NEW t \in Request, NEW op \in Operation, NEW target \in Nat \union {None},
         NEW new \in Pending, Begin(t, op, target, new),
         Meant([new EXCEPT !.op = op, !.target = target])
  PROVE  RoleInv'
<1> DEFINE q == [new EXCEPT !.op = op, !.target = target]
<1>1. q \in Pending
  BY DEF Pending
<1>2. req' = [req EXCEPT ![t] = q] /\ UNCHANGED <<provider, profile, binding>>
  BY DEF Begin
<1>3. req' \in [Request -> Pending]
  BY <1>1, <1>2 DEF RoleInv, TypeOK
<1>4. RequestsAreMeant'
  BY <1>2 DEF RoleInv, RequestsAreMeant, TypeOK
<1>5. QED
  BY <1>2, <1>3, <1>4 DEF RoleInv, TypeOK, ProvidersAreWhole, ProfilesHaveProvider,
                          BindingsHaveProfile

\* A request that is through, whatever it wrote.
LEMMA FinishKeepsRequests ==
  ASSUME RoleInv, NEW t \in Request, Finish(t)
  PROVE  req' \in [Request -> Pending] /\ RequestsAreMeant'
<1>1. Meant(Idle)
  BY DEF Meant, Idle
<1>2. QED
  BY <1>1, EmptyRowsTyped DEF RoleInv, TypeOK, Finish, RequestsAreMeant

LEMMA RequestTyped ==
  ASSUME RoleInv, NEW t \in Request
  PROVE  req[t] \in Pending /\ Meant(req[t]) /\ req[t].row \in ProfileRow
  BY DEF RoleInv, TypeOK, RequestsAreMeant, Pending

LEMMA IdsAreNumbers == Provider \subseteq Nat /\ Profile \subseteq Nat
  BY ModelRolesConstants DEF Provider, Profile

-----------------------------------------------------------------------------
(* The steps                                                               *)

LEMMA ReadsKeepRoles ==
  ASSUME RoleInv, NEW t \in Request,
         \/ \E p \in Provider, s \in Setting: ReadForSettings(t, p, s)
         \/ \E p \in Provider: ReadForSwitch(t, p) \/ CountProfiles(t, p)
         \/ \E p \in Provider, s \in Setting: RequireProvider(t, p, s)
         \/ \E f \in Profile: ReadForProfileSwitch(t, f) \/ CountBindings(t, f)
         \/ \E f \in Profile, s \in Setting: ReadForRequest(t, f, s)
         \/ \E f \in Profile, p \in Provider: ReadForMove(t, f, p)
         \/ \E f \in Profile: ReadForTest(t, f)
         \/ \E r \in Role, f \in Profile: ReadForBind(t, r, f)
  PROVE  RoleInv'
<1> USE EmptyRowsTyped, IdsAreNumbers
<1>1. ASSUME NEW p \in Provider, NEW s \in Setting, ReadForSettings(t, p, s)
      PROVE  RoleInv'
  <2> DEFINE new == [Idle EXCEPT !.to = s, !.endpoint = provider[p].endpoint]
  <2>1. provider[p].endpoint \in Setting \union {None}
    BY DEF RoleInv, TypeOK, ProviderRow
  <2>2. new \in Pending /\ "provider_settings" \in Operation
    BY <2>1 DEF Pending, Operation, Edit
  <2>3. Meant([new EXCEPT !.op = "provider_settings", !.target = p])
    BY DEF Meant, Idle
  <2>4. QED
    BY <1>1, <2>2, <2>3, BeginKeepsRoles DEF ReadForSettings
<1>2. ASSUME NEW p \in Provider, ReadForSwitch(t, p) PROVE RoleInv'
  <2> DEFINE op == IF provider[p].enabled THEN "provider_off" ELSE "provider_on"
  <2>1. op \in Operation
    BY DEF Operation, Edit
  <2>2. Meant([Idle EXCEPT !.op = op, !.target = p])
    BY DEF Meant, Idle
  <2>3. Begin(t, op, p, Idle)
    BY <1>2 DEF ReadForSwitch
  <2> HIDE DEF op
  <2>4. QED
    BY <2>1, <2>2, <2>3, BeginKeepsRoles
<1>3. ASSUME NEW p \in Provider, CountProfiles(t, p) PROVE RoleInv'
  <2>1. Meant([Idle EXCEPT !.op = "delete_provider", !.target = p])
    BY DEF Meant, Idle
  <2>2. QED
    BY <1>3, <2>1, BeginKeepsRoles DEF CountProfiles, Operation
<1>4. ASSUME NEW p \in Provider, NEW s \in Setting, RequireProvider(t, p, s)
      PROVE  RoleInv'
  <2> DEFINE new == [Idle EXCEPT !.to = s]
  <2>1. new \in Pending /\ "create_profile" \in Operation
    BY DEF Pending, Operation
  <2>2. Meant([new EXCEPT !.op = "create_profile", !.target = p])
    BY DEF Meant, Idle
  <2>3. QED
    BY <1>4, <2>1, <2>2, BeginKeepsRoles DEF RequireProvider
<1>5. ASSUME NEW f \in Profile, ReadForProfileSwitch(t, f) PROVE RoleInv'
  <2> DEFINE op == IF profile[f].enabled THEN "profile_off" ELSE "profile_on"
  <2>1. op \in Operation
    BY DEF Operation, Edit
  <2>2. Meant([Idle EXCEPT !.op = op, !.target = f])
    BY DEF Meant, Idle
  <2>3. Begin(t, op, f, Idle)
    BY <1>5 DEF ReadForProfileSwitch
  <2> HIDE DEF op
  <2>4. QED
    BY <2>1, <2>2, <2>3, BeginKeepsRoles
<1>6. ASSUME NEW f \in Profile, CountBindings(t, f) PROVE RoleInv'
  <2>1. Meant([Idle EXCEPT !.op = "delete_profile", !.target = f])
    BY DEF Meant, Idle
  <2>2. QED
    BY <1>6, <2>1, BeginKeepsRoles DEF CountBindings, Operation
<1>7. ASSUME NEW f \in Profile, NEW s \in Setting, ReadForRequest(t, f, s) PROVE RoleInv'
  <2> DEFINE new == [Idle EXCEPT !.to = s, !.row = profile[f]]
  <2>1. profile[f] \in ProfileRow
    BY DEF RoleInv, TypeOK
  <2>2. new \in Pending /\ "profile_settings" \in Operation
    BY <2>1 DEF Pending, Operation, Edit
  <2>3. Meant([new EXCEPT !.op = "profile_settings", !.target = f])
    BY DEF Meant, Idle
  <2>4. QED
    BY <1>7, <2>2, <2>3, BeginKeepsRoles DEF ReadForRequest
<1>8. ASSUME NEW f \in Profile, NEW p \in Provider, ReadForMove(t, f, p) PROVE RoleInv'
  <2> DEFINE new == [Idle EXCEPT !.to = p, !.row = profile[f]]
  <2>1. profile[f] \in ProfileRow
    BY DEF RoleInv, TypeOK
  <2>2. new \in Pending /\ "profile_provider" \in Operation
    BY <2>1 DEF Pending, Operation, Edit
  <2>3. Meant([new EXCEPT !.op = "profile_provider", !.target = f])
    BY DEF Meant, Idle
  <2>4. QED
    BY <1>8, <2>2, <2>3, BeginKeepsRoles DEF ReadForMove
<1>9. ASSUME NEW f \in Profile, ReadForTest(t, f) PROVE RoleInv'
  <2> DEFINE new == [Idle EXCEPT !.row = profile[f],
                                 !.endpoint = provider[profile[f].provider].endpoint]
  <2>1. profile[f] \in ProfileRow
    BY DEF RoleInv, TypeOK
  <2>2. profile[f].provider \in Provider /\ profile[f].request \in Setting
    BY <1>9 DEF ReadForTest, RoleInv, ProfilesHaveProvider
  <2>3. provider[profile[f].provider].endpoint \in Setting
    BY <1>9, <2>2 DEF ReadForTest, RoleInv, ProfilesHaveProvider, ProvidersAreWhole
  <2>4. new \in Pending /\ "test" \in Operation
    BY <2>1, <2>3 DEF Pending, Operation
  <2>5. Meant([new EXCEPT !.op = "test", !.target = f])
    BY <2>2, <2>3 DEF Meant, Idle
  <2>6. QED
    BY <1>9, <2>4, <2>5, BeginKeepsRoles DEF ReadForTest
<1>10. ASSUME NEW r \in Role, NEW f \in Profile, ReadForBind(t, r, f) PROVE RoleInv'
  <2> DEFINE new == [Idle EXCEPT !.role = r, !.to = binding[r]]
  <2>1. binding[r] \in Profile \union {None}
    BY DEF RoleInv, TypeOK
  <2>2. new \in Pending /\ "bind" \in Operation
    BY <2>1 DEF Pending, Operation
  <2>3. Meant([new EXCEPT !.op = "bind", !.target = f])
    BY DEF Meant, Idle
  <2>4. QED
    BY <1>10, <2>2, <2>3, BeginKeepsRoles DEF ReadForBind
<1>11. QED
  BY <1>1, <1>2, <1>3, <1>4, <1>5, <1>6, <1>7, <1>8, <1>9, <1>10

\* What a step has to show when it only writes rows.
LEMMA RowsKeepRoles ==
  ASSUME RoleInv, NEW t \in Request, Finish(t) \/ UNCHANGED req,
         provider' \in [Provider -> ProviderRow], profile' \in [Profile -> ProfileRow],
         binding' \in [Role -> Profile \union {None}],
         ProvidersAreWhole', ProfilesHaveProvider', BindingsHaveProfile'
  PROVE  RoleInv'
<1>1. req' \in [Request -> Pending] /\ RequestsAreMeant'
  BY FinishKeepsRequests DEF RoleInv, TypeOK, RequestsAreMeant
<1>2. QED
  BY <1>1 DEF RoleInv, TypeOK

LEMMA ProviderCommitsKeepRoles ==
  ASSUME RoleInv, NEW t \in Request,
         \/ \E p \in Provider, s \in Setting: CreateProvider(t, p, s)
         \/ CommitSettings(t) \/ CommitSwitch(t) \/ DeleteProvider(t)
  PROVE  RoleInv'
<1> USE RequestTyped
<1>1. ASSUME NEW p \in Provider, NEW s \in Setting, CreateProvider(t, p, s) PROVE RoleInv'
  <2>1. provider' \in [Provider -> ProviderRow]
    BY <1>1 DEF CreateProvider, RoleInv, TypeOK, ProviderRow
  <2>2. ProvidersAreWhole' /\ ProfilesHaveProvider'
    BY <1>1 DEF CreateProvider, RoleInv, TypeOK, ProvidersAreWhole, ProfilesHaveProvider
  <2>3. QED
    BY <1>1, <2>1, <2>2, RowsKeepRoles
       DEF CreateProvider, RoleInv, TypeOK, BindingsHaveProfile
<1>2. CASE CommitSettings(t)
  <2> DEFINE p == req[t].target
             new == Changed(req[t].endpoint, provider[p].endpoint, req[t].to)
  <2>1. p \in Provider /\ req[t].to \in Setting
    BY <1>2 DEF CommitSettings, Meant
  <2>2. provider[p] \in ProviderRow /\ provider[p].endpoint \in Setting
    BY <1>2, <2>1 DEF CommitSettings, RoleInv, TypeOK, ProvidersAreWhole
  <2>3. new \in Setting
    BY <2>1, <2>2 DEF Changed
  <2>4. provider' = [provider EXCEPT ![p].endpoint = new]
    BY <1>2 DEF CommitSettings
  <2>5. \A f \in Profile:
          /\ profile'[f] \in ProfileRow
          /\ profile'[f].exists = profile[f].exists
          /\ profile'[f].provider = profile[f].provider
          /\ profile'[f].request = profile[f].request
    BY <1>2, ResetTyped DEF CommitSettings, RoleInv, TypeOK
  <2> HIDE DEF new, p
  <2>6. provider' \in [Provider -> ProviderRow] /\ profile' \in [Profile -> ProfileRow]
    <3>1. profile' = [f \in Profile |-> profile'[f]]
      BY <1>2 DEF CommitSettings
    <3>2. QED
      BY <2>1, <2>2, <2>3, <2>4, <2>5, <3>1 DEF RoleInv, TypeOK, ProviderRow
  <2>7. ProvidersAreWhole'
    BY <2>1, <2>3, <2>4 DEF RoleInv, TypeOK, ProvidersAreWhole, ProviderRow
  <2>8. \A q \in Provider: provider'[q].exists = provider[q].exists
    BY <2>1, <2>4 DEF RoleInv, TypeOK, ProviderRow
  <2>9. ProfilesHaveProvider'
    BY <2>5, <2>8 DEF RoleInv, ProfilesHaveProvider
  <2>10. BindingsHaveProfile'
    BY <1>2, <2>5 DEF CommitSettings, RoleInv, TypeOK, BindingsHaveProfile
  <2>11. QED
    BY <1>2, <2>6, <2>7, <2>9, <2>10, RowsKeepRoles DEF CommitSettings, RoleInv, TypeOK
<1>3. CASE CommitSwitch(t)
  <2> DEFINE p == req[t].target
             on == req[t].op = "provider_on"
  <2>1. p \in Provider
    BY <1>3 DEF CommitSwitch, Meant
  <2>2. provider' = [provider EXCEPT ![p].enabled = on] /\ on \in BOOLEAN
    BY <1>3 DEF CommitSwitch
  <2> HIDE DEF on, p
  <2>3. /\ provider' \in [Provider -> ProviderRow]
        /\ \A q \in Provider: /\ provider'[q].exists = provider[q].exists
                             /\ provider'[q].endpoint = provider[q].endpoint
    BY <2>1, <2>2 DEF RoleInv, TypeOK, ProviderRow
  <2>4. ProvidersAreWhole' /\ ProfilesHaveProvider' /\ BindingsHaveProfile'
    BY <1>3, <2>3 DEF CommitSwitch, RoleInv, ProvidersAreWhole, ProfilesHaveProvider,
                      BindingsHaveProfile
  <2>5. QED
    BY <1>3, <2>3, <2>4, RowsKeepRoles DEF CommitSwitch, RoleInv, TypeOK
<1>4. CASE DeleteProvider(t)
  <2> DEFINE p == req[t].target
  <2>1. provider' = [provider EXCEPT ![p] = NoProvider]
    BY <1>4 DEF DeleteProvider
  <2>2. profile' = [f \in Profile |-> IF OfProvider(f, p) THEN NoProfile ELSE profile[f]]
    BY <1>4 DEF DeleteProvider
  <2>3. UNCHANGED binding /\ \A f \in Profile: OfProvider(f, p) => ~Bound(f)
    BY <1>4 DEF DeleteProvider
  <2> HIDE DEF p
  <2>4. provider' \in [Provider -> ProviderRow] /\ profile' \in [Profile -> ProfileRow]
    BY <2>1, <2>2, EmptyRowsTyped DEF RoleInv, TypeOK
  <2>5. ProvidersAreWhole'
    BY <2>1 DEF RoleInv, TypeOK, ProvidersAreWhole, NoProvider
  <2>6. ProfilesHaveProvider'
    BY <2>1, <2>2 DEF RoleInv, TypeOK, ProfilesHaveProvider, OfProvider, NoProfile
  <2>7. BindingsHaveProfile'
    BY <2>2, <2>3 DEF RoleInv, TypeOK, BindingsHaveProfile, Bound
  <2>8. QED
    BY <1>4, <2>3, <2>4, <2>5, <2>6, <2>7, RowsKeepRoles DEF DeleteProvider, RoleInv, TypeOK
<1>5. QED
  BY <1>1, <1>2, <1>3, <1>4

\* A profile row that is written over: it stays typed, stays if it was there, and the
\* provider it names is there.
LEMMA ProfileWriteKeepsRoles ==
  ASSUME RoleInv, NEW t \in Request, Finish(t), UNCHANGED <<provider, binding>>,
         NEW f \in Profile, NEW new \in ProfileRow,
         profile' = [profile EXCEPT ![f] = new],
         profile[f].exists => new.exists,
         new.exists => /\ new.provider \in Provider
                       /\ provider[new.provider].exists
                       /\ new.request \in Setting
  PROVE  RoleInv'
<1>1. profile' \in [Profile -> ProfileRow]
  BY DEF RoleInv, TypeOK
<1>2. ProvidersAreWhole' /\ ProfilesHaveProvider' /\ BindingsHaveProfile'
  BY DEF RoleInv, TypeOK, ProvidersAreWhole, ProfilesHaveProvider, BindingsHaveProfile
<1>3. QED
  BY <1>1, <1>2, RowsKeepRoles DEF RoleInv, TypeOK

LEMMA ProfileCommitsKeepRoles ==
  ASSUME RoleInv, NEW t \in Request,
         \/ \E f \in Profile: CreateProfile(t, f)
         \/ CommitRequest(t) \/ CommitMove(t) \/ CommitProfileSwitch(t) \/ DeleteProfile(t)
  PROVE  RoleInv'
<1> USE RequestTyped
<1> DEFINE g == req[t].target
<1>1. ASSUME NEW f \in Profile, CreateProfile(t, f) PROVE RoleInv'
  <2> DEFINE new == [NoProfile EXCEPT !.exists = TRUE, !.enabled = TRUE, !.provider = g,
                                      !.request = req[t].to]
  <2>1. g \in Provider /\ provider[g].exists /\ req[t].to \in Setting
    BY <1>1 DEF CreateProfile, Meant
  <2>2. new \in ProfileRow /\ new.exists /\ new.provider = g /\ new.request \in Setting
    BY <2>1, EmptyRowsTyped DEF ProfileRow, NoProfile
  <2>3. profile' = [profile EXCEPT ![f] = new] /\ Finish(t) /\ UNCHANGED <<provider, binding>>
    BY <1>1 DEF CreateProfile
  <2> HIDE DEF new, g
  <2>4. QED
    BY <2>1, <2>2, <2>3, ProfileWriteKeepsRoles
<1>2. CASE CommitRequest(t)
  <2> DEFINE reset == ResetResults(profile[g], req[t].row)
             value == Changed(req[t].row.request, reset.request, req[t].to)
             new == [reset EXCEPT !.request = value]
  <2>1. g \in Profile /\ profile[g].exists /\ req[t].to \in Setting
    BY <1>2 DEF CommitRequest, Meant
  <2>2. profile[g] \in ProfileRow /\ profile[g].provider \in Provider
        /\ provider[profile[g].provider].exists /\ profile[g].request \in Setting
    BY <2>1 DEF RoleInv, TypeOK, ProfilesHaveProvider
  <2>3. reset \in ProfileRow /\ reset.exists /\ reset.provider = profile[g].provider
        /\ reset.request = profile[g].request
    BY <2>1, <2>2, ResetTyped
  <2>4. value \in Setting
    BY <2>1, <2>2, <2>3 DEF Changed
  <2>5. profile' = [profile EXCEPT ![g] = new] /\ Finish(t) /\ UNCHANGED <<provider, binding>>
    BY <1>2 DEF CommitRequest
  <2> HIDE DEF reset, value, g
  <2>6. new \in ProfileRow /\ new.exists /\ new.provider = reset.provider
        /\ new.request = value
    BY <2>3, <2>4 DEF ProfileRow
  <2> HIDE DEF new
  <2>7. QED
    BY <2>1, <2>2, <2>3, <2>4, <2>5, <2>6, ProfileWriteKeepsRoles
<1>3. CASE CommitMove(t)
  <2> DEFINE reset == ResetResults(profile[g], req[t].row)
             value == Changed(req[t].row.provider, reset.provider, req[t].to)
             new == [reset EXCEPT !.provider = value]
  <2>1. g \in Profile /\ profile[g].exists /\ req[t].to \in Provider
        /\ provider[req[t].to].exists
    BY <1>3 DEF CommitMove, Meant
  <2>2. profile[g] \in ProfileRow /\ profile[g].provider \in Provider
        /\ provider[profile[g].provider].exists /\ profile[g].request \in Setting
    BY <2>1 DEF RoleInv, TypeOK, ProfilesHaveProvider
  <2>3. reset \in ProfileRow /\ reset.exists /\ reset.provider = profile[g].provider
        /\ reset.request = profile[g].request
    BY <2>1, <2>2, ResetTyped
  <2>4. value \in Provider /\ provider[value].exists
    BY <2>1, <2>2, <2>3 DEF Changed
  <2>5. profile' = [profile EXCEPT ![g] = new] /\ Finish(t) /\ UNCHANGED <<provider, binding>>
    BY <1>3 DEF CommitMove
  <2> HIDE DEF reset, value, g
  <2>6. new \in ProfileRow /\ new.exists /\ new.provider = value
        /\ new.request = reset.request
    BY <2>3, <2>4 DEF ProfileRow
  <2> HIDE DEF new
  <2>7. QED
    BY <2>1, <2>2, <2>3, <2>4, <2>5, <2>6, ProfileWriteKeepsRoles
<1>4. CASE CommitProfileSwitch(t)
  <2> DEFINE on == req[t].op = "profile_on"
             new == [profile[g] EXCEPT !.enabled = on]
  <2>1. g \in Profile /\ profile[g].exists
    BY <1>4 DEF CommitProfileSwitch, Meant
  <2>2. profile[g] \in ProfileRow /\ profile[g].provider \in Provider
        /\ provider[profile[g].provider].exists /\ profile[g].request \in Setting
    BY <2>1 DEF RoleInv, TypeOK, ProfilesHaveProvider
  <2>3. profile' = [profile EXCEPT ![g] = new] /\ Finish(t) /\ UNCHANGED <<provider, binding>>
    BY <1>4, <2>1 DEF CommitProfileSwitch, RoleInv, TypeOK
  <2>4. on \in BOOLEAN
    OBVIOUS
  <2> HIDE DEF on, g
  <2>5. new \in ProfileRow /\ new.exists = profile[g].exists
        /\ new.provider = profile[g].provider /\ new.request = profile[g].request
    BY <2>2, <2>4 DEF ProfileRow
  <2> HIDE DEF new
  <2>6. QED
    BY <2>1, <2>2, <2>3, <2>5, ProfileWriteKeepsRoles
<1>5. CASE DeleteProfile(t)
  <2>1. /\ profile' = [profile EXCEPT ![g] = NoProfile]
        /\ ~Bound(g) /\ UNCHANGED <<provider, binding>>
    BY <1>5 DEF DeleteProfile
  <2> HIDE DEF g
  <2>2. profile' \in [Profile -> ProfileRow]
    BY <2>1, EmptyRowsTyped DEF RoleInv, TypeOK
  <2>3. ProfilesHaveProvider'
    BY <2>1 DEF RoleInv, TypeOK, ProfilesHaveProvider, NoProfile
  <2>4. BindingsHaveProfile'
    BY <2>1 DEF RoleInv, TypeOK, BindingsHaveProfile, Bound
  <2>5. QED
    BY <1>5, <2>1, <2>2, <2>3, <2>4, RowsKeepRoles
       DEF DeleteProfile, RoleInv, TypeOK, ProvidersAreWhole
<1>6. QED
  BY <1>1, <1>2, <1>3, <1>4, <1>5

\* A test writes what it measured with the rows it read.
LEMMA CommitTestKeepsRoles ==
  ASSUME RoleInv, NEW t \in Request, NEW text \in BOOLEAN, NEW json \in BOOLEAN,
         NEW vision \in BOOLEAN, CommitTest(t, text, json, vision)
  PROVE  RoleInv'
<1> DEFINE g == req[t].target
           row == req[t].row
           status == Verdict(text, json, vision)
           a == WriteColumn(row.text, profile[g].text, Result(t, text, text))
           b == WriteColumn(row.vision, profile[g].vision, Result(t, vision, vision))
           c == WriteColumn(row.status, profile[g].status, Result(t, status, status # "failed"))
           new == [profile[g] EXCEPT !.text = a, !.vision = b, !.status = c]
<1>1. /\ g \in Profile /\ profile[g].exists
      /\ row.provider \in Provider /\ row.request \in Setting /\ req[t].endpoint \in Setting
  BY RequestTyped DEF CommitTest, Meant
<1>2. profile[g] \in ProfileRow /\ profile[g].provider \in Provider
      /\ provider[profile[g].provider].exists /\ profile[g].request \in Setting
  BY <1>1 DEF RoleInv, TypeOK, ProfilesHaveProvider
<1>3. status \in {"untested", "passed", "partial", "failed"}
  BY DEF Verdict
<1>4. \A value, shown : Result(t, value, shown) = [value |-> value, basis |->
         Result(t, value, shown).basis] /\ Result(t, value, shown).basis \in Basis \union {None}
  BY <1>1 DEF Result, Basis
<1>5. a \in Flag /\ b \in Flag /\ c \in Status
  <2>1. Result(t, text, text) \in Flag /\ Result(t, vision, vision) \in Flag
        /\ Result(t, status, status # "failed") \in Status
    BY <1>3, <1>4 DEF Flag, Status, Measured
  <2>2. profile[g].text \in Flag /\ profile[g].vision \in Flag /\ profile[g].status \in Status
    BY <1>2 DEF ProfileRow
  <2> HIDE DEF status
  <2>3. QED
    BY <2>1, <2>2 DEF WriteColumn
<1>6. profile' = [profile EXCEPT ![g] = new] /\ Finish(t) /\ UNCHANGED <<provider, binding>>
  BY <1>1 DEF CommitTest, RoleInv, TypeOK
<1> HIDE DEF a, b, c, g
<1>7. new \in ProfileRow /\ new.exists = profile[g].exists
      /\ new.provider = profile[g].provider /\ new.request = profile[g].request
  BY <1>2, <1>5 DEF ProfileRow
<1> HIDE DEF new
<1>8. QED
  BY <1>1, <1>2, <1>6, <1>7, ProfileWriteKeepsRoles

LEMMA BindingsKeepRoles ==
  ASSUME RoleInv, NEW t \in Request, Bind(t) \/ \E r \in Role: Unbind(t, r)
  PROVE  RoleInv'
<1>1. CASE Bind(t)
  <2> DEFINE r == req[t].role
             g == req[t].target
             new == Changed(req[t].to, binding[r], g)
  <2>1. r \in Role /\ g \in Profile /\ profile[g].exists
    BY <1>1, RequestTyped DEF Bind, Meant
  <2>2. new \in Profile \union {None} /\ (new # None => profile[new].exists)
    BY <2>1 DEF Changed, RoleInv, TypeOK, BindingsHaveProfile
  <2>3. binding' = [binding EXCEPT ![r] = new] /\ Finish(t) /\ UNCHANGED <<provider, profile>>
    BY <1>1 DEF Bind
  <2> HIDE DEF r, new
  <2>4. binding' \in [Role -> Profile \union {None}] /\ BindingsHaveProfile'
    BY <2>1, <2>2, <2>3 DEF RoleInv, TypeOK, BindingsHaveProfile
  <2>5. QED
    BY <2>3, <2>4, RowsKeepRoles
       DEF RoleInv, TypeOK, ProvidersAreWhole, ProfilesHaveProvider
<1>2. ASSUME NEW r \in Role, Unbind(t, r) PROVE RoleInv'
  <2>1. binding' = [binding EXCEPT ![r] = None] /\ UNCHANGED <<provider, profile, req>>
    BY <1>2 DEF Unbind
  <2>2. binding' \in [Role -> Profile \union {None}] /\ BindingsHaveProfile'
    BY <2>1 DEF RoleInv, TypeOK, BindingsHaveProfile
  <2>3. QED
    BY <2>1, <2>2, RowsKeepRoles
       DEF RoleInv, TypeOK, ProvidersAreWhole, ProfilesHaveProvider
<1>3. QED
  BY <1>1, <1>2

LEMMA StepKeepsRoles == RoleInv /\ [Next]_vars => RoleInv'
<1> SUFFICES ASSUME RoleInv, [Next]_vars PROVE RoleInv'
  OBVIOUS
<1>1. ASSUME NEW t \in Request, ProviderRequest(t) PROVE RoleInv'
  BY <1>1, ReadsKeepRoles, ProviderCommitsKeepRoles DEF ProviderRequest
<1>2. ASSUME NEW t \in Request, ProfileRequest(t) PROVE RoleInv'
  BY <1>2, ReadsKeepRoles, ProfileCommitsKeepRoles DEF ProfileRequest
<1>3. ASSUME NEW t \in Request, TestRequest(t) PROVE RoleInv'
  BY <1>3, ReadsKeepRoles, CommitTestKeepsRoles DEF TestRequest
<1>4. ASSUME NEW t \in Request, RoleRequest(t) PROVE RoleInv'
  BY <1>4, ReadsKeepRoles, BindingsKeepRoles DEF RoleRequest
<1>5. ASSUME NEW t \in Request, Refuse(t) PROVE RoleInv'
  <2>1. Finish(t) /\ UNCHANGED <<provider, profile, binding>>
    BY <1>5 DEF Refuse
  <2>2. QED
    BY <2>1, RowsKeepRoles
       DEF RoleInv, TypeOK, ProvidersAreWhole, ProfilesHaveProvider, BindingsHaveProfile
<1>6. CASE UNCHANGED vars
  BY <1>6 DEF vars, RoleInv, TypeOK, ProvidersAreWhole, ProfilesHaveProvider,
              BindingsHaveProfile, RequestsAreMeant
<1>7. QED
  BY <1>1, <1>2, <1>3, <1>4, <1>5, <1>6 DEF Next

-----------------------------------------------------------------------------
LEMMA RolesInvariant == Spec => []RoleInv
  BY InitRoles, StepKeepsRoles, PTL DEF Spec

\* The tables and the requests under way keep their types: a commit writes only columns
\* of the values its session has read or was given.
THEOREM ModelRolesTypesHold == Spec => []TypeOK
<1>1. RoleInv => TypeOK
  BY DEF RoleInv
<1>2. QED
  BY <1>1, RolesInvariant, PTL

\* However binds, moves, deletes and creations overlap, a bound role finds its profile and
\* the profile its provider (registry.py:66-68): the counts of delete_provider and
\* delete_profile may be out of date, the foreign keys are not.
THEOREM RolesReachTheirProviderHolds == Spec => []RolesReachTheirProvider
<1>1. RoleInv => RolesReachTheirProvider
  BY DEF RoleInv, TypeOK, RolesReachTheirProvider, ProfilesHaveProvider, BindingsHaveProfile
<1>2. QED
  BY <1>1, RolesInvariant, PTL

-----------------------------------------------------------------------------
(* What holds of roles when connection tests run on their own (Apart): the *)
(* results of a test are of the settings a role resolves to, whatever else *)
(* overlaps.  It rests on who is under way: a test is alone until it is    *)
(* through (Solo), so what it read is what it commits against.             *)

\* The assumption.  Without it a settings change slips between the start of a test and
\* its commit.
Apart == "test" \in Exclusive

Solo == \A t, u \in Request: req[t].op \in Exclusive /\ t # u => req[u].op = "idle"

\* The rows a test has read are the rows there are.
TestIsCurrent == \A t \in Request: req[t].op = "test" =>
  /\ profile[req[t].target] = req[t].row
  /\ provider[req[t].row.provider].endpoint = req[t].endpoint

\* A result that was not there when an edit read its row is not there when it commits,
\* although a flush leaves that column alone.
Good(status) == status.value \in {"passed", "partial"}
EditsHaveSeen == \A t \in Request: req[t].op \in {"profile_settings", "profile_provider"} =>
  LET row == profile[req[t].target]
      seen == req[t].row IN
  /\ row.text.value => seen.text.value
  /\ row.vision.value => seen.vision.value
  /\ Good(row.status) => seen.status.value # "untested"

Now(f) == [provider |-> profile[f].provider, endpoint |-> provider[profile[f].provider].endpoint,
           request |-> profile[f].request]
ResultsAreCurrent == \A f \in Profile:
  /\ profile[f].text.value => profile[f].exists /\ profile[f].text.basis = Now(f)
  /\ profile[f].vision.value => profile[f].exists /\ profile[f].vision.basis = Now(f)
  /\ Good(profile[f].status) => profile[f].exists /\ profile[f].status.basis = Now(f)

TestedInv == Solo /\ TestIsCurrent /\ EditsHaveSeen /\ ResultsAreCurrent

-----------------------------------------------------------------------------
(* How a step relates to the requests under way.                           *)

LEMMA NoIdleExclusive == "idle" \notin Exclusive
  BY ModelRolesConstants DEF Operation, Edit

Starting(t) ==
  \E op \in Operation, target \in Nat \union {None}, new \in Pending: Begin(t, op, target, new)

Reads(t) ==
  \/ \E p \in Provider, s \in Setting: ReadForSettings(t, p, s)
  \/ \E p \in Provider: ReadForSwitch(t, p) \/ CountProfiles(t, p)
  \/ \E p \in Provider, s \in Setting: RequireProvider(t, p, s)
  \/ \E f \in Profile: ReadForProfileSwitch(t, f) \/ CountBindings(t, f)
  \/ \E f \in Profile, s \in Setting: ReadForRequest(t, f, s)
  \/ \E f \in Profile, p \in Provider: ReadForMove(t, f, p)
  \/ \E f \in Profile: ReadForTest(t, f)
  \/ \E r \in Role, f \in Profile: ReadForBind(t, r, f)

AtOnce(t) ==
  \/ \E p \in Provider, s \in Setting: CreateProvider(t, p, s)
  \/ \E r \in Role: Unbind(t, r)

Commits(t) ==
  \/ CommitSettings(t) \/ CommitSwitch(t) \/ DeleteProvider(t)
  \/ \E f \in Profile: CreateProfile(t, f)
  \/ CommitRequest(t) \/ CommitMove(t) \/ CommitProfileSwitch(t) \/ DeleteProfile(t)
  \/ \E text, json, vision \in BOOLEAN: CommitTest(t, text, json, vision)
  \/ Bind(t)
  \/ Refuse(t)

LEMMA StepKinds ==
  ASSUME [Next]_vars
  PROVE  \/ \E t \in Request: Reads(t) \/ AtOnce(t) \/ Commits(t)
         \/ UNCHANGED vars
<1>1. ASSUME NEW t \in Request, ProviderRequest(t) PROVE Reads(t) \/ AtOnce(t) \/ Commits(t)
  BY <1>1 DEF ProviderRequest, Reads, AtOnce, Commits
<1>2. ASSUME NEW t \in Request, ProfileRequest(t) PROVE Reads(t) \/ AtOnce(t) \/ Commits(t)
  BY <1>2 DEF ProfileRequest, Reads, AtOnce, Commits
<1>3. ASSUME NEW t \in Request, TestRequest(t) PROVE Reads(t) \/ AtOnce(t) \/ Commits(t)
  BY <1>3 DEF TestRequest, Reads, AtOnce, Commits
<1>4. ASSUME NEW t \in Request, RoleRequest(t) PROVE Reads(t) \/ AtOnce(t) \/ Commits(t)
  BY <1>4 DEF RoleRequest, Reads, AtOnce, Commits
<1>5. ASSUME NEW t \in Request, Refuse(t) PROVE Commits(t)
  BY <1>5 DEF Commits
<1>6. QED
  BY <1>1, <1>2, <1>3, <1>4, <1>5 DEF Next

\* A request that starts finds no exclusive one, and is alone if it is exclusive.
LEMMA StartsAlone ==
  ASSUME NEW t \in Request, NEW op, MayStart(t, op)
  PROVE  /\ req[t].op = "idle"
         /\ \A u \in Request: req[u].op # "idle" => req[u].op \notin Exclusive
         /\ op \in Exclusive => \A u \in Request: req[u].op = "idle"
  BY DEF MayStart, Idle

\* Whoever commits is not alone with an exclusive request of another.
LEMMA CommitsUndisturbed ==
  ASSUME Solo, NEW t \in Request, Commits(t)
  PROVE  /\ Finish(t)
         /\ req[t].op # "idle"
         /\ \A u \in Request: u # t => req[u].op \notin Exclusive
<1>1. Finish(t) /\ req[t].op # "idle"
  BY DEF Commits, CommitSettings, CommitSwitch, DeleteProvider, CreateProfile, CommitRequest,
         CommitMove, CommitProfileSwitch, DeleteProfile, CommitTest, Bind, Refuse
<1>2. QED
  BY <1>1 DEF Solo

LEMMA ReadsStart ==
  ASSUME NEW t \in Request, Reads(t)
  PROVE  /\ UNCHANGED <<provider, profile, binding>>
         /\ \E op, target, new: Begin(t, op, target, new)
<1>1. \E op, target, new: Begin(t, op, target, new)
  BY DEF Reads, ReadForSettings, ReadForSwitch, CountProfiles, RequireProvider,
         ReadForProfileSwitch, CountBindings, ReadForRequest, ReadForMove, ReadForTest,
         ReadForBind
<1>2. QED
  BY <1>1 DEF Begin

LEMMA AtOnceStarts ==
  ASSUME NEW t \in Request, AtOnce(t)
  PROVE  UNCHANGED <<req, profile>> /\ \E op: MayStart(t, op)
  BY DEF AtOnce, CreateProvider, Unbind

LEMMA SoloKept ==
  ASSUME RoleInv, Solo, [Next]_vars
  PROVE  Solo'
<1>1. ASSUME NEW t \in Request, Reads(t) PROVE Solo'
  <2>1. PICK op, target, new: Begin(t, op, target, new)
    BY <1>1, ReadsStart
  <2>2. MayStart(t, op) /\ req' = [req EXCEPT ![t] = [new EXCEPT !.op = op, !.target = target]]
    BY <2>1 DEF Begin
  <2>3. \A u \in Request: u # t => req'[u] = req[u]
    BY <2>2 DEF RoleInv, TypeOK
  <2>4. \A u \in Request: req[u].op # "idle" => req[u].op \notin Exclusive
    BY <2>2, StartsAlone
  <2>5. req'[t].op \in Exclusive => \A u \in Request: u # t => req[u].op = "idle"
    <3>1. req'[t] = [new EXCEPT !.op = op, !.target = target]
      BY <2>2 DEF RoleInv, TypeOK
    <3>2. req'[t] \in Pending
      BY <1>1, ReadsKeepRoles DEF Reads, RoleInv, TypeOK
    <3>3. req'[t].op = op
      BY <3>1, <3>2 DEF Pending
    <3>4. QED
      BY <2>2, <3>3, StartsAlone
  <2>6. QED
    BY <2>3, <2>4, <2>5, NoIdleExclusive DEF Solo
<1>2. ASSUME NEW t \in Request, AtOnce(t) PROVE Solo'
  BY <1>2, AtOnceStarts DEF Solo
<1>3. ASSUME NEW t \in Request, Commits(t) PROVE Solo'
  <2>1. req' = [req EXCEPT ![t] = Idle] /\ Idle.op = "idle"
    BY <1>3, CommitsUndisturbed DEF Finish, Idle
  <2>2. \A u \in Request: req'[u].op = req[u].op \/ req'[u].op = "idle"
    BY <2>1 DEF RoleInv, TypeOK
  <2>3. QED
    BY <2>2, NoIdleExclusive DEF Solo
<1>4. CASE UNCHANGED vars
  BY <1>4 DEF vars, Solo
<1>5. QED
  BY <1>1, <1>2, <1>3, <1>4, StepKinds

-----------------------------------------------------------------------------
(* Reading                                                                 *)

\* What a request that starts knows of the rows.
LEMMA ReadsKnow ==
  ASSUME RoleInv, NEW t \in Request, Reads(t)
  PROVE  /\ req'[t].op = "test" =>
              /\ profile[req'[t].target] = req'[t].row
              /\ provider[req'[t].row.provider].endpoint = req'[t].endpoint
         /\ req'[t].op \in {"profile_settings", "profile_provider"} =>
              profile[req'[t].target] = req'[t].row
<1>1. ASSUME NEW p \in Provider, NEW s \in Setting, ReadForSettings(t, p, s)
      PROVE  req'[t].op = "provider_settings"
  BY <1>1 DEF ReadForSettings, Begin, Idle, RoleInv, TypeOK
<1>2. ASSUME NEW p \in Provider, ReadForSwitch(t, p)
      PROVE  req'[t].op \in {"provider_on", "provider_off"}
  BY <1>2 DEF ReadForSwitch, Begin, Idle, RoleInv, TypeOK
<1>3. ASSUME NEW p \in Provider, CountProfiles(t, p)
      PROVE  req'[t].op = "delete_provider"
  BY <1>3 DEF CountProfiles, Begin, Idle, RoleInv, TypeOK
<1>4. ASSUME NEW p \in Provider, NEW s \in Setting, RequireProvider(t, p, s)
      PROVE  req'[t].op = "create_profile"
  BY <1>4 DEF RequireProvider, Begin, Idle, RoleInv, TypeOK
<1>5. ASSUME NEW f \in Profile, ReadForProfileSwitch(t, f)
      PROVE  req'[t].op \in {"profile_on", "profile_off"}
  BY <1>5 DEF ReadForProfileSwitch, Begin, Idle, RoleInv, TypeOK
<1>6. ASSUME NEW f \in Profile, CountBindings(t, f) PROVE req'[t].op = "delete_profile"
  BY <1>6 DEF CountBindings, Begin, Idle, RoleInv, TypeOK
<1>7. ASSUME NEW f \in Profile, NEW s \in Setting, ReadForRequest(t, f, s)
      PROVE  req'[t].op = "profile_settings" /\ profile[req'[t].target] = req'[t].row
  BY <1>7 DEF ReadForRequest, Begin, Idle, RoleInv, TypeOK
<1>8. ASSUME NEW f \in Profile, NEW p \in Provider, ReadForMove(t, f, p)
      PROVE  req'[t].op = "profile_provider" /\ profile[req'[t].target] = req'[t].row
  BY <1>8 DEF ReadForMove, Begin, Idle, RoleInv, TypeOK
<1>9. ASSUME NEW f \in Profile, ReadForTest(t, f)
      PROVE  /\ req'[t].op = "test"
             /\ profile[req'[t].target] = req'[t].row
             /\ provider[req'[t].row.provider].endpoint = req'[t].endpoint
  BY <1>9 DEF ReadForTest, Begin, Idle, RoleInv, TypeOK
<1>10. ASSUME NEW r \in Role, NEW f \in Profile, ReadForBind(t, r, f)
       PROVE  req'[t].op = "bind"
  BY <1>10 DEF ReadForBind, Begin, Idle, RoleInv, TypeOK
<1>11. QED
  BY <1>1, <1>2, <1>3, <1>4, <1>5, <1>6, <1>7, <1>8, <1>9, <1>10 DEF Reads

LEMMA ReadsKeepTested ==
  ASSUME RoleInv, TestedInv, NEW t \in Request, Reads(t)
  PROVE  TestIsCurrent' /\ EditsHaveSeen' /\ ResultsAreCurrent'
<1>1. UNCHANGED <<provider, profile, binding>>
  BY ReadsStart
<1>2. \A u \in Request: u # t => req'[u] = req[u]
  <2>1. PICK op, target, new: Begin(t, op, target, new)
    BY ReadsStart
  <2>2. QED
    BY <2>1 DEF Begin, RoleInv, TypeOK
<1>3. TestIsCurrent'
  BY <1>1, <1>2, ReadsKnow DEF TestedInv, TestIsCurrent
<1>4. EditsHaveSeen'
  <2>1. ASSUME NEW u \in Request, u # t PROVE EditsHaveSeen!(u)'
    BY <1>1, <1>2, <2>1 DEF TestedInv, EditsHaveSeen, Good
  <2>2. EditsHaveSeen!(t)'
    <3>1. ASSUME NEW row, Good(row.status) PROVE row.status.value # "untested"
      BY <3>1 DEF Good
    <3>2. QED
      BY <1>1, <3>1, ReadsKnow
  <2>3. QED
    BY <2>1, <2>2 DEF EditsHaveSeen
<1>5. ResultsAreCurrent'
  BY <1>1 DEF TestedInv, ResultsAreCurrent, Now, Good
<1>6. QED
  BY <1>3, <1>4, <1>5

-----------------------------------------------------------------------------
(* Committing                                                              *)

LEMMA AtOnceKeepsTested ==
  ASSUME Apart, RoleInv, TestedInv, NEW t \in Request, AtOnce(t)
  PROVE  TestIsCurrent' /\ EditsHaveSeen' /\ ResultsAreCurrent'
<1>1. UNCHANGED <<req, profile>>
  BY AtOnceStarts
<1>2. \A u \in Request: req[u].op # "test"
  BY AtOnceStarts, StartsAlone DEF Apart
<1>3. TestIsCurrent'
  BY <1>1, <1>2 DEF TestIsCurrent
<1>4. EditsHaveSeen'
  BY <1>1 DEF TestedInv, EditsHaveSeen, Good
<1>5. \A p \in Provider: provider[p].exists => provider'[p].endpoint = provider[p].endpoint
  BY DEF AtOnce, CreateProvider, Unbind, Fresh, RoleInv, TypeOK
<1>6. \A f \in Profile: profile[f].exists => Now(f)' = Now(f)
  BY <1>1, <1>5 DEF Now, RoleInv, ProfilesHaveProvider
<1>7. ResultsAreCurrent'
  BY <1>1, <1>6 DEF TestedInv, ResultsAreCurrent, Good
<1>8. QED
  BY <1>3, <1>4, <1>7

\* Whoever is exclusive is through; the others wait for none.
LEMMA CommitsLeaveAlone ==
  ASSUME Apart, RoleInv, TestedInv, NEW t \in Request, Commits(t)
  PROVE  /\ TestIsCurrent'
         /\ \A u \in Request: req'[u] = req[u] \/ req'[u].op = "idle"
<1>1. \A u \in Request: IF u = t THEN req'[u] = Idle
                                 ELSE req'[u] = req[u] /\ req[u].op \notin Exclusive
  BY CommitsUndisturbed DEF TestedInv, Finish, RoleInv, TypeOK
<1>2. \A u \in Request: req'[u].op # "test"
  BY <1>1 DEF Apart, Idle
<1>3. QED
  BY <1>1, <1>2 DEF TestIsCurrent, Idle

\* No result appears.
Fading ==
  /\ \A u \in Request: req'[u] = req[u] \/ req'[u].op = "idle"
  /\ \A f \in Profile: /\ profile'[f].text.value => profile[f].text.value
                       /\ profile'[f].vision.value => profile[f].vision.value
                       /\ Good(profile'[f].status) => Good(profile[f].status)

LEMMA FadingKeepsEdits ==
  ASSUME RoleInv, EditsHaveSeen, Fading
  PROVE  EditsHaveSeen'
<1> SUFFICES ASSUME NEW u \in Request,
                    req'[u].op \in {"profile_settings", "profile_provider"}
             PROVE  LET row == profile'[req'[u].target]
                        seen == req'[u].row IN
                    /\ row.text.value => seen.text.value
                    /\ row.vision.value => seen.vision.value
                    /\ Good(row.status) => seen.status.value # "untested"
  BY DEF EditsHaveSeen, Good
<1>1. req'[u] = req[u]
  BY DEF Fading
<1>2. req[u].target \in Profile
  BY <1>1, RequestTyped DEF Meant
<1>3. QED
  BY <1>1, <1>2 DEF Fading, EditsHaveSeen

\* The columns of a result: without one, or as they are where the reader saw none.
LEMMA ResetFades ==
  ASSUME NEW row \in ProfileRow, NEW seen \in ProfileRow,
         row.text.value => seen.text.value, row.vision.value => seen.vision.value,
         Good(row.status) => seen.status.value # "untested"
  PROVE  /\ ~ResetResults(row, seen).text.value
         /\ ~ResetResults(row, seen).vision.value
         /\ ~Good(ResetResults(row, seen).status)
<1>1. /\ row.text.value \in BOOLEAN /\ seen.text.value \in BOOLEAN
      /\ row.vision.value \in BOOLEAN /\ seen.vision.value \in BOOLEAN
  BY DEF ProfileRow, Flag, Measured
<1>2. /\ ResetResults(row, seen).text = Reset(seen.text, row.text, FALSE)
      /\ ResetResults(row, seen).vision = Reset(seen.vision, row.vision, FALSE)
      /\ ResetResults(row, seen).status = Reset(seen.status, row.status, "untested")
  BY DEF ResetResults, ProfileRow
<1>3. ~Reset(seen.text, row.text, FALSE).value
  BY <1>1 DEF Reset, Untested
<1>4. ~Reset(seen.vision, row.vision, FALSE).value
  BY <1>1 DEF Reset, Untested
<1>5. ~Good(Reset(seen.status, row.status, "untested"))
  BY DEF Reset, Untested, Good
<1>6. QED
  BY <1>2, <1>3, <1>4, <1>5

\* One row is written: without results, or but for its switch as it was.
LEMMA RowWrittenTested ==
  ASSUME RoleInv, ResultsAreCurrent, NEW g \in Profile, NEW new,
         profile' = [profile EXCEPT ![g] = new], UNCHANGED provider,
         \/ ~new.text.value /\ ~new.vision.value /\ ~Good(new.status)
         \/ /\ new.exists = profile[g].exists /\ new.provider = profile[g].provider
            /\ new.request = profile[g].request
            /\ new.text = profile[g].text /\ new.vision = profile[g].vision
            /\ new.status = profile[g].status,
         \A u \in Request: req'[u] = req[u] \/ req'[u].op = "idle"
  PROVE  Fading /\ ResultsAreCurrent'
<1>1. profile'[g] = new /\ \A f \in Profile: f # g => profile'[f] = profile[f]
  BY DEF RoleInv, TypeOK
<1>2. \A f \in Profile: f # g => Now(f)' = Now(f)
  BY <1>1 DEF Now
<1>3. \A f \in Profile: f # g =>
        /\ profile'[f].text.value => profile'[f].exists /\ profile'[f].text.basis = Now(f)'
        /\ profile'[f].vision.value => profile'[f].exists /\ profile'[f].vision.basis = Now(f)'
        /\ Good(profile'[f].status) => profile'[f].exists /\ profile'[f].status.basis = Now(f)'
  BY <1>1, <1>2 DEF ResultsAreCurrent
<1>4. CASE ~new.text.value /\ ~new.vision.value /\ ~Good(new.status)
  BY <1>1, <1>3, <1>4 DEF Fading, ResultsAreCurrent, Good
<1>5. CASE /\ new.exists = profile[g].exists /\ new.provider = profile[g].provider
           /\ new.request = profile[g].request
           /\ new.text = profile[g].text /\ new.vision = profile[g].vision
           /\ new.status = profile[g].status
  <2>1. Now(g)' = Now(g)
    BY <1>1, <1>5 DEF Now
  <2>2. /\ profile'[g].text.value => profile'[g].exists /\ profile'[g].text.basis = Now(g)'
        /\ profile'[g].vision.value => profile'[g].exists /\ profile'[g].vision.basis = Now(g)'
        /\ Good(profile'[g].status) => profile'[g].exists /\ profile'[g].status.basis = Now(g)'
    BY <1>1, <1>5, <2>1 DEF ResultsAreCurrent
  <2>3. ResultsAreCurrent'
    BY <1>3, <2>2 DEF ResultsAreCurrent, Good
  <2>4. QED
    BY <1>1, <1>5, <2>3 DEF Fading
<1>6. QED
  BY <1>4, <1>5

LEMMA NoProfileUntested ==
  ~NoProfile.text.value /\ ~NoProfile.vision.value /\ ~Good(NoProfile.status)
  BY DEF NoProfile, Untested, Good

LEMMA ProviderCommitsTested ==
  ASSUME Apart, RoleInv, TestedInv, NEW t \in Request,
         CommitSettings(t) \/ CommitSwitch(t) \/ DeleteProvider(t)
  PROVE  Fading /\ ResultsAreCurrent'
<1> DEFINE p == req[t].target
<1>1. \A u \in Request: req'[u] = req[u] \/ req'[u].op = "idle"
  BY CommitsLeaveAlone DEF Commits
<1>2. CASE CommitSettings(t)
  <2>1. \A f \in Profile: profile'[f] = IF OfProvider(f, p)
                                        THEN ResetResults(profile[f], profile[f]) ELSE profile[f]
    BY <1>2 DEF CommitSettings
  <2>2. \A q \in Provider: q # p => provider'[q].endpoint = provider[q].endpoint
    BY <1>2 DEF CommitSettings, RoleInv, TypeOK
  <2> HIDE DEF p
  <2>3. \A f \in Profile: OfProvider(f, p) =>
          ~profile'[f].text.value /\ ~profile'[f].vision.value /\ ~Good(profile'[f].status)
    <3>1. \A row \in ProfileRow: Good(row.status) => row.status.value # "untested"
      BY DEF Good
    <3>2. QED
      BY <2>1, <3>1, ResetFades DEF RoleInv, TypeOK
  <2>4. \A f \in Profile: ~OfProvider(f, p) /\ profile[f].exists => Now(f)' = Now(f)
    BY <2>1, <2>2 DEF Now, OfProvider, RoleInv, ProfilesHaveProvider
  <2>5. QED
    BY <1>1, <2>1, <2>3, <2>4 DEF Fading, ResultsAreCurrent, TestedInv, Good
<1>3. CASE CommitSwitch(t)
  <2>1. UNCHANGED profile /\ \A q \in Provider: provider'[q].endpoint = provider[q].endpoint
    BY <1>3 DEF CommitSwitch, RoleInv, TypeOK
  <2>2. \A f \in Profile: profile[f].exists => Now(f)' = Now(f)
    BY <2>1 DEF Now, RoleInv, ProfilesHaveProvider
  <2>3. QED
    BY <1>1, <2>1, <2>2 DEF Fading, ResultsAreCurrent, TestedInv, Good
<1>4. CASE DeleteProvider(t)
  <2>1. \A f \in Profile: profile'[f] = IF OfProvider(f, p) THEN NoProfile ELSE profile[f]
    BY <1>4 DEF DeleteProvider
  <2>2. \A q \in Provider: q # p => provider'[q] = provider[q]
    BY <1>4 DEF DeleteProvider, RoleInv, TypeOK
  <2> HIDE DEF p
  <2>3. \A f \in Profile: ~OfProvider(f, p) /\ profile[f].exists => Now(f)' = Now(f)
    BY <2>1, <2>2 DEF Now, OfProvider, RoleInv, ProfilesHaveProvider
  <2>4. QED
    BY <1>1, <2>1, <2>3, NoProfileUntested DEF Fading, ResultsAreCurrent, TestedInv, Good
<1>5. QED
  BY <1>2, <1>3, <1>4

LEMMA ProfileCommitsTested ==
  ASSUME Apart, RoleInv, TestedInv, NEW t \in Request,
         \/ \E f \in Profile: CreateProfile(t, f)
         \/ CommitRequest(t) \/ CommitMove(t) \/ CommitProfileSwitch(t) \/ DeleteProfile(t)
         \/ Bind(t) \/ Refuse(t)
  PROVE  Fading /\ ResultsAreCurrent'
<1> DEFINE g == req[t].target
           reset == ResetResults(profile[g], req[t].row)
<1>1. \A u \in Request: req'[u] = req[u] \/ req'[u].op = "idle"
  BY CommitsLeaveAlone DEF Commits
<1>2. ResultsAreCurrent
  BY DEF TestedInv
<1>3. ASSUME NEW f \in Profile, CreateProfile(t, f) PROVE Fading /\ ResultsAreCurrent'
  <2> DEFINE new == [NoProfile EXCEPT !.exists = TRUE, !.enabled = TRUE, !.provider = g,
                                      !.request = req[t].to]
  <2>1. profile' = [profile EXCEPT ![f] = new] /\ UNCHANGED provider
    BY <1>3 DEF CreateProfile
  <2>2. ~new.text.value /\ ~new.vision.value /\ ~Good(new.status)
    BY DEF NoProfile, Untested, Good
  <2> HIDE DEF new
  <2>3. QED
    BY <1>1, <1>2, <2>1, <2>2, RowWrittenTested
<1>4. ASSUME req[t].op \in {"profile_settings", "profile_provider"}
      PROVE  /\ g \in Profile /\ reset \in ProfileRow
             /\ ~reset.text.value /\ ~reset.vision.value /\ ~Good(reset.status)
  <2>1. g \in Profile /\ profile[g] \in ProfileRow /\ req[t].row \in ProfileRow
    BY <1>4, RequestTyped DEF Meant, RoleInv, TypeOK
  <2>2. /\ profile[g].text.value => req[t].row.text.value
        /\ profile[g].vision.value => req[t].row.vision.value
        /\ Good(profile[g].status) => req[t].row.status.value # "untested"
    BY <1>4 DEF TestedInv, EditsHaveSeen
  <2> HIDE DEF g
  <2>3. QED
    BY <2>1, <2>2, ResetTyped, ResetFades
<1>5. CASE CommitRequest(t)
  <2> DEFINE new == [reset EXCEPT !.request = Changed(req[t].row.request, reset.request, req[t].to)]
  <2>1. profile' = [profile EXCEPT ![g] = new] /\ UNCHANGED provider
    BY <1>5 DEF CommitRequest
  <2>2. g \in Profile /\ reset \in ProfileRow
        /\ ~reset.text.value /\ ~reset.vision.value /\ ~Good(reset.status)
    BY <1>4, <1>5 DEF CommitRequest
  <2> HIDE DEF g, reset
  <2>3. ~new.text.value /\ ~new.vision.value /\ ~Good(new.status)
    BY <2>2 DEF ProfileRow
  <2> HIDE DEF new
  <2>4. QED
    BY <1>1, <1>2, <2>1, <2>2, <2>3, RowWrittenTested
<1>6. CASE CommitMove(t)
  <2> DEFINE new == [reset EXCEPT !.provider = Changed(req[t].row.provider, reset.provider,
                                                       req[t].to)]
  <2>1. profile' = [profile EXCEPT ![g] = new] /\ UNCHANGED provider
    BY <1>6 DEF CommitMove
  <2>2. g \in Profile /\ reset \in ProfileRow
        /\ ~reset.text.value /\ ~reset.vision.value /\ ~Good(reset.status)
    BY <1>4, <1>6 DEF CommitMove
  <2> HIDE DEF g, reset
  <2>3. ~new.text.value /\ ~new.vision.value /\ ~Good(new.status)
    BY <2>2 DEF ProfileRow
  <2> HIDE DEF new
  <2>4. QED
    BY <1>1, <1>2, <2>1, <2>2, <2>3, RowWrittenTested
<1>7. CASE CommitProfileSwitch(t)
  <2> DEFINE new == [profile[g] EXCEPT !.enabled = req[t].op = "profile_on"]
  <2>1. g \in Profile /\ profile[g] \in ProfileRow
    BY <1>7, RequestTyped DEF CommitProfileSwitch, Meant, RoleInv, TypeOK
  <2>2. profile' = [profile EXCEPT ![g] = new] /\ UNCHANGED provider
    BY <1>7, <2>1 DEF CommitProfileSwitch, RoleInv, TypeOK
  <2> HIDE DEF g
  <2>3. /\ new.exists = profile[g].exists /\ new.provider = profile[g].provider
        /\ new.request = profile[g].request
        /\ new.text = profile[g].text /\ new.vision = profile[g].vision
        /\ new.status = profile[g].status
    BY <2>1 DEF ProfileRow
  <2> HIDE DEF new
  <2>4. QED
    BY <1>1, <1>2, <2>1, <2>2, <2>3, RowWrittenTested
<1>8. CASE DeleteProfile(t)
  <2>1. g \in Profile /\ profile' = [profile EXCEPT ![g] = NoProfile] /\ UNCHANGED provider
    BY <1>8, RequestTyped DEF DeleteProfile, Meant
  <2> HIDE DEF g
  <2>2. QED
    BY <1>1, <1>2, <2>1, NoProfileUntested, RowWrittenTested
<1>9. CASE Bind(t) \/ Refuse(t)
  <2>1. UNCHANGED <<provider, profile>>
    BY <1>9 DEF Bind, Refuse
  <2>2. QED
    BY <1>1, <1>2, <2>1 DEF Fading, ResultsAreCurrent, Now, Good
<1>10. QED
  BY <1>3, <1>5, <1>6, <1>7, <1>8, <1>9

\* Nobody else is under way, and what was measured is what is there.
LEMMA CommitTestTested ==
  ASSUME Apart, RoleInv, TestedInv, NEW t \in Request, NEW text \in BOOLEAN,
         NEW json \in BOOLEAN, NEW vision \in BOOLEAN, CommitTest(t, text, json, vision)
  PROVE  EditsHaveSeen' /\ ResultsAreCurrent'
<1>1. PICK g \in Profile: g = req[t].target
  BY RequestTyped DEF CommitTest, Meant
<1> DEFINE row == req[t].row
           status == Verdict(text, json, vision)
           a == WriteColumn(row.text, profile[g].text, Result(t, text, text))
           b == WriteColumn(row.vision, profile[g].vision, Result(t, vision, vision))
           c == WriteColumn(row.status, profile[g].status, Result(t, status, status # "failed"))
           new == [profile[g] EXCEPT !.text = a, !.vision = b, !.status = c]
<1>2. /\ profile[g] \in ProfileRow /\ profile[g] = row /\ profile[g].exists
      /\ provider[row.provider].endpoint = req[t].endpoint
  BY <1>1 DEF CommitTest, TestedInv, TestIsCurrent, RoleInv, TypeOK
<1>3. EditsHaveSeen'
  <2>1. \A u \in Request: u # t => req[u].op = "idle"
    BY DEF CommitTest, Apart, TestedInv, Solo
  <2>2. \A u \in Request: req'[u].op = "idle"
    BY <2>1 DEF CommitTest, Finish, Idle, RoleInv, TypeOK
  <2>3. QED
    BY <2>2 DEF EditsHaveSeen
<1>4. \A value, shown: /\ Result(t, value, shown).value = value
                       /\ shown => Result(t, value, shown).basis = Now(g)
  BY <1>2 DEF Result, Now
<1>5. profile' = [profile EXCEPT ![g] = new] /\ UNCHANGED provider
  BY <1>1 DEF CommitTest, RoleInv, TypeOK
<1>6. a.value => a.basis = Now(g)
  <2>1. profile[g].text.value => profile[g].text.basis = Now(g)
    BY <1>1 DEF TestedInv, ResultsAreCurrent
  <2>2. CASE text
    BY <1>2, <1>4, <2>1, <2>2 DEF WriteColumn
  <2>3. CASE ~text
    BY <1>2, <1>4, <2>1, <2>3 DEF WriteColumn
  <2>4. QED
    BY <2>2, <2>3
<1>7. b.value => b.basis = Now(g)
  <2>1. profile[g].vision.value => profile[g].vision.basis = Now(g)
    BY <1>1 DEF TestedInv, ResultsAreCurrent
  <2>2. CASE vision
    BY <1>2, <1>4, <2>1, <2>2 DEF WriteColumn
  <2>3. CASE ~vision
    BY <1>2, <1>4, <2>1, <2>3 DEF WriteColumn
  <2>4. QED
    BY <2>2, <2>3
<1>8. Good(c) => c.basis = Now(g)
  <2>1. Good(profile[g].status) => profile[g].status.basis = Now(g)
    BY <1>1 DEF TestedInv, ResultsAreCurrent
  <2>2. CASE status = "failed"
    <3>1. Result(t, status, status # "failed").value = "failed"
      BY <1>4, <2>2
    <3>2. QED
      BY <1>2, <2>1, <3>1 DEF WriteColumn, Good
  <2>3. CASE status # "failed"
    <3>1. Result(t, status, status # "failed").basis = Now(g)
      BY <1>4, <2>3
    <3>2. QED
      BY <1>2, <2>1, <3>1 DEF WriteColumn
  <2>4. QED
    BY <2>2, <2>3
<1> HIDE DEF a, b, c
<1>9. /\ new.exists = profile[g].exists /\ new.provider = profile[g].provider
      /\ new.request = profile[g].request
      /\ new.text = a /\ new.vision = b /\ new.status = c
  BY <1>2 DEF ProfileRow
<1> HIDE DEF new
<1>10. profile'[g] = new /\ \A f \in Profile: f # g => profile'[f] = profile[f]
  BY <1>1, <1>5 DEF RoleInv, TypeOK
<1>11. \A f \in Profile: Now(f)' = Now(f)
  BY <1>5, <1>9, <1>10 DEF Now
<1>12. ResultsAreCurrent'
  <2>1. /\ profile'[g].text.value => profile'[g].exists /\ profile'[g].text.basis = Now(g)'
        /\ profile'[g].vision.value => profile'[g].exists /\ profile'[g].vision.basis = Now(g)'
        /\ Good(profile'[g].status) => profile'[g].exists /\ profile'[g].status.basis = Now(g)'
    BY <1>2, <1>6, <1>7, <1>8, <1>9, <1>10, <1>11
  <2>2. QED
    BY <2>1, <1>10, <1>11 DEF TestedInv, ResultsAreCurrent, Good
<1>13. QED
  BY <1>3, <1>12

LEMMA TestedStep ==
  ASSUME Apart, RoleInv, TestedInv, [Next]_vars
  PROVE  TestedInv'
<1>1. Solo'
  BY SoloKept DEF TestedInv
<1>2. ASSUME NEW t \in Request, Reads(t) PROVE TestedInv'
  BY <1>1, <1>2, ReadsKeepTested DEF TestedInv
<1>3. ASSUME NEW t \in Request, AtOnce(t) PROVE TestedInv'
  BY <1>1, <1>3, AtOnceKeepsTested DEF TestedInv
<1>4. ASSUME NEW t \in Request, Commits(t) PROVE TestedInv'
  <2>1. TestIsCurrent'
    BY <1>4, CommitsLeaveAlone
  <2>2. CASE \E text, json, vision \in BOOLEAN: CommitTest(t, text, json, vision)
    BY <1>1, <2>1, <2>2, CommitTestTested DEF TestedInv
  <2>3. CASE CommitSettings(t) \/ CommitSwitch(t) \/ DeleteProvider(t)
    BY <1>1, <2>1, <2>3, ProviderCommitsTested, FadingKeepsEdits DEF TestedInv
  <2>4. CASE \/ \E f \in Profile: CreateProfile(t, f)
             \/ CommitRequest(t) \/ CommitMove(t) \/ CommitProfileSwitch(t)
             \/ DeleteProfile(t) \/ Bind(t) \/ Refuse(t)
    BY <1>1, <2>1, <2>4, ProfileCommitsTested, FadingKeepsEdits DEF TestedInv
  <2>5. QED
    BY <1>4, <2>2, <2>3, <2>4 DEF Commits
<1>5. CASE UNCHANGED vars
  BY <1>5 DEF vars, TestedInv, Solo, TestIsCurrent, EditsHaveSeen,
              ResultsAreCurrent, Now, Good
<1>6. QED
  BY <1>2, <1>3, <1>4, <1>5, StepKinds

LEMMA TestedInit == Init => TestedInv
<1> SUFFICES ASSUME Init PROVE TestedInv
  OBVIOUS
<1>1. \A t \in Request: req[t].op = "idle"
  BY DEF Init, Idle
<1>2. \A f \in Profile: profile[f] = NoProfile
  BY DEF Init
<1>3. QED
  BY <1>1, <1>2, NoProfileUntested
     DEF TestedInv, Solo, TestIsCurrent, EditsHaveSeen, ResultsAreCurrent

LEMMA TestedInvariant == ASSUME Apart PROVE Spec => []TestedInv
<1>1. RoleInv /\ TestedInv /\ [Next]_vars => TestedInv'
  BY TestedStep
<1>2. QED
  BY <1>1, TestedInit, RolesInvariant, PTL DEF Spec

-----------------------------------------------------------------------------
\* A lookup that succeeds is sent to the settings its capabilities were measured with,
\* as long as tests run on their own: edits clear what they outdate
\* (model_config.py:77-93, 242-243), also for columns another session has changed.
THEOREM ResolvedRolesAreTestedHolds == Apart => (Spec => []ResolvedRolesAreTested)
<1> SUFFICES ASSUME Apart PROVE Spec => []ResolvedRolesAreTested
  OBVIOUS
<1>1. RoleInv /\ TestedInv => ResolvedRolesAreTested
  BY DEF RoleInv, TypeOK, TestedInv, ResultsAreCurrent, ResolvedRolesAreTested, Resolves, Fits,
         Now, Good
<1>2. QED
  BY <1>1, RolesInvariant, TestedInvariant, PTL
=============================================================================

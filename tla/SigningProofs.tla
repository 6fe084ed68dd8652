--------------------------- MODULE SigningProofs ---------------------------
(***************************************************************************)
(* Lemmas about the handlers of the signing ceremonies, for any messages    *)
(* and ceremonies: what a handler keeps of a validator's state, and what it *)
(* commands. SigningNetworkProofs and SigningReorgProofs build on them.     *)
(***************************************************************************)
EXTENDS Signing, TLAPS

Stages == {"WaitingForRequest", "WaitingForOracle", "CollectNonceCommitments",
           "CollectSigningShares", "WaitingForAttestation"}

\* A record with the fields of a session.
SessionShape(w) ==
    w = [stage |-> w.stage, group |-> w.group, sid |-> w.sid, approved |-> w.approved,
         responsible |-> w.responsible, signers |-> w.signers, committed |-> w.committed,
         selections |-> w.selections, deadline |-> w.deadline]

\* A ceremony of a group in G, with commitments of members in P. It has a signature id
\* from the request on.
Session(w, G, P) ==
    /\ SessionShape(w)
    /\ w.stage \in Stages
    /\ w.group \in G
    /\ IF w.stage = "WaitingForRequest" THEN w.sid = NoId ELSE w.sid \in CeremonyIds
    /\ DOMAIN w.committed \subseteq P

\* The ceremony has got past the oracle, or may skip it when it is restarted.
Cleared(w) ==
    \/ w.stage \in {"CollectNonceCommitments", "CollectSigningShares", "WaitingForAttestation"}
    \/ w.stage = "WaitingForRequest" /\ w.approved = TRUE

StateShape(s) ==
    /\ s = [signing |-> s.signing, index |-> s.index]
    /\ s.signing = [m \in Messages |-> s.signing[m]]
    /\ s.index = [sid \in CeremonyIds |-> s.index[sid]]
    /\ \A sid \in CeremonyIds : s.index[sid] \in Messages \cup {NoMessage}

\* A validator's state whose transactions are cleared only if they are in A.
StateOK(s, G, P, A) ==
    /\ StateShape(s)
    /\ \A m \in Messages : s.signing[m] = NoSession \/ Session(s.signing[m], G, P)
    /\ \A m \in Transactions : Cleared(s.signing[m]) => m \in A

CommandOK(c, G) ==
    \/ \E g \in G, sid \in CeremonyIds : c = [kind |-> "GenerateNonces", group |-> g, sid |-> sid]
    \/ \E m \in Messages, sid \in CeremonyIds : c = UseNonces(m, sid)
    \/ \E g \in G, m \in Messages : c = Sign(g, m)
    \/ \E m \in Messages, sid \in CeremonyIds : c = Attest(m, sid)

ResultOK(r, G, P, A) == StateOK(r.state, G, P, A) /\ \A c \in r.commands : CommandOK(c, G)

-----------------------------------------------------------------------------
(* Updates of a state                                                       *)

\* SetSession changes the session of one message.
LEMMA SetSessionState ==
    ASSUME NEW s, StateShape(s), NEW m \in Messages, NEW w
    PROVE  LET t == SetSession(s, m, w) IN
           /\ StateShape(t) /\ t.index = s.index
           /\ t.signing[m] = w
           /\ \A n \in Messages : n # m => t.signing[n] = s.signing[n]
  BY DEF StateShape, SetSession

\* Unlink removes one entry of the index.
LEMMA UnlinkState ==
    ASSUME NEW s, StateShape(s), NEW sid \in CeremonyIds
    PROVE  LET t == Unlink(s, sid) IN
           /\ StateShape(t) /\ t.signing = s.signing
           /\ t.index[sid] = NoMessage
           /\ \A i \in CeremonyIds : i # sid => t.index[i] = s.index[i]
  BY DEF StateShape, Unlink

\* handle_sign adds one entry to the index.
LEMMA LinkState ==
    ASSUME NEW s, StateShape(s), NEW sid \in CeremonyIds, NEW m \in Messages
    PROVE  LET t == [s EXCEPT !.index[sid] = m] IN
           /\ StateShape(t) /\ t.signing = s.signing
           /\ t.index[sid] = m
           /\ \A i \in CeremonyIds : i # sid => t.index[i] = s.index[i]
  BY DEF StateShape

\* What Request builds is a session.
LEMMA RequestSession ==
    ASSUME NEW G, NEW P, NEW g \in G, NEW ok, NEW who, NEW signers, NEW deadline
    PROVE  LET w == Request(g, ok, who, signers, deadline) IN
           /\ Session(w, G, P) /\ w # NoSession /\ w.sid = NoId
           /\ w.stage = "WaitingForRequest" /\ w.approved = ok
  BY DEF Request, Session, SessionShape, Stages, NoSession

\* What Running builds is a session.
LEMMA RunningSession ==
    ASSUME NEW G, NEW P, NEW v, v.group \in G, NEW stage \in Stages \ {"WaitingForRequest"},
           NEW sid \in CeremonyIds, NEW signers, NEW committed, DOMAIN committed \subseteq P,
           NEW deadline
    PROVE  LET w == Running(stage, v, sid, signers, committed, deadline) IN
           /\ Session(w, G, P) /\ w # NoSession /\ w.sid = sid /\ w.stage = stage
           /\ w.committed = committed
  BY DEF Running, Session, SessionShape, Stages, NoSession

\* A running ceremony may be any but NoSession.
LEMMA SessionExists ==
    ASSUME NEW G, NEW P, NEW w, Session(w, G, P)
    PROVE  w # NoSession
  BY DEF Session, Stages, NoSession

\* Replacing one session keeps the state in order if the new session is.
LEMMA SetSessionOK ==
    ASSUME NEW G, NEW P, NEW A, NEW s, StateOK(s, G, P, A), NEW m \in Messages, NEW w,
           w = NoSession \/ Session(w, G, P),
           m \in Transactions /\ Cleared(w) => m \in A
    PROVE  StateOK(SetSession(s, m, w), G, P, A)
  BY SetSessionState, TransactionsAssumption DEF StateOK

\* So does a change of the index.
LEMMA IndexOK ==
    ASSUME NEW G, NEW P, NEW A, NEW s, StateOK(s, G, P, A), NEW t, StateShape(t),
           t.signing = s.signing
    PROVE  StateOK(t, G, P, A)
  BY DEF StateOK

\* What is approved stays approved.
LEMMA ApprovalsGrow ==
    ASSUME NEW G, NEW P, NEW A, NEW B, A \subseteq B, NEW s, StateOK(s, G, P, A)
    PROVE  StateOK(s, G, P, B)
  BY DEF StateOK

\* No sessions, nothing to clear.
LEMMA NoSessionsOK ==
    ASSUME NEW G, NEW P, NEW A
    PROVE  StateOK(NoSessions, G, P, A)
<1>1. StateShape(NoSessions)
  BY DEF StateShape, NoSessions
<1>2. \A m \in Messages : NoSessions.signing[m] = NoSession
  BY DEF NoSessions
<1>3. ~ Cleared(NoSession)
  BY DEF Cleared, NoSession
<1> QED BY <1>1, <1>2, <1>3, TransactionsAssumption DEF StateOK

-----------------------------------------------------------------------------
(* Handlers keep the state in order                                         *)

\* Ignoring an event keeps the state.
LEMMA IgnoredOK ==
    ASSUME NEW G, NEW P, NEW A, NEW s, StateOK(s, G, P, A)
    PROVE  ResultOK(Ignored(s), G, P, A)
  BY DEF ResultOK, Ignored, Result

\* A message in a stage has a session.
LEMMA StageSession ==
    ASSUME NEW G, NEW P, NEW A, NEW s, StateOK(s, G, P, A), NEW m \in Messages, NEW stage,
           InStage(s, m, stage)
    PROVE  Session(s.signing[m], G, P) /\ s.signing[m].stage = stage
  BY DEF StateOK, InStage

\* A signature id in a stage names a message with a session.
LEMMA RunsSession ==
    ASSUME NEW G, NEW P, NEW A, NEW s, StateOK(s, G, P, A), NEW sid \in CeremonyIds, NEW stage,
           Runs(s, sid, stage)
    PROVE  /\ Ceremony(s, sid) \in Messages
           /\ Session(s.signing[Ceremony(s, sid)], G, P)
           /\ s.signing[Ceremony(s, sid)].stage = stage
<1>1. Ceremony(s, sid) \in Messages /\ InStage(s, Ceremony(s, sid), stage)
  BY DEF StateOK, StateShape, Runs, Ceremony
<1> QED BY <1>1, StageSession

\* A proposal opens a session that is not cleared.
LEMMA TransactionProposedOK ==
    ASSUME NEW G, NEW P, NEW A, NEW s, StateOK(s, G, P, A), NEW b, NEW m \in Messages,
           NEW g \in G, NEW members
    PROVE  ResultOK(HandleTransactionProposed(s, b, m, g, members), G, P, A)
<1> DEFINE w == Request(g, FALSE, NoOne, members, b + SigningTimeout)
<1>1. Session(w, G, P) /\ ~ Cleared(w)
  BY RequestSession DEF Cleared
<1> HIDE DEF w
<1>2. StateOK(SetSession(s, m, w), G, P, A)
  BY <1>1, SetSessionOK
<1> QED BY <1>2, IgnoredOK DEF HandleTransactionProposed, ResultOK, Result, w

\* handle_sign starts collecting commitments only for what is cleared, or needs no
\* oracle.
LEMMA SignOK ==
    ASSUME NEW G, NEW P, NEW A, NEW s, StateOK(s, G, P, A), NEW b, NEW m \in Messages,
           NEW g \in G, NEW sid \in CeremonyIds
    PROVE  ResultOK(HandleSign(s, b, m, g, sid), G, P, A)
<1> DEFINE w == s.signing[m]
           waits == m \in Transactions /\ ~ w.approved
           next == IF waits
                   THEN Running("WaitingForOracle", w, sid, w.signers, << >>, b + OracleTimeout)
                   ELSE Running("CollectNonceCommitments", w, sid, w.signers, << >>,
                                b + SigningTimeout)
           after == [SetSession(s, m, next) EXCEPT !.index[sid] = m]
<1>1. CASE ~ InStage(s, m, "WaitingForRequest") \/ w.group # g
  BY <1>1, IgnoredOK DEF HandleSign
<1>2. CASE InStage(s, m, "WaitingForRequest") /\ w.group = g
  <2>1. Session(w, G, P) /\ w.stage = "WaitingForRequest"
    BY <1>2, StageSession
  <2>2. w.group \in G /\ DOMAIN << >> \subseteq P
    BY <2>1 DEF Session
  <2>3. Session(next, G, P)
    BY <2>2, RunningSession DEF Stages
  <2>4. m \in Transactions /\ Cleared(next) => m \in A
    <3>1. waits => ~ Cleared(next)
      BY DEF Running, Cleared
    <3>2. m \in Transactions /\ ~ waits => m \in A
      BY <2>1 DEF StateOK, Cleared
    <3> QED BY <3>1, <3>2
  <2> HIDE DEF next
  <2>5. StateOK(SetSession(s, m, next), G, P, A)
    BY <2>3, <2>4, SetSessionOK
  <2>6. StateOK(after, G, P, A)
    BY <2>5, LinkState, IndexOK DEF StateOK
  <2>7. CommandOK(GenerateNonces(w, sid), G)
    BY <2>2 DEF CommandOK, GenerateNonces
  <2>8. HandleSign(s, b, m, g, sid) =
           Result(after, IF waits THEN {} ELSE {GenerateNonces(w, sid)})
    BY <1>2 DEF HandleSign, next
  <2> HIDE DEF after, w, waits
  <2> QED BY <2>6, <2>7, <2>8 DEF ResultOK, Result
<1> QED BY <1>1, <1>2

\* An approval clears the message, a rejection ends its ceremony.
LEMMA OracleResultOK ==
    ASSUME NEW G, NEW P, NEW A, NEW s, StateOK(s, G, P, A), NEW b, NEW m \in Messages,
           NEW ok, ok => m \in A
    PROVE  ResultOK(HandleOracleResult(s, b, m, ok), G, P, A)
<1> DEFINE w == s.signing[m]
           next == Running("CollectNonceCommitments", w, w.sid, w.signers, << >>,
                           b + SigningTimeout)
<1>1. CASE ~ InStage(s, m, "WaitingForOracle")
  BY <1>1, IgnoredOK DEF HandleOracleResult
<1>2. CASE InStage(s, m, "WaitingForOracle") /\ ok
  <2>1. Session(w, G, P) /\ w.stage = "WaitingForOracle"
    BY <1>2, StageSession
  <2>2. w.group \in G /\ w.sid \in CeremonyIds /\ DOMAIN << >> \subseteq P
    BY <2>1 DEF Session
  <2>3. Session(next, G, P)
    BY <2>2, RunningSession DEF Stages
  <2> HIDE DEF next
  <2>4. StateOK(SetSession(s, m, next), G, P, A)
    BY <1>2, <2>3, SetSessionOK
  <2>5. CommandOK(GenerateNonces(w, w.sid), G)
    BY <2>2 DEF CommandOK, GenerateNonces
  <2> QED BY <1>2, <2>4, <2>5 DEF HandleOracleResult, ResultOK, Result, next
<1>3. CASE InStage(s, m, "WaitingForOracle") /\ ~ ok
  <2>1. w.sid \in CeremonyIds
    BY <1>3, StageSession DEF Session
  <2>2. ~ Cleared(NoSession)
    BY DEF Cleared, NoSession
  <2>3. StateOK(SetSession(s, m, NoSession), G, P, A)
    BY <2>2, SetSessionOK
  <2>4. StateOK(Unlink(SetSession(s, m, NoSession), w.sid), G, P, A)
    BY <2>1, <2>3, UnlinkState, IndexOK DEF StateOK
  <2> QED BY <1>3, <2>4, IgnoredOK DEF HandleOracleResult
<1> QED BY <1>1, <1>2, <1>3

\* A commitment of a member is added to those that are there.
LEMMA FirstCommitmentDomain ==
    ASSUME NEW P, NEW w, DOMAIN w.committed \subseteq P, NEW p \in P, NEW nonces
    PROVE  DOMAIN FirstCommitment(w, p, nonces) \subseteq P
  BY DEF FirstCommitment, Put

\* Another value of one field leaves a session a session.
LEMMA FieldsSession ==
    ASSUME NEW G, NEW P, NEW w, Session(w, G, P), NEW x
    PROVE  /\ DOMAIN x \subseteq P =>
                LET u == [w EXCEPT !.committed = x] IN
                Session(u, G, P) /\ u.sid = w.sid /\ u.stage = w.stage /\ u.approved = w.approved
                /\ u.committed = x
           /\ LET u == [w EXCEPT !.selections = x] IN
              Session(u, G, P) /\ u.sid = w.sid /\ u.stage = w.stage /\ u.approved = w.approved
              /\ u.committed = w.committed
  BY DEF Session, SessionShape

\* handle_sign_committed_nonces goes on with the ceremony of its signature id.
LEMMA SignCommittedNoncesOK ==
    ASSUME NEW G, NEW P, NEW A, NEW s, StateOK(s, G, P, A), NEW b, NEW sid \in CeremonyIds,
           NEW p \in P, NEW nonces
    PROVE  ResultOK(HandleSignCommittedNonces(s, b, sid, p, nonces), G, P, A)
<1> DEFINE m == Ceremony(s, sid)
           w == s.signing[m]
           committed == FirstCommitment(w, p, nonces)
           more == [w EXCEPT !.committed = committed]
           next == Running("CollectSigningShares", w, w.sid, w.signers, committed,
                           b + SigningTimeout)
<1>1. CASE ~ Runs(s, sid, "CollectNonceCommitments")
  BY <1>1, IgnoredOK DEF HandleSignCommittedNonces
<1>2. CASE Runs(s, sid, "CollectNonceCommitments")
  <2>1. m \in Messages /\ Session(w, G, P) /\ w.stage = "CollectNonceCommitments"
    BY <1>2, RunsSession
  <2>2. DOMAIN committed \subseteq P /\ w.sid \in CeremonyIds /\ w.group \in G
    BY <2>1, FirstCommitmentDomain DEF Session
  <2>3. m \in Transactions => m \in A
    BY <2>1 DEF StateOK, Cleared
  <2> HIDE DEF committed, w, m
  <2>4. Session(more, G, P) /\ Session(next, G, P)
    BY <2>1, <2>2, FieldsSession, RunningSession DEF Stages
  <2>5. CommandOK(UseNonces(m, sid), G)
    BY <2>1 DEF CommandOK
  <2> HIDE DEF more, next
  <2>6. StateOK(SetSession(s, m, more), G, P, A) /\ StateOK(SetSession(s, m, next), G, P, A)
    BY <2>1, <2>3, <2>4, SetSessionOK
  <2>7. HandleSignCommittedNonces(s, b, sid, p, nonces) =
           IF DOMAIN committed # w.signers THEN Ignored(SetSession(s, m, more))
           ELSE Result(SetSession(s, m, next), {UseNonces(m, sid)})
    BY <1>2 DEF HandleSignCommittedNonces, more, next, committed, w, m
  <2> QED BY <2>5, <2>6, <2>7, IgnoredOK DEF ResultOK, Result
<1> QED BY <1>1, <1>2

\* handle_sign_shared only counts the share.
LEMMA SignSharedOK ==
    ASSUME NEW G, NEW P, NEW A, NEW s, StateOK(s, G, P, A), NEW sid \in CeremonyIds,
           NEW root, NEW p
    PROVE  ResultOK(HandleSignShared(s, sid, root, p), G, P, A)
<1> DEFINE m == Ceremony(s, sid)
           w == s.signing[m]
           old == IF root \in DOMAIN w.selections THEN w.selections[root].shares_from ELSE {}
           more == [w EXCEPT !.selections =
                       Put(w.selections, root, [shares_from |-> old \cup {p}, last_signer |-> p])]
<1>1. CASE ~ Runs(s, sid, "CollectSigningShares")
  BY <1>1, IgnoredOK DEF HandleSignShared
<1>2. CASE Runs(s, sid, "CollectSigningShares")
  <2>1. m \in Messages /\ Session(w, G, P) /\ w.stage = "CollectSigningShares"
    BY <1>2, RunsSession
  <2>2. m \in Transactions => m \in A
    BY <2>1 DEF StateOK, Cleared
  <2>3. Session(more, G, P)
    BY <2>1, FieldsSession
  <2>4. HandleSignShared(s, sid, root, p) = Ignored(SetSession(s, m, more))
    BY <1>2 DEF HandleSignShared
  <2> HIDE DEF more, m
  <2>5. StateOK(SetSession(s, m, more), G, P, A)
    BY <2>1, <2>2, <2>3, SetSessionOK
  <2> QED BY <2>4, <2>5, IgnoredOK
<1> QED BY <1>1, <1>2

\* handle_sign_completed waits for the attestation of a cleared message.
LEMMA SignCompletedOK ==
    ASSUME NEW G, NEW P, NEW A, NEW s, StateOK(s, G, P, A), NEW b, NEW sid \in CeremonyIds
    PROVE  ResultOK(HandleSignCompleted(s, b, sid), G, P, A)
<1> DEFINE m == Ceremony(s, sid)
           w == s.signing[m]
           next == Running("WaitingForAttestation", w, w.sid, {}, << >>, b + SigningTimeout)
<1>1. CASE ~ Runs(s, sid, "CollectSigningShares")
  BY <1>1, IgnoredOK DEF HandleSignCompleted
<1>2. CASE Runs(s, sid, "CollectSigningShares")
  <2>1. m \in Messages /\ Session(w, G, P) /\ w.stage = "CollectSigningShares"
    BY <1>2, RunsSession
  <2>2. w.sid \in CeremonyIds /\ w.group \in G /\ DOMAIN << >> \subseteq P
    BY <2>1 DEF Session
  <2>3. m \in Transactions => m \in A
    BY <2>1 DEF StateOK, Cleared
  <2>4. Session(next, G, P)
    BY <2>2, RunningSession DEF Stages
  <2>5. HandleSignCompleted(s, b, sid) = Ignored(SetSession(s, m, next))
    BY <1>2 DEF HandleSignCompleted
  <2> HIDE DEF next, m
  <2>6. StateOK(SetSession(s, m, next), G, P, A)
    BY <2>1, <2>3, <2>4, SetSessionOK
  <2> QED BY <2>5, <2>6, IgnoredOK
<1> QED BY <1>1, <1>2

\* handle_sign_attested drops the session.
LEMMA SignAttestedOK ==
    ASSUME NEW G, NEW P, NEW A, NEW s, StateOK(s, G, P, A), NEW sid, NEW m \in Messages
    PROVE  ResultOK(HandleSignAttested(s, sid, m), G, P, A)
<1> DEFINE w == s.signing[m]
           dropped == SetSession(s, m, NoSession)
<1>1. ~ Cleared(NoSession)
  BY DEF Cleared, NoSession
<1>2. StateOK(dropped, G, P, A)
  BY <1>1, SetSessionOK
<1> HIDE DEF dropped
<1>3. CASE w # NoSession /\ w.sid # NoId
  <2>1. w.sid \in CeremonyIds
    BY <1>3 DEF StateOK, Session
  <2>2. StateOK(Unlink(dropped, w.sid), G, P, A)
    BY <1>2, <2>1, UnlinkState, IndexOK DEF StateOK
  <2> QED BY <1>3, <2>2, IgnoredOK DEF HandleSignAttested, dropped
<1>4. CASE ~ (w # NoSession /\ w.sid # NoId)
  BY <1>2, <1>4, IgnoredOK DEF HandleSignAttested, dropped
<1> QED BY <1>3, <1>4

\* Whatever becomes of a ceremony past its deadline is cleared only if it was.
LEMMA ExpireOK ==
    ASSUME NEW G, NEW P, NEW v, NEW m \in Messages, NEW w, Session(w, G, P), NEW b
    PROVE  LET e == Expire(v, m, w, b) IN
           /\ e.session = NoSession \/ Session(e.session, G, P)
           /\ Cleared(e.session) => Cleared(w)
           /\ \A c \in e.commands : CommandOK(c, G)
           /\ e.session # NoSession /\ e.session.sid # NoId => e.session.sid = w.sid
<1> DEFINE next == b + SigningTimeout
           e == Expire(v, m, w, b)
<1>1. ~ Cleared(NoSession)
  BY DEF Cleared, NoSession
<1>2. w.group \in G /\ w.stage \in Stages
  BY DEF Session
<1>3. Dropped.session = NoSession /\ Dropped.commands = {}
  BY DEF Dropped, Moves
<1>4. CASE w.stage = "WaitingForRequest"
  <2> DEFINE others == w.signers \ {w.responsible}
             r == Request(w.group, w.approved, NoOne, others, next)
  <2>1. Session(r, G, P) /\ r.sid = NoId /\ r.approved = w.approved /\ r.stage = w.stage
    BY <1>2, <1>4, RequestSession
  <2>2. e = Dropped \/ e = Moves(r, {Sign(w.group, m)})
    BY <1>4 DEF Expire, ExpireRequest
  <2>3. CommandOK(Sign(w.group, m), G)
    BY <1>2 DEF CommandOK
  <2> HIDE DEF e, r
  <2> QED BY <1>1, <1>3, <1>4, <2>1, <2>2, <2>3 DEF Moves, Cleared, e
<1>5. CASE w.stage = "WaitingForOracle"
  BY <1>1, <1>3, <1>5 DEF Expire
<1>6. CASE w.stage = "CollectNonceCommitments"
  <2> DEFINE r == Running("CollectSigningShares", w, w.sid, DOMAIN w.committed, w.committed, next)
  <2>0. w.sid \in CeremonyIds /\ DOMAIN w.committed \subseteq P
    BY <1>6 DEF Session
  <2>1. Session(r, G, P) /\ r.sid = w.sid
    BY <1>2, <2>0, RunningSession DEF Stages
  <2>2. e = Dropped \/ e = Moves(r, {UseNonces(m, w.sid)})
    BY <1>6 DEF Expire, ExpireCommitments
  <2>3. CommandOK(UseNonces(m, w.sid), G)
    BY <2>0 DEF CommandOK
  <2> HIDE DEF e, r
  <2> QED BY <1>1, <1>3, <1>6, <2>1, <2>2, <2>3 DEF Moves, Cleared, e
<1>7. CASE w.stage = "CollectSigningShares"
  <2> DEFINE last == CanonicalSelection(w).last_signer
             signers == RestartSigners(w)
             r == Request(w.group, TRUE, last, signers, next)
  <2> HIDE DEF last, signers, next
  <2>1. Session(r, G, P) /\ r.sid = NoId
    BY <1>2 DEF Request, Session, SessionShape, Stages
  <2>2. e = Dropped \/ e = Moves(r, IF last = v THEN {Sign(w.group, m)} ELSE {})
    BY <1>7 DEF Expire, ExpireShares, last, signers, next
  <2>3. CommandOK(Sign(w.group, m), G)
    BY <1>2 DEF CommandOK
  <2> HIDE DEF e, r
  <2> QED BY <1>1, <1>3, <1>7, <2>1, <2>2, <2>3 DEF Moves, Cleared, e
<1>8. CASE w.stage = "WaitingForAttestation"
  <2>1. e = Moves(NoSession, {Attest(m, w.sid)})
    BY <1>8 DEF Expire, ExpireAttestation
  <2>2. CommandOK(Attest(m, w.sid), G)
    BY <1>8 DEF CommandOK, Session
  <2> QED BY <1>1, <2>1, <2>2 DEF Moves
<1> QED BY <1>2, <1>4, <1>5, <1>6, <1>7, <1>8 DEF Stages

\* handle_signing_timeouts keeps every session in order.
LEMMA SigningTimeoutsOK ==
    ASSUME NEW G, NEW P, NEW A, NEW s, StateOK(s, G, P, A), NEW v, NEW b
    PROVE  ResultOK(HandleSigningTimeouts(s, v, b), G, P, A)
<1> DEFINE r == HandleSigningTimeouts(s, v, b)
           expired == Expired(s, b)
           after(m) == Expire(v, m, s.signing[m], b)
<1>1. /\ r.state.signing = [m \in Messages |-> IF m \in expired THEN after(m).session
                                               ELSE s.signing[m]]
      /\ r.commands = UNION {after(m).commands : m \in expired}
  BY DEF HandleSigningTimeouts, Result
<1>2. StateShape(r.state)
  BY DEF HandleSigningTimeouts, Result, StateShape, StateOK
<1>3. \A m \in expired : m \in Messages /\ Session(s.signing[m], G, P)
  BY DEF Expired, StateOK
<1>4. \A m \in expired : /\ after(m).session = NoSession \/ Session(after(m).session, G, P)
                         /\ Cleared(after(m).session) => Cleared(s.signing[m])
                         /\ \A c \in after(m).commands : CommandOK(c, G)
  BY <1>3, ExpireOK
<1> HIDE DEF r, expired, after
<1>5. StateOK(r.state, G, P, A)
  BY <1>1, <1>2, <1>4, TransactionsAssumption DEF StateOK
<1>6. \A c \in r.commands : CommandOK(c, G)
  BY <1>1, <1>4
<1> QED BY <1>5, <1>6 DEF ResultOK, r

-----------------------------------------------------------------------------
(* The index                                                                *)

HasSid(w, sid) == w # NoSession /\ w.sid = sid

\* The index is exact, and names the messages that the coordinator has for the
\* signature ids, which M gives.
Linked(s, M) ==
    /\ IndexExact(s)
    /\ \A sid \in CeremonyIds : s.index[sid] \in {NoMessage, M[sid]}

\* A new session under the same signature id, or none, as before.
LEMMA SetSessionLinked ==
    ASSUME NEW M, NEW s, StateShape(s), Linked(s, M), NEW m \in Messages, NEW w,
           \A sid \in CeremonyIds : HasSid(w, sid) <=> HasSid(s.signing[m], sid)
    PROVE  Linked(SetSession(s, m, w), M)
  BY SetSessionState DEF Linked, IndexExact, HasSid

\* A session that ends takes its entry with it.
LEMMA UnlinkLinked ==
    ASSUME NEW M, NEW s, StateShape(s), Linked(s, M), NEW m \in Messages, NEW w,
           \A sid \in CeremonyIds : ~ HasSid(w, sid),
           NEW old \in CeremonyIds, HasSid(s.signing[m], old)
    PROVE  Linked(Unlink(SetSession(s, m, w), old), M)
<1> DEFINE t == SetSession(s, m, w)
           u == Unlink(t, old)
<1>1. /\ StateShape(t) /\ t.index = s.index /\ t.signing[m] = w
      /\ \A n \in Messages : n # m => t.signing[n] = s.signing[n]
  BY SetSessionState
<1> HIDE DEF t
<1>2. /\ u.signing = t.signing /\ u.index[old] = NoMessage
      /\ \A i \in CeremonyIds : i # old => u.index[i] = t.index[i]
  BY <1>1, UnlinkState
<1>3. s.index[old] = m
  BY DEF Linked, IndexExact, HasSid
<1> HIDE DEF u
<1>4. Linked(u, M)
  BY <1>1, <1>2, <1>3, MarkersAssumption DEF Linked, IndexExact, HasSid
<1> QED BY <1>4 DEF t, u

\* A ceremony that gets a signature id the coordinator has just given to its message.
LEMMA LinkLinked ==
    ASSUME NEW M, NEW s, StateShape(s), Linked(s, M), NEW m \in Messages, NEW w,
           \A i \in CeremonyIds : ~ HasSid(s.signing[m], i),
           NEW sid \in CeremonyIds, w # NoSession, w.sid = sid, M[sid] = NoMessage,
           NEW N, N[sid] = m, \A i \in CeremonyIds : i # sid => N[i] = M[i]
    PROVE  Linked([SetSession(s, m, w) EXCEPT !.index[sid] = m], N)
<1> DEFINE t == SetSession(s, m, w)
           u == [t EXCEPT !.index[sid] = m]
<1>1. /\ StateShape(t) /\ t.index = s.index /\ t.signing[m] = w
      /\ \A n \in Messages : n # m => t.signing[n] = s.signing[n]
  BY SetSessionState
<1> HIDE DEF t
<1>2. /\ u.signing = t.signing /\ u.index[sid] = m
      /\ \A i \in CeremonyIds : i # sid => u.index[i] = t.index[i]
  BY <1>1 DEF StateShape
<1>3. s.index[sid] = NoMessage
  BY DEF Linked
<1> HIDE DEF u
<1>4. Linked(u, N)
  BY <1>1, <1>2, <1>3, MarkersAssumption DEF Linked, IndexExact, HasSid
<1> QED BY <1>4 DEF t, u

\* The coordinator's next id leaves the index of a validator that ignores it alone.
LEMMA MoreLinked ==
    ASSUME NEW M, NEW s, Linked(s, M), NEW sid \in CeremonyIds, M[sid] = NoMessage,
           NEW N, \A i \in CeremonyIds : i # sid => N[i] = M[i]
    PROVE  Linked(s, N)
  BY DEF Linked

\* A proposal opens a ceremony without a signature id.
LEMMA TransactionProposedLinked ==
    ASSUME NEW M, NEW s, StateShape(s), Linked(s, M), NEW b, NEW m \in Messages, NEW g,
           NEW members
    PROVE  LET t == HandleTransactionProposed(s, b, m, g, members).state IN
           Linked(t, M) /\ StateShape(t)
<1> DEFINE w == Request(g, FALSE, NoOne, members, b + SigningTimeout)
           t == HandleTransactionProposed(s, b, m, g, members).state
<1>1. w.sid = NoId
  BY DEF Request
<1> HIDE DEF w
<1>2. CASE s.signing[m] # NoSession
  BY <1>2 DEF HandleTransactionProposed, Ignored, Result
<1>3. CASE s.signing[m] = NoSession
  <2>1. t = SetSession(s, m, w)
    BY <1>3 DEF HandleTransactionProposed, Result, w
  <2>2. \A sid \in CeremonyIds : HasSid(w, sid) <=> HasSid(s.signing[m], sid)
    BY <1>1, <1>3, MarkersAssumption DEF HasSid
  <2> QED BY <2>1, <2>2, SetSessionLinked, SetSessionState
<1> QED BY <1>2, <1>3

\* handle_sign links the fresh signature id, if it goes on with the ceremony.
LEMMA SignLinked ==
    ASSUME NEW G, NEW P, NEW A, NEW s, StateOK(s, G, P, A), NEW M, Linked(s, M), NEW b,
           NEW m \in Messages, NEW g, NEW sid \in CeremonyIds, M[sid] = NoMessage,
           NEW N, N[sid] = m, \A i \in CeremonyIds : i # sid => N[i] = M[i]
    PROVE  Linked(HandleSign(s, b, m, g, sid).state, N)
<1> DEFINE w == s.signing[m]
           waits == m \in Transactions /\ ~ w.approved
           next == IF waits
                   THEN Running("WaitingForOracle", w, sid, w.signers, << >>, b + OracleTimeout)
                   ELSE Running("CollectNonceCommitments", w, sid, w.signers, << >>,
                                b + SigningTimeout)
<1>1. CASE ~ InStage(s, m, "WaitingForRequest") \/ w.group # g
  BY <1>1, MoreLinked DEF HandleSign, Ignored, Result
<1>2. CASE InStage(s, m, "WaitingForRequest") /\ w.group = g
  <2>1. Session(w, G, P) /\ w.stage = "WaitingForRequest"
    BY <1>2, StageSession
  <2>2. \A i \in CeremonyIds : ~ HasSid(w, i)
    BY <2>1, MarkersAssumption DEF Session, HasSid
  <2>3. next # NoSession /\ next.sid = sid
    BY DEF Running, NoSession
  <2>4. HandleSign(s, b, m, g, sid).state = [SetSession(s, m, next) EXCEPT !.index[sid] = m]
    BY <1>2 DEF HandleSign, Result
  <2> HIDE DEF next
  <2> QED BY <2>2, <2>3, <2>4, LinkLinked DEF StateOK
<1> QED BY <1>1, <1>2

\* An oracle's result goes on with the ceremony, or ends it and its entry.
LEMMA OracleResultLinked ==
    ASSUME NEW G, NEW P, NEW A, NEW s, StateOK(s, G, P, A), NEW M, Linked(s, M), NEW b,
           NEW m \in Messages, NEW ok
    PROVE  Linked(HandleOracleResult(s, b, m, ok).state, M)
<1> DEFINE w == s.signing[m]
           next == Running("CollectNonceCommitments", w, w.sid, w.signers, << >>,
                           b + SigningTimeout)
<1>1. CASE ~ InStage(s, m, "WaitingForOracle")
  BY <1>1 DEF HandleOracleResult, Ignored, Result
<1>2. CASE InStage(s, m, "WaitingForOracle")
  <2>1. Session(w, G, P) /\ w.stage = "WaitingForOracle"
    BY <1>2, StageSession
  <2>2. w.sid \in CeremonyIds /\ w # NoSession
    BY <2>1, SessionExists DEF Session
  <2>3. next # NoSession /\ next.sid = w.sid
    BY DEF Running, NoSession
  <2>4. HandleOracleResult(s, b, m, ok).state =
            IF ok THEN SetSession(s, m, next) ELSE Unlink(SetSession(s, m, NoSession), w.sid)
    BY <1>2 DEF HandleOracleResult, Result, Ignored
  <2> HIDE DEF next
  <2>5. Linked(SetSession(s, m, next), M)
    BY <2>2, <2>3, SetSessionLinked DEF HasSid, StateOK
  <2>6. Linked(Unlink(SetSession(s, m, NoSession), w.sid), M)
    BY <2>2, UnlinkLinked DEF HasSid, StateOK
  <2> QED BY <2>4, <2>5, <2>6
<1> QED BY <1>1, <1>2

\* Commitments keep the ceremony under its signature id.
LEMMA SignCommittedNoncesLinked ==
    ASSUME NEW G, NEW P, NEW A, NEW s, StateOK(s, G, P, A), NEW M, Linked(s, M), NEW b,
           NEW sid \in CeremonyIds, NEW p, NEW nonces
    PROVE  Linked(HandleSignCommittedNonces(s, b, sid, p, nonces).state, M)
<1> DEFINE m == Ceremony(s, sid)
           w == s.signing[m]
           committed == FirstCommitment(w, p, nonces)
           more == [w EXCEPT !.committed = committed]
           next == Running("CollectSigningShares", w, w.sid, w.signers, committed,
                           b + SigningTimeout)
<1>1. CASE ~ Runs(s, sid, "CollectNonceCommitments")
  BY <1>1 DEF HandleSignCommittedNonces, Ignored, Result
<1>2. CASE Runs(s, sid, "CollectNonceCommitments")
  <2>1. m \in Messages /\ Session(w, G, P) /\ w # NoSession
    BY <1>2, RunsSession, SessionExists
  <2>2. more # NoSession /\ more.sid = w.sid /\ next # NoSession /\ next.sid = w.sid
    BY <2>1 DEF Running, NoSession, Session, SessionShape, Stages
  <2>3. HandleSignCommittedNonces(s, b, sid, p, nonces).state =
            IF DOMAIN committed # w.signers THEN SetSession(s, m, more) ELSE SetSession(s, m, next)
    BY <1>2 DEF HandleSignCommittedNonces, Result, Ignored
  <2> HIDE DEF more, next, m
  <2>4. Linked(SetSession(s, m, more), M) /\ Linked(SetSession(s, m, next), M)
    BY <2>1, <2>2, SetSessionLinked DEF HasSid, StateOK
  <2> QED BY <2>3, <2>4
<1> QED BY <1>1, <1>2

\* So do shares.
LEMMA SignSharedLinked ==
    ASSUME NEW G, NEW P, NEW A, NEW s, StateOK(s, G, P, A), NEW M, Linked(s, M),
           NEW sid \in CeremonyIds, NEW root, NEW p
    PROVE  Linked(HandleSignShared(s, sid, root, p).state, M)
<1> DEFINE m == Ceremony(s, sid)
           w == s.signing[m]
           old == IF root \in DOMAIN w.selections THEN w.selections[root].shares_from ELSE {}
           x == Put(w.selections, root, [shares_from |-> old \cup {p}, last_signer |-> p])
           more == [w EXCEPT !.selections = x]
<1>1. CASE ~ Runs(s, sid, "CollectSigningShares")
  BY <1>1 DEF HandleSignShared, Ignored, Result
<1>2. CASE Runs(s, sid, "CollectSigningShares")
  <2>1. m \in Messages /\ Session(w, G, P) /\ w # NoSession
    BY <1>2, RunsSession, SessionExists
  <2>2. HandleSignShared(s, sid, root, p).state = SetSession(s, m, more)
    BY <1>2 DEF HandleSignShared, Result, Ignored
  <2> HIDE DEF x
  <2>3. more # NoSession /\ more.sid = w.sid
    BY <2>1 DEF NoSession, Session, SessionShape, Stages
  <2> HIDE DEF more, m
  <2> QED BY <2>1, <2>2, <2>3, SetSessionLinked DEF HasSid, StateOK
<1> QED BY <1>1, <1>2

\* So does the completed signature.
LEMMA SignCompletedLinked ==
    ASSUME NEW G, NEW P, NEW A, NEW s, StateOK(s, G, P, A), NEW M, Linked(s, M), NEW b,
           NEW sid \in CeremonyIds
    PROVE  Linked(HandleSignCompleted(s, b, sid).state, M)
<1> DEFINE m == Ceremony(s, sid)
           w == s.signing[m]
           next == Running("WaitingForAttestation", w, w.sid, {}, << >>, b + SigningTimeout)
<1>1. CASE ~ Runs(s, sid, "CollectSigningShares")
  BY <1>1 DEF HandleSignCompleted, Ignored, Result
<1>2. CASE Runs(s, sid, "CollectSigningShares")
  <2>1. m \in Messages /\ Session(w, G, P) /\ w # NoSession
    BY <1>2, RunsSession, SessionExists
  <2>2. next # NoSession /\ next.sid = w.sid
    BY DEF Running, NoSession
  <2>3. HandleSignCompleted(s, b, sid).state = SetSession(s, m, next)
    BY <1>2 DEF HandleSignCompleted, Result, Ignored
  <2> HIDE DEF next, m
  <2> QED BY <2>1, <2>2, <2>3, SetSessionLinked DEF HasSid, StateOK
<1> QED BY <1>1, <1>2

\* The attestation ends the validator's own ceremony, whichever id was attested.
LEMMA SignAttestedLinked ==
    ASSUME NEW G, NEW P, NEW A, NEW s, StateOK(s, G, P, A), NEW M, Linked(s, M),
           NEW sid, NEW m \in Messages
    PROVE  Linked(HandleSignAttested(s, sid, m).state, M)
<1> DEFINE w == s.signing[m]
           dropped == SetSession(s, m, NoSession)
<1>1. HandleSignAttested(s, sid, m).state =
          IF w # NoSession /\ w.sid # NoId THEN Unlink(dropped, w.sid) ELSE dropped
  BY DEF HandleSignAttested, Ignored, Result
<1>2. CASE w # NoSession /\ w.sid # NoId
  <2>1. w.sid \in CeremonyIds
    BY <1>2 DEF StateOK, Session
  <2> QED BY <1>1, <1>2, <2>1, UnlinkLinked DEF HasSid, StateOK
<1>3. CASE ~ (w # NoSession /\ w.sid # NoId)
  <2>1. \A i \in CeremonyIds : HasSid(NoSession, i) <=> HasSid(w, i)
    BY <1>3, MarkersAssumption DEF HasSid
  <2> QED BY <1>1, <1>3, <2>1, SetSessionLinked DEF StateOK
<1> QED BY <1>2, <1>3

\* Of the ceremonies past their deadline, those that end or start again lose their
\* entries, whatever becomes of the others.
LEMMA SigningTimeoutsLinked ==
    ASSUME NEW G, NEW P, NEW A, NEW s, StateOK(s, G, P, A), NEW M, Linked(s, M), NEW v, NEW b
    PROVE  Linked(HandleSigningTimeouts(s, v, b).state, M)
<1> DEFINE t == HandleSigningTimeouts(s, v, b).state
           expired == Expired(s, b)
           after(m) == Expire(v, m, s.signing[m], b).session
           ends(m) == s.signing[m].sid # NoId /\ (after(m) = NoSession \/ after(m).sid = NoId)
           unlinked == {s.signing[m].sid : m \in {x \in expired : ends(x)}}
<1>1. /\ \A m \in Messages : t.signing[m] = IF m \in expired THEN after(m) ELSE s.signing[m]
      /\ \A sid \in CeremonyIds :
            t.index[sid] = IF sid \in unlinked THEN NoMessage ELSE s.index[sid]
  BY DEF HandleSigningTimeouts, Result
<1>2. \A m \in expired : m \in Messages /\ Session(s.signing[m], G, P) /\ s.signing[m] # NoSession
  BY DEF Expired, StateOK
<1>3. \A m \in expired : after(m) # NoSession /\ after(m).sid # NoId =>
                             after(m).sid = s.signing[m].sid
  BY <1>2, ExpireOK
<1> HIDE DEF t, expired, after
<1>4. ASSUME NEW m \in Messages, NEW sid \in CeremonyIds
      PROVE  t.index[sid] = m <=> t.signing[m] # NoSession /\ t.signing[m].sid = sid
  <2>1. s.index[sid] = m <=> s.signing[m] # NoSession /\ s.signing[m].sid = sid
    BY DEF Linked, IndexExact
  <2>2. sid \in unlinked /\ s.index[sid] = m => m \in expired /\ ends(m)
    BY <1>2 DEF Linked, IndexExact
  <2>3. m \in expired /\ ends(m) /\ s.index[sid] = m => sid \in unlinked
    BY <2>1
  <2> QED BY <1>1, <1>2, <1>3, <2>1, <2>2, <2>3, MarkersAssumption
<1> QED BY <1>1, <1>4 DEF Linked, IndexExact, t

-----------------------------------------------------------------------------
(* What becomes of one session: a function of the session and the event, the *)
(* same for every validator. With an exact index, a handler reaches the      *)
(* ceremony of its signature id and no other.                                *)

AfterSign(w, b, m, n, g, sid) ==
    IF n # m \/ w = NoSession \/ w.stage # "WaitingForRequest" \/ w.group # g THEN w
    ELSE IF m \in Transactions /\ ~ w.approved
    THEN Running("WaitingForOracle", w, sid, w.signers, << >>, b + OracleTimeout)
    ELSE Running("CollectNonceCommitments", w, sid, w.signers, << >>, b + SigningTimeout)

AfterCommitment(w, b, sid, p, nonces) ==
    IF ~ (HasSid(w, sid) /\ w.stage = "CollectNonceCommitments") THEN w
    ELSE IF DOMAIN FirstCommitment(w, p, nonces) # w.signers
    THEN [w EXCEPT !.committed = FirstCommitment(w, p, nonces)]
    ELSE Running("CollectSigningShares", w, w.sid, w.signers, FirstCommitment(w, p, nonces),
                 b + SigningTimeout)

SharesSeen(w, root) == IF root \in DOMAIN w.selections THEN w.selections[root].shares_from ELSE {}

AfterShare(w, sid, root, p) ==
    IF ~ (HasSid(w, sid) /\ w.stage = "CollectSigningShares") THEN w
    ELSE [w EXCEPT !.selections =
             Put(w.selections, root,
                 [shares_from |-> SharesSeen(w, root) \cup {p}, last_signer |-> p])]

AfterCompletion(w, b, sid) ==
    IF ~ (HasSid(w, sid) /\ w.stage = "CollectSigningShares") THEN w
    ELSE Running("WaitingForAttestation", w, w.sid, {}, << >>, b + SigningTimeout)

AfterDeadline(v, m, w, b) ==
    IF w # NoSession /\ w.deadline <= b THEN Expire(v, m, w, b).session ELSE w

\* The ceremony of a signature id is the one that has the id.
LEMMA RunsExact ==
    ASSUME NEW s, StateShape(s), IndexExact(s), NEW sid \in CeremonyIds, NEW stage,
           NEW n \in Messages
    PROVE  (Runs(s, sid, stage) /\ Ceremony(s, sid) = n)
             <=> (HasSid(s.signing[n], sid) /\ s.signing[n].stage = stage)
  BY MarkersAssumption DEF Runs, Ceremony, InStage, IndexExact, HasSid

\* handle_sign touches the session of its message.
LEMMA SignSession ==
    ASSUME NEW s, StateShape(s), NEW b, NEW m \in Messages, NEW g, NEW sid \in CeremonyIds,
           NEW n \in Messages
    PROVE  HandleSign(s, b, m, g, sid).state.signing[n] = AfterSign(s.signing[n], b, m, n, g, sid)
<1> DEFINE w == s.signing[m]
           next == IF m \in Transactions /\ ~ w.approved
                   THEN Running("WaitingForOracle", w, sid, w.signers, << >>, b + OracleTimeout)
                   ELSE Running("CollectNonceCommitments", w, sid, w.signers, << >>,
                                b + SigningTimeout)
           t == SetSession(s, m, next)
<1>1. CASE ~ InStage(s, m, "WaitingForRequest") \/ w.group # g
  BY <1>1 DEF HandleSign, Ignored, Result, InStage, AfterSign
<1>2. CASE InStage(s, m, "WaitingForRequest") /\ w.group = g
  <2>1. HandleSign(s, b, m, g, sid).state = [t EXCEPT !.index[sid] = m]
    BY <1>2 DEF HandleSign, Result
  <2>2. AfterSign(w, b, m, m, g, sid) = next
    BY <1>2 DEF AfterSign, InStage
  <2> HIDE DEF next
  <2>3. /\ StateShape(t) /\ t.signing[m] = next
        /\ n # m => t.signing[n] = s.signing[n]
    BY SetSessionState
  <2>4. n # m => AfterSign(s.signing[n], b, m, n, g, sid) = s.signing[n]
    BY DEF AfterSign
  <2> HIDE DEF t, w
  <2>5. [t EXCEPT !.index[sid] = m].signing = t.signing
    BY <2>3 DEF StateShape
  <2> QED BY <2>1, <2>2, <2>3, <2>4, <2>5 DEF w
<1> QED BY <1>1, <1>2

\* handle_sign_committed_nonces touches the session of its signature id.
LEMMA CommitmentSession ==
    ASSUME NEW s, StateShape(s), IndexExact(s), NEW b, NEW sid \in CeremonyIds, NEW p, NEW nonces,
           NEW n \in Messages
    PROVE  HandleSignCommittedNonces(s, b, sid, p, nonces).state.signing[n]
               = AfterCommitment(s.signing[n], b, sid, p, nonces)
<1> DEFINE m == Ceremony(s, sid)
           w == s.signing[m]
           committed == FirstCommitment(w, p, nonces)
           next == IF DOMAIN committed # w.signers THEN [w EXCEPT !.committed = committed]
                   ELSE Running("CollectSigningShares", w, w.sid, w.signers, committed,
                                b + SigningTimeout)
<1>1. CASE ~ Runs(s, sid, "CollectNonceCommitments")
  BY <1>1, RunsExact DEF HandleSignCommittedNonces, Ignored, Result, AfterCommitment
<1>2. CASE Runs(s, sid, "CollectNonceCommitments")
  <2>1. m \in Messages
    BY <1>2 DEF StateShape, Runs, Ceremony
  <2>2. HandleSignCommittedNonces(s, b, sid, p, nonces).state = SetSession(s, m, next)
    BY <1>2 DEF HandleSignCommittedNonces, Ignored, Result
  <2>3. n = m => AfterCommitment(s.signing[n], b, sid, p, nonces) = next
    BY <1>2, <2>1, RunsExact DEF AfterCommitment
  <2>4. n # m => AfterCommitment(s.signing[n], b, sid, p, nonces) = s.signing[n]
    BY <1>2, RunsExact DEF AfterCommitment
  <2> HIDE DEF next, m
  <2> QED BY <2>1, <2>2, <2>3, <2>4, SetSessionState
<1> QED BY <1>1, <1>2

\* handle_sign_shared touches the session of its signature id.
LEMMA ShareSession ==
    ASSUME NEW s, StateShape(s), IndexExact(s), NEW sid \in CeremonyIds, NEW root, NEW p,
           NEW n \in Messages
    PROVE  HandleSignShared(s, sid, root, p).state.signing[n]
               = AfterShare(s.signing[n], sid, root, p)
<1> DEFINE m == Ceremony(s, sid)
           w == s.signing[m]
           next == [w EXCEPT !.selections =
                       Put(w.selections, root,
                           [shares_from |-> SharesSeen(w, root) \cup {p}, last_signer |-> p])]
<1>1. CASE ~ Runs(s, sid, "CollectSigningShares")
  BY <1>1, RunsExact DEF HandleSignShared, Ignored, Result, AfterShare
<1>2. CASE Runs(s, sid, "CollectSigningShares")
  <2>1. m \in Messages
    BY <1>2 DEF StateShape, Runs, Ceremony
  <2>2. HandleSignShared(s, sid, root, p).state = SetSession(s, m, next)
    BY <1>2 DEF HandleSignShared, Ignored, Result, SharesSeen
  <2>3. n = m => AfterShare(s.signing[n], sid, root, p) = next
    BY <1>2, <2>1, RunsExact DEF AfterShare
  <2>4. n # m => AfterShare(s.signing[n], sid, root, p) = s.signing[n]
    BY <1>2, RunsExact DEF AfterShare
  <2> HIDE DEF next, m
  <2> QED BY <2>1, <2>2, <2>3, <2>4, SetSessionState
<1> QED BY <1>1, <1>2

\* handle_sign_completed touches the session of its signature id.
LEMMA CompletionSession ==
    ASSUME NEW s, StateShape(s), IndexExact(s), NEW b, NEW sid \in CeremonyIds,
           NEW n \in Messages
    PROVE  HandleSignCompleted(s, b, sid).state.signing[n] = AfterCompletion(s.signing[n], b, sid)
<1> DEFINE m == Ceremony(s, sid)
           w == s.signing[m]
           next == Running("WaitingForAttestation", w, w.sid, {}, << >>, b + SigningTimeout)
<1>1. CASE ~ Runs(s, sid, "CollectSigningShares")
  BY <1>1, RunsExact DEF HandleSignCompleted, Ignored, Result, AfterCompletion
<1>2. CASE Runs(s, sid, "CollectSigningShares")
  <2>1. m \in Messages
    BY <1>2 DEF StateShape, Runs, Ceremony
  <2>2. HandleSignCompleted(s, b, sid).state = SetSession(s, m, next)
    BY <1>2 DEF HandleSignCompleted, Ignored, Result
  <2>3. n = m => AfterCompletion(s.signing[n], b, sid) = next
    BY <1>2, <2>1, RunsExact DEF AfterCompletion
  <2>4. n # m => AfterCompletion(s.signing[n], b, sid) = s.signing[n]
    BY <1>2, RunsExact DEF AfterCompletion
  <2> HIDE DEF next, m
  <2> QED BY <2>1, <2>2, <2>3, <2>4, SetSessionState
<1> QED BY <1>1, <1>2

\* handle_sign_attested drops the session of its message.
LEMMA AttestedSession ==
    ASSUME NEW G, NEW P, NEW A, NEW s, StateOK(s, G, P, A), NEW sid, NEW m \in Messages,
           NEW n \in Messages
    PROVE  HandleSignAttested(s, sid, m).state.signing[n]
               = IF n = m THEN NoSession ELSE s.signing[n]
<1> DEFINE w == s.signing[m]
           dropped == SetSession(s, m, NoSession)
<1>1. HandleSignAttested(s, sid, m).state =
          IF w # NoSession /\ w.sid # NoId THEN Unlink(dropped, w.sid) ELSE dropped
  BY DEF HandleSignAttested, Ignored, Result
<1>2. StateShape(dropped) /\ dropped.signing[n] = IF n = m THEN NoSession ELSE s.signing[n]
  BY SetSessionState DEF StateOK
<1> HIDE DEF dropped
<1>3. w # NoSession /\ w.sid # NoId => w.sid \in CeremonyIds
  BY DEF StateOK, Session
<1> HIDE DEF w
<1>4. w # NoSession /\ w.sid # NoId => Unlink(dropped, w.sid).signing = dropped.signing
  BY <1>2, <1>3, UnlinkState
<1> QED BY <1>1, <1>2, <1>4

\* handle_signing_timeouts touches the sessions past their deadline.
LEMMA DeadlineSession ==
    ASSUME NEW s, NEW v, NEW b, NEW n \in Messages
    PROVE  HandleSigningTimeouts(s, v, b).state.signing[n] = AfterDeadline(v, n, s.signing[n], b)
  BY DEF HandleSigningTimeouts, Result, Expired, AfterDeadline

\* Whether a ceremony goes on after its deadline depends on the validator, how it
\* goes on does not.
LEMMA DeadlineAgrees ==
    ASSUME NEW u, NEW v, NEW m, NEW w, NEW b
    PROVE  \/ w.stage \notin Stages
           \/ Expire(u, m, w, b).session = NoSession
           \/ Expire(v, m, w, b).session = NoSession
           \/ Expire(u, m, w, b).session = Expire(v, m, w, b).session
<1>1. CASE w.stage = "WaitingForRequest"
  BY <1>1 DEF Expire, ExpireRequest, Dropped, Moves
<1>2. CASE w.stage = "WaitingForOracle"
  BY <1>2 DEF Expire, Dropped, Moves
<1>3. CASE w.stage = "CollectNonceCommitments"
  BY <1>3 DEF Expire, ExpireCommitments, Dropped, Moves
<1>4. CASE w.stage = "CollectSigningShares"
  BY <1>4 DEF Expire, ExpireShares, Dropped, Moves
<1>5. CASE w.stage = "WaitingForAttestation"
  BY <1>5 DEF Expire, ExpireAttestation, Moves
<1> QED BY <1>1, <1>2, <1>3, <1>4, <1>5 DEF Stages

\* handle_transaction_proposed touches the session of its message.
LEMMA ProposedSession ==
    ASSUME NEW s, StateShape(s), NEW b, NEW m \in Messages, NEW g, NEW members,
           NEW n \in Messages, n # m
    PROVE  HandleTransactionProposed(s, b, m, g, members).state.signing[n] = s.signing[n]
<1> DEFINE w == Request(g, FALSE, NoOne, members, b + SigningTimeout)
<1>1. HandleTransactionProposed(s, b, m, g, members).state \in {s, SetSession(s, m, w)}
  BY DEF HandleTransactionProposed, Ignored, Result
<1> HIDE DEF w
<1> QED BY <1>1, SetSessionState
=============================================================================

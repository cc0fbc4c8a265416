-------------------------- MODULE SessionRoutingProofs --------------------------
(***************************************************************************)
(* Proof that the replay routes every modification and deletion to the     *)
(* session created from the same recorded session (RoutedToOwnSession),    *)
(* for every recording in which the original CP SEIDs and the original     *)
(* UPF's SEIDs are different numbers.                                      *)
(*                                                                         *)
(* findSessionByOriginalRemoteSEID looks the header SEID up in the         *)
(* original-remote table, which handleSessionEstablishment fills from the  *)
(* pcap's mappings, and falls back to the original-CP table with the same  *)
(* key.  The first lookup finds the request's own session because the      *)
(* mappings are the recording's true (CP SEID, UP SEID) pairs and the      *)
(* original UPF gave distinct sessions distinct SEIDs.  The fallback, keyed *)
(* by a UP SEID, can only hit a CP SEID of the same value: when the two    *)
(* numberings are disjoint it finds nothing (the fallback_misjoin run      *)
(* shows the misrouting when they overlap).                                *)
(***************************************************************************)
EXTENDS SessionManagerProofs

(* The hypothesis on the recording: no original UP SEID is also an         *)
(* original CP SEID.                                                       *)
RecordedSEIDsDisjoint == OrigCPSEIDs \cap OrigUPSEIDs = {}

(* The original UPF gave distinct recorded sessions distinct SEIDs.        *)
TrueRemoteInjective ==
    \A a, b \in OrigCPSEIDs : a # b => trueRemote[a] # trueRemote[b]

(* The pcap parser's mappings are pairs it captured from the recording.   *)
MappingsCaptured ==
    \A c \in OrigCPSEIDs : originalSEIDMappings[c] \in {0, trueRemote[c]}

(* sessionsByOriginalCPSEID[k] is a session whose original CP SEID is k.   *)
CPTableOwn ==
    \A k \in AllOrig : byOriginalCPSEID[k] # NoSession =>
        sessions[byOriginalCPSEID[k]].origCP = k

(* sessionsByOriginalRemoteSEID[k] is a session of the recorded session   *)
(* that the original UPF numbered k.                                       *)
RemoteTableOwn ==
    \A k \in AllOrig : byOriginalRemoteSEID[k] # NoSession =>
        trueRemote[sessions[byOriginalRemoteSEID[k]].origCP] = k

(* The last modification or deletion sent names a session that exists.    *)
WireTarget ==
    wire.type \in {"SessionModificationRequest", "SessionDeletionRequest"} =>
        wire.target \in DOMAIN sessions

RoutingInv ==
    /\ TypeOK /\ TrueRemoteInjective /\ MappingsCaptured
    /\ CPTableOwn /\ RemoteTableOwn /\ WireTarget /\ RoutedToOwnSession

-----------------------------------------------------------------------------
(* findSessionByOriginalRemoteSEID, called with the original UPF's SEID of *)
(* recorded session s, returns nothing or a session created from s.        *)
LEMMA FindSessionOwn ==
    ASSUME RecordedSEIDsDisjoint, RoutingInv, NEW s \in OrigCPSEIDs,
           FindSession(trueRemote[s]) # NoSession
    PROVE  /\ FindSession(trueRemote[s]) \in DOMAIN sessions
           /\ sessions[FindSession(trueRemote[s])].origCP = s
<1> DEFINE h == trueRemote[s]
           i == FindSession(h)
<1>0. TypeOK
  BY DEF RoutingInv
<1>1. h \in OrigUPSEIDs /\ h \in AllOrig
  BY <1>0 DEF TypeOK, AllOrig
<1>2. i \in 1 .. Len(sessions) /\ DOMAIN sessions = 1 .. Len(sessions)
  BY <1>0, <1>1, FindSessionType DEF TypeOK, NoSession
<1>3. sessions[i].origCP \in OrigCPSEIDs
  <2>1. sessions[i] \in SessionRecords
    BY <1>0, <1>2 DEF TypeOK
  <2> QED BY <2>1 DEF SessionRecords
<1>4. CASE byOriginalRemoteSEID[h] # NoSession
  <2>1. i = byOriginalRemoteSEID[h]
    BY <1>4 DEF FindSession
  <2>2. trueRemote[sessions[i].origCP] = h
    BY <1>1, <1>4, <2>1 DEF RoutingInv, RemoteTableOwn
  <2> QED BY <1>2, <1>3, <2>2 DEF RoutingInv, TrueRemoteInjective
<1>5. CASE byOriginalRemoteSEID[h] = NoSession
  <2>1. i = byOriginalCPSEID[h] /\ byOriginalCPSEID[h] # NoSession
    BY <1>5 DEF FindSession
  <2>2. sessions[i].origCP = h
    BY <1>1, <2>1 DEF RoutingInv, CPTableOwn
  <2> QED BY <1>1, <1>3, <2>2 DEF RecordedSEIDsDisjoint
<1> QED BY <1>4, <1>5

(* A step that leaves the two original-SEID tables and the recording      *)
(* alone, keeps every session's original CP SEID, and sends no            *)
(* modification or deletion, or sends one to its own session, preserves   *)
(* the invariant.                                                          *)
LEMMA RoutingFrame ==
    ASSUME RoutingInv, TypeOK',
           UNCHANGED <<byOriginalCPSEID, byOriginalRemoteSEID,
                       originalSEIDMappings, trueRemote>>,
           DOMAIN sessions' = DOMAIN sessions,
           \A j \in DOMAIN sessions : sessions'[j].origCP = sessions[j].origCP,
           \/ wire' = wire
           \/ wire'.type \notin {"SessionModificationRequest",
                                 "SessionDeletionRequest"}
           \/ /\ wire'.target \in DOMAIN sessions
              /\ sessions[wire'.target].origCP = wire'.orig
    PROVE  RoutingInv'
<1>0. TypeOK
  BY DEF RoutingInv
<1>1. TrueRemoteInjective' /\ MappingsCaptured'
  BY DEF RoutingInv, TrueRemoteInjective, MappingsCaptured
<1>2. CPTableOwn'
  <2> SUFFICES ASSUME NEW k \in AllOrig, byOriginalCPSEID'[k] # NoSession
               PROVE  sessions'[byOriginalCPSEID'[k]].origCP = k
    BY DEF CPTableOwn
  <2>1. byOriginalCPSEID[k] \in DOMAIN sessions
    BY <1>0 DEF TypeOK, NoSession
  <2>2. sessions[byOriginalCPSEID[k]].origCP = k
    BY DEF RoutingInv, CPTableOwn
  <2> QED BY <2>1, <2>2
<1>3. RemoteTableOwn'
  BY <1>0 DEF RoutingInv, RemoteTableOwn, TypeOK, NoSession
<1>4. WireTarget' /\ RoutedToOwnSession'
  BY DEF RoutingInv, WireTarget, RoutedToOwnSession
<1> QED BY <1>1, <1>2, <1>3, <1>4 DEF RoutingInv

(* Marking a session deleted keeps every session's original CP SEID.      *)
LEMMA MarkDeletedOrig ==
    ASSUME NEW S \in Seq(SessionRecords), NEW i \in 1 .. Len(S)
    PROVE  /\ DOMAIN [S EXCEPT ![i].state = "deleted"] = DOMAIN S
           /\ \A j \in DOMAIN S :
                 [S EXCEPT ![i].state = "deleted"][j].origCP = S[j].origCP
BY DEF SessionRecords

(* handleSessionEstablishment stores the new session under its own CP SEID *)
(* and, when the pcap captured one, under its recorded session's original  *)
(* UP SEID.                                                                *)
LEMMA EstSentRouting ==
    ASSUME NEW s \in OrigCPSEIDs, RoutingInv, Replaying, EstSent(s)
    PROVE  RoutingInv'
<1>0. TypeOK /\ TypeOK'
  BY EstSentTypeOK DEF RoutingInv
<1>1. PICK o \in SA!AllocateOutcomes(seidAlloc), out \in EstOutcomes :
        EstSentStep(s, o, out)
  BY DEF EstSent, EstSentStep
<1> DEFINE i == Len(sessions) + 1
           r == originalSEIDMappings[s]
<1>2. /\ Len(sessions') = i /\ DOMAIN sessions' = 1 .. i
      /\ \A j \in 1 .. Len(sessions) : sessions'[j] = sessions[j]
      /\ sessions'[i].origCP = s
      /\ DOMAIN sessions = 1 .. Len(sessions)
  BY <1>0, <1>1 DEF EstSentStep, TypeOK
<1>3. /\ byOriginalCPSEID' = [byOriginalCPSEID EXCEPT ![s] = i]
      /\ byOriginalRemoteSEID' =
            IF r # 0 THEN [byOriginalRemoteSEID EXCEPT ![r] = i]
                     ELSE byOriginalRemoteSEID
      /\ wire'.type = "SessionEstablishmentRequest"
      /\ UNCHANGED <<originalSEIDMappings, trueRemote>>
  BY <1>1 DEF EstSentStep, Send
<1>4. TrueRemoteInjective' /\ MappingsCaptured'
  BY <1>3 DEF RoutingInv, TrueRemoteInjective, MappingsCaptured
<1>5. CPTableOwn'
  <2> SUFFICES ASSUME NEW k \in AllOrig, byOriginalCPSEID'[k] # NoSession
               PROVE  sessions'[byOriginalCPSEID'[k]].origCP = k
    BY DEF CPTableOwn
  <2>1. s \in AllOrig
    BY DEF AllOrig
  <2>2. CASE k = s
    BY <1>0, <1>2, <1>3, <2>1, <2>2 DEF TypeOK
  <2>3. CASE k # s
    <3>1. byOriginalCPSEID'[k] = byOriginalCPSEID[k]
      BY <1>3, <2>3
    <3>2. byOriginalCPSEID[k] \in 1 .. Len(sessions)
      BY <1>0, <3>1 DEF TypeOK, NoSession
    <3> QED BY <1>2, <3>1, <3>2 DEF RoutingInv, CPTableOwn
  <2> QED BY <2>2, <2>3
<1>6. RemoteTableOwn'
  <2> SUFFICES ASSUME NEW k \in AllOrig, byOriginalRemoteSEID'[k] # NoSession
               PROVE  trueRemote'[sessions'[byOriginalRemoteSEID'[k]].origCP] = k
    BY DEF RemoteTableOwn
  <2>1. CASE r # 0 /\ k = r
    <3>1. r = trueRemote[s]
      BY <2>1 DEF RoutingInv, MappingsCaptured
    <3>2. byOriginalRemoteSEID'[k] = i
      BY <1>0, <1>3, <2>1 DEF TypeOK
    <3> QED BY <1>2, <1>3, <2>1, <3>1, <3>2
  <2>2. CASE ~(r # 0 /\ k = r)
    <3>1. byOriginalRemoteSEID'[k] = byOriginalRemoteSEID[k]
      BY <1>3, <2>2
    <3>2. byOriginalRemoteSEID[k] \in 1 .. Len(sessions)
      BY <1>0, <3>1 DEF TypeOK, NoSession
    <3> QED BY <1>2, <1>3, <3>1, <3>2 DEF RoutingInv, RemoteTableOwn
  <2> QED BY <2>1, <2>2
<1>7. WireTarget' /\ RoutedToOwnSession'
  BY <1>3 DEF WireTarget, RoutedToOwnSession
<1> QED BY <1>0, <1>4, <1>5, <1>6, <1>7 DEF RoutingInv

(* handleSessionModification sends to the session the lookup found, which *)
(* is the request's own.                                                   *)
LEMMA ModSentRouting ==
    ASSUME RecordedSEIDsDisjoint, NEW s \in OrigCPSEIDs, RoutingInv,
           Replaying, ModSent(s)
    PROVE  RoutingInv'
<1> DEFINE i == FindSession(trueRemote[s])
<1>1. i \in DOMAIN sessions /\ sessions[i].origCP = s
  BY FindSessionOwn DEF ModSent
<1>2. wire'.target = i /\ wire'.orig = s
  BY DEF ModSent, Send
<1>3. TypeOK'
  BY ModSentTypeOK DEF RoutingInv
<1> QED BY <1>1, <1>2, <1>3, RoutingFrame DEF ModSent

(* The sessions after a deletion: the same ones, at most one marked        *)
(* deleted.                                                                *)
LEMMA DeletionKeepsOrig ==
    ASSUME TypeOK, NEW i \in DOMAIN sessions,
           \/ sessions' = [sessions EXCEPT ![i].state = "deleted"]
           \/ sessions' = sessions
    PROVE  /\ DOMAIN sessions' = DOMAIN sessions
           /\ \A j \in DOMAIN sessions : sessions'[j].origCP = sessions[j].origCP
<1>1. sessions \in Seq(SessionRecords) /\ i \in 1 .. Len(sessions)
  BY DEF TypeOK
<1>2. CASE sessions' = [sessions EXCEPT ![i].state = "deleted"]
  <2>1. /\ DOMAIN [sessions EXCEPT ![i].state = "deleted"] = DOMAIN sessions
        /\ \A j \in DOMAIN sessions :
              [sessions EXCEPT ![i].state = "deleted"][j].origCP = sessions[j].origCP
    BY <1>1, MarkDeletedOrig
  <2> QED BY <1>2, <2>1
<1>3. CASE sessions' = sessions
  BY <1>3
<1> QED BY <1>2, <1>3

(* handleSessionDeletion likewise; marking the session deleted keeps it in *)
(* the tables and keeps its original CP SEID.                              *)
LEMMA DelSentRouting ==
    ASSUME RecordedSEIDsDisjoint, NEW s \in OrigCPSEIDs, RoutingInv,
           Replaying, DelSent(s)
    PROVE  RoutingInv'
<1> DEFINE i == FindSession(trueRemote[s])
<1>1. i \in DOMAIN sessions /\ sessions[i].origCP = s
  BY FindSessionOwn DEF DelSent
<1>2. wire'.target = i /\ wire'.orig = s
  BY DEF DelSent, Send
<1>3. TypeOK'
  BY DelSentTypeOK DEF RoutingInv
<1>4. \/ sessions' = [sessions EXCEPT ![i].state = "deleted"]
      \/ sessions' = sessions
  BY DEF DelSent
<1>5. /\ DOMAIN sessions' = DOMAIN sessions
      /\ \A j \in DOMAIN sessions : sessions'[j].origCP = sessions[j].origCP
  <2> HIDE DEF i
  <2> QED BY <1>1, <1>4, DeletionKeepsOrig DEF RoutingInv
<1> QED BY <1>1, <1>2, <1>3, <1>5, RoutingFrame DEF DelSent

(* CleanupSessions sends each deletion to the session it snapshotted,     *)
(* with that session's own original CP SEID.                               *)
LEMMA CleanupDeleteRouting ==
    ASSUME NEW i \in cleanupQueue, RoutingInv, CleanupDelete(i)
    PROVE  RoutingInv'
<1>1. i \in DOMAIN sessions
  BY DEF RoutingInv, TypeOK
<1>2. wire'.target = i /\ wire'.orig = sessions[i].origCP
  BY DEF CleanupDelete, Send
<1>3. TypeOK'
  BY CleanupDeleteTypeOK DEF RoutingInv
<1>4. \/ sessions' = [sessions EXCEPT ![i].state = "deleted"]
      \/ sessions' = sessions
  BY DEF CleanupDelete
<1>5. /\ DOMAIN sessions' = DOMAIN sessions
      /\ \A j \in DOMAIN sessions : sessions'[j].origCP = sessions[j].origCP
  BY <1>1, <1>4, DeletionKeepsOrig DEF RoutingInv
<1> QED BY <1>1, <1>2, <1>3, <1>5, RoutingFrame DEF CleanupDelete

(* A step that changes neither the sessions nor the tables, and sends at  *)
(* most an association, a heartbeat or nothing.                           *)
LEMMA QuietStepRouting ==
    ASSUME RoutingInv, TypeOK',
           UNCHANGED <<sessions, byOriginalCPSEID, byOriginalRemoteSEID,
                       originalSEIDMappings, trueRemote>>,
           \/ wire' = wire
           \/ wire'.type \in {"AssociationSetupRequest", "HeartbeatRequest"}
    PROVE  RoutingInv'
BY RoutingFrame

LEMMA NextRouting ==
    ASSUME RecordedSEIDsDisjoint, RoutingInv, [Next]_vars
    PROVE  RoutingInv'
<1>0. TypeOK
  BY DEF RoutingInv
<1>1. CASE \E m \in RecordedMessages : ProcessMessage(m)
  <2>1. PICK m \in RecordedMessages : ProcessMessage(m)
    BY <1>1
  <2>2. Replaying
    BY <2>1 DEF ProcessMessage
  <2>3. CASE m.type = "AssociationSetupRequest"
    <3>1. CASE AssociationSkipped
      BY <3>1, <1>0, AssociationSkippedTypeOK, QuietStepRouting
         DEF AssociationSkipped
    <3>2. CASE AssociationSent
      BY <3>2, <1>0, AssociationSentTypeOK, QuietStepRouting
         DEF AssociationSent, Send
    <3> QED BY <2>1, <2>3, <3>1, <3>2 DEF ProcessMessage
  <2>4. CASE m.type = "HeartbeatRequest"
    BY <2>1, <2>4, <1>0, HeartbeatSentTypeOK, QuietStepRouting
       DEF ProcessMessage, HeartbeatSent, Send
  <2>5. CASE m.type = "Other"
    BY <2>1, <2>5, <1>0, UnsupportedSkippedTypeOK, QuietStepRouting
       DEF ProcessMessage, UnsupportedSkipped
  <2>6. CASE m.type \in {"SessionEstablishmentRequest", "SessionModificationRequest",
                         "SessionDeletionRequest"}
    <3>1. m.sess \in OrigCPSEIDs
      BY <2>6 DEF RecordedMessages
    <3>2. CASE m.type = "SessionEstablishmentRequest"
      <4>1. HandleSessionEstablishment(m.sess)
        BY <2>1, <3>2 DEF ProcessMessage
      <4>2. CASE EstSEIDExhausted(m.sess)
        BY <2>2, <3>1, <4>2, <1>0, EstSEIDExhaustedTypeOK, QuietStepRouting
           DEF EstSEIDExhausted
      <4>3. CASE EstPoolExhausted(m.sess)
        BY <2>2, <3>1, <4>3, <1>0, EstPoolExhaustedTypeOK, QuietStepRouting
           DEF EstPoolExhausted
      <4>4. CASE EstSent(m.sess)
        BY <2>2, <3>1, <4>4, EstSentRouting
      <4> QED BY <4>1, <4>2, <4>3, <4>4 DEF HandleSessionEstablishment
    <3>3. CASE m.type = "SessionModificationRequest"
      <4>0. HandleSessionModification(m.sess)
        BY <2>1, <3>3 DEF ProcessMessage
      <4>1. CASE Unresolved(m.sess)
        BY <2>2, <3>1, <4>1, <1>0, UnresolvedTypeOK, QuietStepRouting
           DEF Unresolved
      <4>2. CASE ModSent(m.sess)
        BY <2>2, <3>1, <4>2, ModSentRouting
      <4> QED BY <4>0, <4>1, <4>2 DEF HandleSessionModification
    <3>4. CASE m.type = "SessionDeletionRequest"
      <4>0. HandleSessionDeletion(m.sess)
        BY <2>1, <3>4 DEF ProcessMessage
      <4>1. CASE Unresolved(m.sess)
        BY <2>2, <3>1, <4>1, <1>0, UnresolvedTypeOK, QuietStepRouting
           DEF Unresolved
      <4>2. CASE DelSent(m.sess)
        BY <2>2, <3>1, <4>2, DelSentRouting
      <4> QED BY <4>0, <4>1, <4>2 DEF HandleSessionDeletion
    <3> QED BY <2>6, <3>2, <3>3, <3>4
  <2>7. m.type \in {"AssociationSetupRequest", "HeartbeatRequest", "Other",
                    "SessionEstablishmentRequest", "SessionModificationRequest",
                    "SessionDeletionRequest"}
    BY DEF RecordedMessages
  <2> QED BY <2>3, <2>4, <2>5, <2>6, <2>7
<1>2. CASE Cancel
  BY <1>2, <1>0, CancelTypeOK, QuietStepRouting DEF Cancel
<1>3. CASE EndReplay
  BY <1>3, <1>0, EndReplayTypeOK, QuietStepRouting DEF EndReplay
<1>4. CASE \E i \in cleanupQueue : CleanupDelete(i)
  BY <1>4, CleanupDeleteRouting
<1>5. CASE CleanupEnd
  BY <1>5, <1>0, CleanupEndTypeOK, QuietStepRouting DEF CleanupEnd
<1>6. CASE UNCHANGED vars
  BY <1>6, <1>0, QuietStepRouting DEF vars, TypeOK
<1> QED BY <1>1, <1>2, <1>3, <1>4, <1>5, <1>6 DEF Next

LEMMA InitRouting == Init => RoutingInv
<1> SUFFICES ASSUME Init PROVE RoutingInv
  OBVIOUS
<1>1. TypeOK
  BY InitTypeOK
<1>2. TrueRemoteInjective /\ MappingsCaptured
  BY DEF Init, TrueRemoteInjective, MappingsCaptured
<1>3. CPTableOwn /\ RemoteTableOwn
  BY DEF Init, CPTableOwn, RemoteTableOwn
<1>4. WireTarget /\ RoutedToOwnSession
  BY DEF Init, WireTarget, RoutedToOwnSession
<1> QED BY <1>1, <1>2, <1>3, <1>4 DEF RoutingInv

(* When no original UP SEID of the recording is also an original CP SEID, *)
(* every modification and deletion the replay and CleanupSessions send    *)
(* goes to the session created from the recorded request's own session:   *)
(* the three-way SEID mapping of handleSessionEstablishment and the        *)
(* fallback of findSessionByOriginalRemoteSEID never redirect a request,  *)
(* for every recording, SEID width and pool.                               *)
THEOREM RoutedToOwnSessionHolds ==
    ASSUME RecordedSEIDsDisjoint
    PROVE  Spec => []RoutedToOwnSession
<1>1. Init => RoutingInv
  BY InitRouting
<1>2. RoutingInv /\ [Next]_vars => RoutingInv'
  BY NextRouting
<1>3. RoutingInv => RoutedToOwnSession
  BY DEF RoutingInv
<1> QED BY <1>1, <1>2, <1>3, PTL DEF Spec

==============================================================================

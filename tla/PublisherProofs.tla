-------------------------- MODULE PublisherProofs --------------------------
(* Theorems about BrokerConnection and about Publisher over it, for any      *)
(* number of publications, attempts and faults.                              *)
EXTENDS Publisher, TLAPS

\* open() is under way, or about to be tried again.
Opening == {"dial", "declare", "flag", "confirm", "install", "pause"}

\* Only the connection in use and the one being opened can be open.
OpenLinksAreKnown == \A i \in Dials : link[i] = "open" => i \in {current, fresh}

\* What the steps of the two goroutines say about each other.
GoroutinesAgree ==
    /\ closed <=> main \in {"stopping", "returned"}
    /\ confirms <=> main \notin {"connecting", "gaveUp", "connected"}
    /\ main = "connecting" => keeper \in Opening
    /\ main = "gaveUp" => keeper = "done"
    /\ keeper = "done" => main \in {"gaveUp", "stopping", "returned"}
    /\ keeper = "waiting" => watched = current
    /\ main = "stopping" => doomed = current
    /\ main = "returned" => keeper = "done" /\ link[current] = "closed"

\* The keeper opens a connection only while there is none that works.
OpeningReplaces ==
    /\ current # None => link[current] # "unused"
    /\ fresh # None => link[fresh] # "unused" /\ fresh # current
    /\ current # None /\ keeper \in Opening => link[current] = "closed"

\* A channel opened before the confirms were asked for is not installed once
\* they are promised.
NoPlainInstall ==
    keeper = "install" /\ main = "running" /\ Usable(fresh) => channel[fresh] = "confirm"

IInv ==
    /\ ConnectionTypeOK
    /\ OpenLinksAreKnown
    /\ GoroutinesAgree
    /\ OpeningReplaces
    /\ NoPlainInstall
    /\ WorkingChannelConfirms

\* The initial state.
LEMMA InvInit == Init => IInv
<1> SUFFICES ASSUME Init PROVE IInv
  OBVIOUS
<1>1. ConnectionTypeOK
  <2>1. link \in [Dials -> {"unused", "open", "closed"}]
    BY DEF Init
  <2>2. channel \in [Dials -> {"none", "plain", "confirm", "closed"}]
    BY DEF Init
  <2>3. attempt \in 1..ConnectAttempts /\ faults \in 0..MaxFaults
    BY AttemptsAssumption, ConnectionBoundsAssumption DEF Init
  <2>4. QED
    BY <2>1, <2>2, <2>3 DEF Init, ConnectionTypeOK, KeeperSteps, MainSteps
<1>2. OpenLinksAreKnown /\ NoPlainInstall /\ WorkingChannelConfirms
  BY DEF Init, OpenLinksAreKnown, NoPlainInstall, WorkingChannelConfirms
<1>3. GoroutinesAgree /\ OpeningReplaces
  BY DEF Init, GoroutinesAgree, OpeningReplaces, Opening, None
<1>4. QED
  BY <1>1, <1>2, <1>3 DEF IInv

\* A step of open() keeps the invariant.
LEMMA OpenKeepsInv ==
    ASSUME IInv, Open
    PROVE  IInv'
<1> USE AttemptsAssumption, ConnectionBoundsAssumption
<1> USE DEF IInv, ConnectionTypeOK, OpenLinksAreKnown, GoroutinesAgree, OpeningReplaces,
            NoPlainInstall, WorkingChannelConfirms, Opening, Usable, KeeperSteps, MainSteps,
            Dials, None, Keep, Fault, Locked, CloseFresh
<1>1. CASE Dial
  BY <1>1 DEF Dial
<1>2. CASE DialFails
  BY <1>2 DEF DialFails
<1>3. CASE Declare
  BY <1>3 DEF Declare
<1>4. CASE ReadConfirms
  BY <1>4 DEF ReadConfirms
<1>5. CASE Confirm
  BY <1>5 DEF Confirm
<1>6. CASE OpenFails
  BY <1>6 DEF OpenFails
<1>7. QED
  BY <1>1, <1>2, <1>3, <1>4, <1>5, <1>6 DEF Open

\* So does any other step of the keeper.
LEMMA KeeperKeepsInv ==
    ASSUME IInv, Keeper, ~Open
    PROVE  IInv'
<1> USE AttemptsAssumption, ConnectionBoundsAssumption
<1> USE DEF IInv, ConnectionTypeOK, OpenLinksAreKnown, GoroutinesAgree, OpeningReplaces,
            NoPlainInstall, WorkingChannelConfirms, Opening, Usable, KeeperSteps, MainSteps,
            Dials, None, Keep, Fault, Locked, CloseFresh
<1>1. CASE Connected
  BY <1>1 DEF Connected
<1>2. CASE ConnectAgain
  BY <1>2 DEF ConnectAgain
<1>3. CASE Watch
  BY <1>3 DEF Watch
<1>4. CASE Broken
  BY <1>4 DEF Broken
<1>5. CASE Stopped
  BY <1>5 DEF Stopped
<1>6. CASE ReconnectAgain
  BY <1>6 DEF ReconnectAgain
<1>7. CASE Install
  BY <1>7 DEF Install
<1>8. CASE Discard
  BY <1>8 DEF Discard
<1>9. QED
  BY <1>1, <1>2, <1>3, <1>4, <1>5, <1>6, <1>7, <1>8 DEF Keeper

\* So does a step of the main goroutine.
LEMMA MainKeepsInv ==
    ASSUME IInv, Main \/ Close \/ ConnectGivesUp
    PROVE  IInv'
<1> USE AttemptsAssumption, ConnectionBoundsAssumption
<1> USE DEF IInv, ConnectionTypeOK, OpenLinksAreKnown, GoroutinesAgree, OpeningReplaces,
            NoPlainInstall, WorkingChannelConfirms, Opening, Usable, KeeperSteps, MainSteps,
            Dials, None, Keep, Fault, Locked, CloseFresh
<1>1. CASE EnableConfirms
  BY <1>1 DEF EnableConfirms
<1>2. CASE ConfirmsEnabled
  BY <1>2 DEF ConfirmsEnabled
<1>3. CASE ConfirmsRefused
  BY <1>3 DEF ConfirmsRefused
<1>4. CASE FinishClose
  BY <1>4 DEF FinishClose
<1>5. CASE Close
  BY <1>5 DEF Close
<1>6. CASE ConnectGivesUp
  BY <1>6 DEF ConnectGivesUp
<1>7. QED
  BY <1>1, <1>2, <1>3, <1>4, <1>5, <1>6 DEF Main

\* So does a connection or a channel that breaks.
LEMMA FaultKeepsInv ==
    ASSUME IInv, NEW i \in Dials, LinkBreaks(i) \/ ChannelBreaks(i)
    PROVE  IInv'
<1> USE AttemptsAssumption, ConnectionBoundsAssumption
<1> USE DEF IInv, ConnectionTypeOK, OpenLinksAreKnown, GoroutinesAgree, OpeningReplaces,
            NoPlainInstall, WorkingChannelConfirms, Opening, Usable, KeeperSteps, MainSteps,
            Dials, None, Keep, Fault, Locked, CloseFresh
<1>1. CASE LinkBreaks(i)
  BY <1>1 DEF LinkBreaks
<1>2. CASE ChannelBreaks(i)
  BY <1>2 DEF ChannelBreaks
<1>3. QED
  BY <1>1, <1>2

\* A step that changes nothing keeps the invariant.
LEMMA StutterKeepsInv == IInv /\ UNCHANGED connection => IInv'
BY DEF connection, IInv, ConnectionTypeOK, OpenLinksAreKnown, GoroutinesAgree,
       OpeningReplaces, NoPlainInstall, WorkingChannelConfirms, Usable

\* The invariant holds in every reachable state.
LEMMA Invariance == ConnectionSpec => []IInv
<1>1. IInv /\ [ConnectionNext]_connection => IInv'
  BY OpenKeepsInv, KeeperKeepsInv, MainKeepsInv, FaultKeepsInv, StutterKeepsInv
     DEF ConnectionNext
<1>2. QED
  BY <1>1, InvInit, PTL DEF ConnectionSpec

\* Every variable of the connection stays in its domain, and the keeper has a
\* connection exactly in the steps that work on one.
THEOREM ConnectionTypeCorrect == ConnectionSpec => []ConnectionTypeOK
BY Invariance, PTL DEF IInv

\* When Connect has given up or Close has returned, every connection that was
\* ever dialled is closed: the keeper had ended, the only connection it could
\* still have had in hand was closed with it, and Close took the current one.
THEOREM NothingLeaks == ConnectionSpec => []NoConnectionLeaks
<1>1. IInv => NoConnectionLeaks
  <2>1. SUFFICES ASSUME IInv, main \in {"gaveUp", "returned"}, NEW i \in Dials, link[i] = "open"
                 PROVE  FALSE
    BY DEF NoConnectionLeaks
  <2>2. keeper = "done"
    BY <2>1 DEF IInv, GoroutinesAgree
  <2>3. i = current
    BY <2>1, <2>2 DEF IInv, OpenLinksAreKnown, ConnectionTypeOK, Dials, None
  <2>4. main = "returned"
    BY <2>1, <2>3, ConnectionBoundsAssumption DEF IInv, ConnectionTypeOK, Dials, None
  <2>5. QED
    BY <2>1, <2>3, <2>4 DEF IInv, GoroutinesAgree
<1>2. QED
  BY <1>1, Invariance, PTL

\* A process that runs never publishes on a working channel without confirms,
\* although open reads the flag, releases the lock and installs later: a
\* connection opened before the flag was set replaces one that is closed, on
\* which enableConfirms cannot have succeeded.
THEOREM ChannelsConfirm == ConnectionSpec => []WorkingChannelConfirms
BY Invariance, PTL DEF IInv

----------------------------------------------------------------------------
\* Publications over the connection.

\* Before its message is written.
Unwritten == {"idle", "locking", "fetch", "write"}

\* Publications are made by a process that has come as far as running.
PublishingAsksForConfirms ==
    \A e \in Events : step[e] # "idle" =>
        /\ main \in {"running", "stopping", "returned"}
        /\ Usable(current) => channel[current] = "confirm"

\* The channel a publication has fetched was current once, so it is not the one that
\* is being opened; and as long as it works it is in confirm mode.
FetchedChannelsConfirm ==
    \A e \in Events :
        /\ via[e] # None => link[via[e]] # "unused" /\ via[e] # fresh
        /\ step[e] = "write" /\ Usable(via[e]) => channel[via[e]] = "confirm"

MessagesAgree ==
    \A e \in Events :
        /\ step[e] \in Unwritten => e \notin inFlight \cup stored
        /\ step[e] = "ok" => e \in stored
        /\ step[e] # "unconfirmed"

PublisherInv ==
    /\ IInv
    /\ PublisherTypeOK
    /\ PublishingAsksForConfirms
    /\ FetchedChannelsConfirm
    /\ MessagesAgree

LEMMA PublisherInitially == PublisherInit => PublisherInv
<1> SUFFICES ASSUME PublisherInit PROVE PublisherInv
  OBVIOUS
<1>1. IInv
  BY InvInit DEF PublisherInit
<1>2. PublisherTypeOK
  BY <1>1, NoEventAssumption DEF IInv, PublisherInit, PublisherTypeOK, Inside
<1>3. PublishingAsksForConfirms /\ FetchedChannelsConfirm /\ MessagesAgree
  BY DEF PublisherInit, PublishingAsksForConfirms, FetchedChannelsConfirm, MessagesAgree
<1> QED
  BY <1>1, <1>2, <1>3 DEF PublisherInv

----------------------------------------------------------------------------
\* Steps of the connection.

LEMMA ConnectionKeepsInv == IInv /\ ConnectionNext => IInv'
BY OpenKeepsInv, KeeperKeepsInv, MainKeepsInv, FaultKeepsInv DEF ConnectionNext

\* The connection a publication may use is replaced only by one in confirm mode, and
\* the one it has fetched is never opened again.
LEMMA ChannelsStayConfirmed ==
    ASSUME PublisherInv, ConnectionNext, NEW e \in Events, step[e] # "idle"
    PROVE  /\ main' \in {"running", "stopping", "returned"}
           /\ Usable(current)' => channel'[current'] = "confirm"
<1>1. main \in {"running", "stopping", "returned"} /\ (Usable(current) => channel[current] = "confirm")
  BY DEF PublisherInv, PublishingAsksForConfirms
<1>2. ConnectionTypeOK /\ GoroutinesAgree /\ OpeningReplaces /\ NoPlainInstall
  BY DEF PublisherInv, IInv
<1> USE <1>1, <1>2 DEF ConnectionTypeOK, Usable, Dials, None, Keep
<1>3. CASE Open
  BY <1>3 DEF Open, Dial, DialFails, Declare, ReadConfirms, Confirm, OpenFails, CloseFresh,
        OpeningReplaces
<1>4. CASE Install
  BY <1>4 DEF Install, NoPlainInstall, GoroutinesAgree
<1>5. CASE Discard \/ Connected \/ ConnectAgain \/ Watch \/ Broken \/ Stopped \/ ReconnectAgain
  BY <1>5 DEF Discard, Connected, ConnectAgain, Watch, Broken, Stopped, ReconnectAgain, CloseFresh
<1>6. CASE ConnectGivesUp \/ Main \/ Close
  BY <1>6 DEF ConnectGivesUp, Main, EnableConfirms, ConfirmsEnabled, ConfirmsRefused, FinishClose, Close
<1>7. CASE \E i \in Dials : LinkBreaks(i) \/ ChannelBreaks(i)
  BY <1>7 DEF LinkBreaks, ChannelBreaks
<1> QED
  BY <1>3, <1>4, <1>5, <1>6, <1>7 DEF ConnectionNext, Keeper

LEMMA FetchedStaysConfirmed ==
    ASSUME PublisherInv, ConnectionNext, NEW i \in Dials, link[i] # "unused", i # fresh
    PROVE  /\ link'[i] # "unused" /\ i # fresh'
           /\ channel[i] = "confirm" \/ ~Usable(i) => channel'[i] = "confirm" \/ ~Usable(i)'
<1>1. ConnectionTypeOK /\ GoroutinesAgree /\ OpeningReplaces
  BY DEF PublisherInv, IInv
<1> USE <1>1 DEF ConnectionTypeOK, Usable, Dials, None, Keep
<1>2. CASE Dial
  BY <1>2 DEF Dial
<1>3. CASE Declare \/ Confirm
  BY <1>3 DEF Declare, Confirm
<1>4. CASE OpenFails \/ Discard
  BY <1>4, ConnectionBoundsAssumption DEF OpenFails, Discard, CloseFresh
<1>5. CASE Connected \/ Install
  BY <1>5, ConnectionBoundsAssumption DEF Connected, Install
<1>6. CASE DialFails \/ ReadConfirms \/ ConnectAgain \/ Watch \/ Broken \/ Stopped \/ ReconnectAgain
  BY <1>6 DEF DialFails, ReadConfirms, ConnectAgain, Watch, Broken, Stopped, ReconnectAgain
<1>7. CASE ConnectGivesUp \/ Main \/ Close
  BY <1>7 DEF ConnectGivesUp, Main, EnableConfirms, ConfirmsEnabled, ConfirmsRefused, FinishClose, Close
<1>8. CASE \E j \in Dials : LinkBreaks(j) \/ ChannelBreaks(j)
  BY <1>8 DEF LinkBreaks, ChannelBreaks
<1> QED
  BY <1>2, <1>3, <1>4, <1>5, <1>6, <1>7, <1>8 DEF ConnectionNext, Keeper, Open

LEMMA ConnectionStepIsSound ==
    ASSUME PublisherInv, ConnectionNext, UNCHANGED publications
    PROVE  PublisherInv'
<1>0. step' = step /\ via' = via /\ mutex' = mutex /\ inFlight' = inFlight /\ stored' = stored
  BY DEF publications
<1>1. IInv'
  BY ConnectionKeepsInv DEF PublisherInv
<1>2. PublisherTypeOK'
  BY <1>0, <1>1 DEF PublisherInv, IInv, PublisherTypeOK, Dials
<1>3. PublishingAsksForConfirms'
  BY <1>0, ChannelsStayConfirmed DEF PublishingAsksForConfirms
<1>4. FetchedChannelsConfirm'
  <2> SUFFICES ASSUME NEW e \in Events
               PROVE  /\ via[e] # None => link'[via[e]] # "unused" /\ via[e] # fresh'
                      /\ step[e] = "write" /\ Usable(via[e])' => channel'[via[e]] = "confirm"
    BY <1>0 DEF FetchedChannelsConfirm, Usable
  <2>1. via[e] \in Dials \cup {None}
    BY DEF PublisherInv, PublisherTypeOK
  <2>2. CASE via[e] = None
    BY <1>0, <2>2 DEF Usable, Dials, None
  <2>3. CASE via[e] # None
    <3>1. link[via[e]] # "unused" /\ via[e] # fresh /\ via[e] \in Dials
      BY <2>1, <2>3 DEF PublisherInv, FetchedChannelsConfirm
    <3>2. /\ link'[via[e]] # "unused" /\ via[e] # fresh'
          /\ channel[via[e]] = "confirm" \/ ~Usable(via[e])
             => channel'[via[e]] = "confirm" \/ ~(via[e] \in Dials /\ link'[via[e]] = "open"
                                                  /\ channel'[via[e]] \in {"plain", "confirm"})
      BY <3>1, FetchedStaysConfirmed DEF Usable
    <3>3. step[e] = "write" => channel[via[e]] = "confirm" \/ ~Usable(via[e])
      BY DEF PublisherInv, FetchedChannelsConfirm
    <3> QED
      BY <1>0, <3>2, <3>3 DEF Usable
  <2> QED
    BY <2>2, <2>3
<1>5. MessagesAgree'
  BY <1>0 DEF PublisherInv, MessagesAgree
<1> QED
  BY <1>1, <1>2, <1>3, <1>4, <1>5 DEF PublisherInv

----------------------------------------------------------------------------
\* Steps of a publication.

LEMMA PublicationStepIsSound ==
    ASSUME PublisherInv, NEW e \in Events, Call(e) \/ Publish(e) \/ Store(e), UNCHANGED connection
    PROVE  PublisherInv'
<1>0. /\ IInv /\ PublisherTypeOK /\ PublishingAsksForConfirms /\ FetchedChannelsConfirm
      /\ MessagesAgree /\ WorkingChannelConfirms /\ GoroutinesAgree /\ OpeningReplaces
      /\ ConnectionTypeOK /\ NoEvent \notin Events
  BY NoEventAssumption DEF PublisherInv, IInv
<1>1. IInv'
  BY <1>0, StutterKeepsInv
<1>c. /\ link' = link /\ channel' = channel /\ current' = current /\ fresh' = fresh /\ main' = main
      /\ \A i : Usable(i)' = Usable(i)
  BY DEF connection, Usable
<1> USE DEF PublisherTypeOK, Inside, Move
<1>2. CASE Call(e)
  <2>1. PublisherTypeOK'
    BY <1>0, <1>1, <1>2 DEF Call, IInv, Dials
  <2>2. PublishingAsksForConfirms'
    BY <1>0, <1>2, <1>c DEF Call, PublishingAsksForConfirms, WorkingChannelConfirms
  <2>3. FetchedChannelsConfirm' /\ MessagesAgree'
    BY <1>0, <1>2, <1>c DEF Call, FetchedChannelsConfirm, MessagesAgree, Unwritten
  <2> QED
    BY <1>1, <2>1, <2>2, <2>3 DEF PublisherInv
<1>3. CASE Acquire(e)
  <2>1. PublisherTypeOK'
    BY <1>0, <1>1, <1>3 DEF Acquire, IInv, Dials
  <2>2. PublishingAsksForConfirms' /\ FetchedChannelsConfirm' /\ MessagesAgree'
    BY <1>0, <1>3, <1>c DEF Acquire, PublishingAsksForConfirms, FetchedChannelsConfirm, MessagesAgree,
          Unwritten
  <2> QED
    BY <1>1, <2>1, <2>2 DEF PublisherInv
<1>4. CASE Fetch(e)
  <2>1. PublisherTypeOK'
    BY <1>0, <1>1, <1>4 DEF Fetch, IInv, ConnectionTypeOK, Dials
  <2>2. PublishingAsksForConfirms' /\ MessagesAgree'
    BY <1>0, <1>4, <1>c DEF Fetch, PublishingAsksForConfirms, MessagesAgree, Unwritten
  <2>3. /\ current # None => link[current] # "unused" /\ current # fresh
        /\ Usable(current) => channel[current] = "confirm"
    BY <1>0, <1>4 DEF Fetch, OpeningReplaces, PublishingAsksForConfirms, ConnectionTypeOK
  <2>4. FetchedChannelsConfirm'
    BY <1>0, <1>4, <1>c, <2>3 DEF Fetch, FetchedChannelsConfirm
  <2> QED
    BY <1>1, <2>1, <2>2, <2>4 DEF PublisherInv
<1>5. CASE Write(e)
  <2>1. channel[via[e]] = "confirm" /\ step[e] = "write" /\ e \notin inFlight \cup stored
    BY <1>0, <1>5 DEF Write, FetchedChannelsConfirm, MessagesAgree, Unwritten
  <2>2. /\ step' = [step EXCEPT ![e] = "await"] /\ UNCHANGED <<mutex, via, stored>>
        /\ inFlight' = inFlight \cup {e}
    BY <1>5, <2>1 DEF Write
  <2>3. PublisherTypeOK'
    BY <1>0, <1>1, <2>1, <2>2 DEF IInv, Dials
  <2>4. PublishingAsksForConfirms' /\ FetchedChannelsConfirm' /\ MessagesAgree'
    BY <1>0, <1>c, <2>1, <2>2 DEF PublishingAsksForConfirms, FetchedChannelsConfirm, MessagesAgree,
          Unwritten
  <2> QED
    BY <1>1, <2>3, <2>4 DEF PublisherInv
<1>6. CASE WriteFails(e) \/ Confirmed(e) \/ AwaitFails(e)
  <2>1. PICK to \in {"ok", "failed"} :
          /\ step' = [step EXCEPT ![e] = to] /\ step[e] \in {"write", "await"}
          /\ to = "ok" => e \in stored
          /\ mutex' = NoEvent /\ UNCHANGED <<via, inFlight, stored>>
    BY <1>6 DEF WriteFails, Confirmed, AwaitFails
  <2>2. PublisherTypeOK'
    BY <1>0, <1>1, <2>1 DEF IInv, Dials
  <2>3. PublishingAsksForConfirms' /\ FetchedChannelsConfirm' /\ MessagesAgree'
    BY <1>0, <1>c, <2>1 DEF PublishingAsksForConfirms, FetchedChannelsConfirm, MessagesAgree, Unwritten
  <2> QED
    BY <1>1, <2>2, <2>3 DEF PublisherInv
<1>7. CASE Store(e)
  <2>1. PublisherTypeOK'
    BY <1>0, <1>1, <1>7 DEF Store, IInv, Dials
  <2>2. PublishingAsksForConfirms' /\ FetchedChannelsConfirm' /\ MessagesAgree'
    BY <1>0, <1>7, <1>c DEF Store, PublishingAsksForConfirms, FetchedChannelsConfirm, MessagesAgree
  <2> QED
    BY <1>1, <2>1, <2>2 DEF PublisherInv
<1> QED
  BY <1>2, <1>3, <1>4, <1>5, <1>6, <1>7 DEF Publish

LEMMA PublisherStays == PublisherInv /\ [PublisherNext]_allVars => PublisherInv'
<1>1. ASSUME PublisherInv, UNCHANGED allVars PROVE PublisherInv'
  <2>1. IInv'
    BY <1>1, StutterKeepsInv DEF PublisherInv, allVars
  <2> QED
    BY <1>1, <2>1 DEF PublisherInv, allVars, connection, publications, PublisherTypeOK, IInv, Dials,
       PublishingAsksForConfirms, FetchedChannelsConfirm, MessagesAgree, Usable
<1> QED
  BY <1>1, ConnectionStepIsSound, PublicationStepIsSound DEF PublisherNext

----------------------------------------------------------------------------
\* Theorems.

LEMMA PublisherInvariance == PublisherSpec => []PublisherInv
BY PublisherInitially, PublisherStays, PTL DEF PublisherSpec

\* Every variable stays in its domain, and the mutex belongs to the goroutine that
\* uses the channel.
THEOREM PublisherTypeCorrect == PublisherSpec => []PublisherTypeOK
<1>1. PublisherInv => PublisherTypeOK
  BY DEF PublisherInv
<1> QED
  BY <1>1, PublisherInvariance, PTL

\* Whatever breaks, is replaced or is closed meanwhile, a publication reported as
\* successful is in the broker, and none fails for want of confirm mode.
THEOREM SuccessIsStored == PublisherSpec => []ReportedIsStored
<1>1. PublisherInv => ReportedIsStored
  BY DEF PublisherInv, MessagesAgree, ReportedIsStored
<1> QED
  BY <1>1, PublisherInvariance, PTL
=============================================================================

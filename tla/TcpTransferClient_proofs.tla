---------------------- MODULE TcpTransferClient_proofs ----------------------
(***************************************************************************)
(* The sender keeps its invariant, and lets no completion be called twice, *)
(* for any number of sends, contents, chunk sizes and answers of a peer.   *)
(* What a handler does is a function on the pair of client and manager, so *)
(* the lemmas are about those functions: whatever fails or ends a transfer *)
(* leaves a pair that is over.                                             *)
(***************************************************************************)
EXTENDS TcpTransferClient, SequenceTheorems, TLAPS

Codes == {"Ok"} \cup Failures
Pair == [client : Client, active : BOOLEAN, outcome : [Sends -> {"none", "pending"} \cup Codes]]

\* OneCompletionOwed of a pair.
Owes(x) ==
    /\ x.active <=> sends > 0 /\ x.outcome[sends] = "pending"
    /\ \A k \in Sends : x.outcome[k] = "none" <=> k > sends
    /\ \A k \in Sends : x.outcome[k] = "pending" => k = sends

\* A manager that waits for nothing has a client that does nothing.
Rests(x) == ~x.client.file /\ x.client.state \notin Active

Sane(x) ==
    /\ x \in Pair
    /\ Owes(x)
    /\ ~x.active => Rests(x)
    /\ x.active => x.client.state \notin Ended

Over(x) == x \in Pair /\ Owes(x) /\ ~x.active /\ Rests(x)

\* Nothing that was called is called again.
Keeps(x, y) == \A k \in Sends : x.outcome[k] \notin {"none", "pending"} => y.outcome[k] = x.outcome[k]

LEMMA NowIsSane == ASSUME IInv PROVE Sane(Now)
<1>1. Now \in Pair
  BY DEF IInv, TypeOK, Now, Pair, Codes
<1>2. Owes(Now)
  BY DEF IInv, OneCompletionOwed, Now, Owes
<1>3. ~outgoing_active => Rests(Now)
  BY DEF IInv, FileIsClosed, OfferIsOpen, Now, Rests
<1>4. outgoing_active => client.state \notin Ended
  BY DEF IInv, OutgoingIsAlive, Ended, Active
<1> QED BY <1>1, <1>2, <1>3, <1>4 DEF Sane, Now

LEMMA ForgottenType ==
  ASSUME NEW c \in Client
  PROVE  Forgotten(c) \in Client /\ ~Forgotten(c).file /\ Forgotten(c).transfer_id = 0
<1>1. 0 \in 0..MaxSends
  BY SendAssumption
<1> QED BY <1>1 DEF Forgotten, Client

LEMMA LeavingType ==
  ASSUME NEW c \in Client
  PROVE  Leaving(c.link) \in {"connecting", "cancelled", "up", "closing", "down"}
  BY DEF Client, Leaving

\* Disconnecting forgets the transfer.
LEMMA DisconnectRests ==
  ASSUME NEW c \in Client
  PROVE  /\ DisconnectFromHost(c) \in Client
         /\ ~DisconnectFromHost(c).file
         /\ DisconnectFromHost(c).state = "Idle"
<1> DEFINE f == Forgotten(c)
<1>1. f \in Client /\ ~f.file /\ f.link = c.link
  BY ForgottenType DEF Forgotten, Client
<1>2. Leaving(f.link) \in {"connecting", "cancelled", "up", "closing", "down"}
  BY <1>1, LeavingType
<1>3. DisconnectFromHost(c) = [f EXCEPT !.state = "Idle", !.link = Leaving(f.link)]
  BY DEF DisconnectFromHost
<1> HIDE DEF f
<1> QED BY <1>1, <1>2, <1>3 DEF Client

\* finish_outgoing calls the completion when it is owed and only then.
LEMMA FinishIsOver ==
  ASSUME IInv, NEW x \in Pair, Owes(x), ~x.active => Rests(x), NEW code \in Codes
  PROVE  Over(FinishOutgoing(x, code)) /\ Keeps(x, FinishOutgoing(x, code))
<1> DEFINE y == FinishOutgoing(x, code)
<1>1. CASE ~x.active
  BY <1>1 DEF FinishOutgoing, Over, Keeps
<1>2. CASE x.active
  <2>1. y = [client |-> DisconnectFromHost(x.client), active |-> FALSE,
             outcome |-> [x.outcome EXCEPT ![sends] = code]]
    BY <1>2 DEF FinishOutgoing
  <2>2. sends \in Sends /\ x.outcome[sends] = "pending" /\ x.client \in Client
    BY <1>2 DEF Owes, IInv, TypeOK, Sends, Pair
  <2>3. code \notin {"none", "pending"}
    BY DEF Codes, Failures
  <2>4. y \in Pair
    BY <2>1, <2>2, DisconnectRests DEF Pair
  <2>5. \A k \in Sends : y.outcome[k] = IF k = sends THEN code ELSE x.outcome[k]
    BY <2>1, <2>2 DEF Pair
  <2>6. Owes(y)
    BY <2>1, <2>2, <2>3, <2>5 DEF Owes
  <2>7. Rests(y)
    BY <2>1, <2>2, DisconnectRests DEF Rests, Active
  <2>8. Keeps(x, y)
    BY <2>2, <2>5 DEF Keeps
  <2> QED BY <2>1, <2>4, <2>6, <2>7, <2>8 DEF Over
<1> QED BY <1>1, <1>2

LEMMA KeepsIsTransitive ==
  ASSUME NEW x, NEW y, NEW z, Keeps(x, y), Keeps(y, z)
  PROVE  Keeps(x, z)
  BY DEF Keeps

LEMMA FailIsOver ==
  ASSUME IInv, NEW x, Sane(x), NEW code \in Codes
  PROVE  Over(FailTransfer(x, code)) /\ Keeps(x, FailTransfer(x, code))
<1>1. CASE x.client.state \in Ended
  BY <1>1 DEF FailTransfer, Over, Keeps, Sane
<1>2. CASE x.client.state \notin Ended
  <2> DEFINE z == [x EXCEPT !.client.file = FALSE, !.client.state = "Failed"]
  <2>1. x \in Pair /\ x.client \in Client
    BY DEF Sane, Pair
  <2>2. z.active = x.active /\ z.outcome = x.outcome
    BY <2>1 DEF Pair
  <2>3. z \in Pair
    BY <2>1 DEF Pair, Client, Ended
  <2>4. Rests(z)
    BY <2>1 DEF Rests, Active, Pair, Client
  <2>5. Owes(z) /\ Keeps(x, z)
    BY <2>2 DEF Sane, Owes, Keeps
  <2>6. Over(FinishOutgoing(z, code)) /\ Keeps(z, FinishOutgoing(z, code))
    BY <2>3, <2>4, <2>5, FinishIsOver
  <2>7. FailTransfer(x, code) = FinishOutgoing(z, code)
    BY <1>2 DEF FailTransfer
  <2> QED BY <2>5, <2>6, <2>7, KeepsIsTransitive
<1> QED BY <1>1, <1>2

LEMMA ErrorIsOver ==
  ASSUME IInv, NEW x, Sane(x)
  PROVE  Over(HandleError(x)) /\ Keeps(x, HandleError(x))
<1>1. "ConnectionFailed" \in Codes
  BY DEF Codes, Failures
<1>2. CASE x.client.state = "Idle"
  BY <1>1, <1>2, FinishIsOver DEF HandleError, Sane
<1>3. CASE x.client.state # "Idle"
  BY <1>1, <1>3, FailIsOver DEF HandleError
<1> QED BY <1>2, <1>3

LEMMA DisconnectedIsOver ==
  ASSUME IInv, NEW x \in Pair, Owes(x), ~x.active => Rests(x)
  PROVE  Over(HandleDisconnected(x)) /\ Keeps(x, HandleDisconnected(x))
<1> DEFINE c == x.client
           d == [Forgotten(c) EXCEPT !.link = "down",
                                     !.generation = @ + 1,
                                     !.state = IF c.state \in Active THEN "Failed" ELSE c.state]
           z == [x EXCEPT !.client = d]
<1>1. c \in Client
  BY DEF Pair
<1>2. d \in Client /\ ~d.file /\ d.state \notin Active
  <2> DEFINE f == Forgotten(c)
             e == IF c.state \in Active THEN "Failed" ELSE c.state
  <2>1. f \in Client /\ ~f.file
    BY <1>1, ForgottenType
  <2>2. d = [f EXCEPT !.link = "down", !.generation = f.generation + 1,
                      !.state = e]
    OBVIOUS
  <2>3. e \in {"Idle", "Connecting", "HelloSent"} \cup Active \cup Ended /\ e \notin Active
    BY <1>1 DEF Client, Active, Ended
  <2> HIDE DEF f, d, e
  <2>4. d.file = f.file /\ d.state = e
    BY <2>1, <2>2 DEF Client
  <2>5. d \in Client
    <3>1. f.generation + 1 \in Nat
      BY <2>1 DEF Client
    <3>2. \A g \in Nat : [f EXCEPT !.link = "down", !.generation = g, !.state = e] \in Client
      BY <2>1, <2>3 DEF Client
    <3> QED BY <2>2, <3>1, <3>2, Zenon
  <2> QED BY <2>1, <2>3, <2>4, <2>5
<1> HIDE DEF d
<1>3. z \in Pair /\ z.client = d /\ z.active = x.active /\ z.outcome = x.outcome
  BY <1>2 DEF Pair
<1>4. Owes(z) /\ Rests(z) /\ Keeps(x, z)
  BY <1>2, <1>3 DEF Owes, Rests, Keeps
<1>5. HandleDisconnected(x) = FinishOutgoing(z, "ConnectionFailed")
  BY DEF HandleDisconnected, d
<1>6. "ConnectionFailed" \in Codes
  BY DEF Codes, Failures
<1>7. Over(FinishOutgoing(z, "ConnectionFailed")) /\ Keeps(z, FinishOutgoing(z, "ConnectionFailed"))
  BY <1>3, <1>4, <1>6, FinishIsOver
<1> HIDE DEF z
<1> QED BY <1>4, <1>5, <1>7, KeepsIsTransitive

\* Giving up a connection ends nothing twice.
LEMMA HangupIsOver ==
  ASSUME NEW x, Over(x)
  PROVE  Over(Hangup(x)) /\ Keeps(x, Hangup(x))
<1>1. x \in Pair /\ x.client \in Client
  BY DEF Over, Pair
<1>2. /\ Hangup(x) \in Pair
      /\ Hangup(x).active = x.active
      /\ Hangup(x).outcome = x.outcome
      /\ Hangup(x).client.file = x.client.file
      /\ Hangup(x).client.state = x.client.state
  BY <1>1 DEF Hangup, Leaving, Pair, Client
<1> QED BY <1>1, <1>2 DEF Over, Owes, Rests, Keeps

LEMMA AbortIsOver ==
  ASSUME IInv, NEW x, Over(x)
  PROVE  Over(Abort(x)) /\ Keeps(x, Abort(x))
<1>1. x \in Pair /\ x.client \in Client
  BY DEF Over, Pair
<1>2. CASE x.client.link \in {"up", "closing"}
  BY <1>1, <1>2, DisconnectedIsOver DEF Abort, Over
<1>3. CASE x.client.link \notin {"up", "closing"}
  <2>1. /\ Abort(x) \in Pair
        /\ Abort(x).active = x.active
        /\ Abort(x).outcome = x.outcome
        /\ Abort(x).client.file = x.client.file
        /\ Abort(x).client.state = x.client.state
    BY <1>1, <1>3 DEF Abort, Pair, Client
  <2> QED BY <1>1, <2>1 DEF Over, Owes, Rests, Keeps
<1> QED BY <1>2, <1>3

\* The compositions the handlers are made of.
LEMMA FailAbortIsOver ==
  ASSUME IInv, NEW x, Sane(x), NEW code \in Codes
  PROVE  /\ Over(Abort(FailTransfer(x, code)))
         /\ Keeps(x, Abort(FailTransfer(x, code)))
  BY FailIsOver, AbortIsOver, KeepsIsTransitive

LEMMA FailHangupIsOver ==
  ASSUME IInv, NEW x, Sane(x), NEW code \in Codes
  PROVE  /\ Over(Hangup(FailTransfer(x, code)))
         /\ Keeps(x, Hangup(FailTransfer(x, code)))
  BY FailIsOver, HangupIsOver, KeepsIsTransitive

LEMMA ErrorHangupIsOver ==
  ASSUME IInv, NEW x, Sane(x)
  PROVE  Over(Hangup(HandleError(x))) /\ Keeps(x, Hangup(HandleError(x)))
  BY ErrorIsOver, HangupIsOver, KeepsIsTransitive

-----------------------------------------------------------------------------
\* The steps.

\* What OutcomeIsFinal says of a step.
Final ==
    \A k \in Sends :
        /\ outcome[k] \notin {"none", "pending"} => outcome'[k] = outcome[k]
        /\ Len(up'[k]) > Len(up[k]) =>
               (outgoing_active /\ k = sends) \/ up'[k][Len(up'[k])].kind = "Hello"

\* A frame goes to the connection of the last send.
LEMMA SentType ==
  ASSUME IInv, NEW f \in SentFrame, Sent(f)
  PROVE  /\ up' \in [Sends -> Seq(SentFrame)]
         /\ \A k \in Sends : k # sends => up'[k] = up[k]
         /\ \A k \in Sends : k = sends =>
                /\ Len(up[k]) \in Nat
                /\ Len(up'[k]) = Len(up[k]) + 1
                /\ up'[k][Len(up'[k])] = f
<1>1. up \in [Sends -> Seq(SentFrame)]
  BY DEF IInv, TypeOK
<1>2. CASE sends \in Sends
  <2>1. up[sends] \in Seq(SentFrame)
    BY <1>1, <1>2
  <2>2. /\ Append(up[sends], f) \in Seq(SentFrame)
        /\ Len(up[sends]) \in Nat
        /\ Len(Append(up[sends], f)) = Len(up[sends]) + 1
        /\ Append(up[sends], f)[Len(up[sends]) + 1] = f
    BY <2>1
  <2>3. up' = [up EXCEPT ![sends] = Append(up[sends], f)]
    BY DEF Sent
  <2> QED BY <1>1, <1>2, <2>2, <2>3
<1>3. CASE sends \notin Sends
  BY <1>1, <1>3 DEF Sent
<1> QED BY <1>2, <1>3

\* A step that leaves a pair that is over and sends at most a Hello.
LEMMA OverIsSafe ==
  ASSUME IInv, NEW x, Over(x), Keeps(Now, x), Becomes(x),
         UNCHANGED <<sends, source, offered>>,
         UNCHANGED up \/ \E n \in Nat : Sent([kind |-> "Hello", rid |-> n]),
         worker' \in Worker \cup {NoWorker}
  PROVE  IInv' /\ Final
<1>0. /\ up' \in [Sends -> Seq(SentFrame)]
      /\ \A k \in Sends : Len(up'[k]) > Len(up[k]) => up'[k][Len(up'[k])].kind = "Hello"
  <2>1. CASE UNCHANGED up
    <3>1. \A k \in Sends : Len(up[k]) \in Nat
      BY DEF IInv, TypeOK
    <3> QED BY <2>1, <3>1 DEF IInv, TypeOK
  <2>2. CASE \E n \in Nat : Sent([kind |-> "Hello", rid |-> n])
    <3>1. PICK n \in Nat : Sent([kind |-> "Hello", rid |-> n])
      BY <2>2
    <3>2. [kind |-> "Hello", rid |-> n] \in SentFrame
      BY DEF SentFrame
    <3>3. \A k \in Sends : Len(up[k]) \in Nat
      BY DEF IInv, TypeOK
    <3> QED BY <3>1, <3>2, <3>3, SentType
  <2> QED BY <2>1, <2>2
<1>1. /\ client' \in Client
      /\ outgoing_active' = FALSE
      /\ outcome' \in [Sends -> {"none", "pending"} \cup Codes]
      /\ ~client'.file
      /\ client'.state \notin Active
  BY DEF Over, Becomes, Pair, Rests
<1>2. TypeOK'
  BY <1>0, <1>1 DEF IInv, TypeOK, Codes
<1>3. OneCompletionOwed'
  BY <1>1 DEF Over, Owes, Becomes, OneCompletionOwed
<1>4. OutgoingIsAlive' /\ FileIsClosed'
  BY <1>1 DEF OutgoingIsAlive, FileIsClosed
<1>5. OfferIsOpen'
  BY <1>1 DEF OfferIsOpen, Active
<1>6. Final
  <2>1. \A k \in Sends : outcome[k] \notin {"none", "pending"} => outcome'[k] = outcome[k]
    BY DEF Keeps, Now, Becomes
  <2> QED BY <1>0, <2>1 DEF Final
<1> QED BY <1>2, <1>3, <1>4, <1>5, <1>6 DEF IInv

\* A step of the transfer that goes on, at most sending a frame of it.
LEMMA GoingIsSafe ==
  ASSUME IInv, outgoing_active,
         UNCHANGED <<sends, outgoing_active, outcome>>,
         client' \in Client,
         worker' \in Worker \cup {NoWorker},
         UNCHANGED source,
         UNCHANGED up \/ \E f \in SentFrame : Sent(f),
         offered' \in [Sends -> Digests \cup {NoDigest}],
         OutgoingIsAlive', FileIsClosed', OfferIsOpen'
  PROVE  IInv' /\ Final
<1>1. sends \in Sends
  BY DEF IInv, TypeOK, OneCompletionOwed, Sends
<1>2. up \in [Sends -> Seq(SentFrame)]
  BY DEF IInv, TypeOK
<1>3. /\ up' \in [Sends -> Seq(SentFrame)]
      /\ \A k \in Sends : k # sends => up'[k] = up[k]
  <2>1. CASE UNCHANGED up
    BY <1>2, <2>1
  <2>2. CASE \E f \in SentFrame : Sent(f)
    <3>1. PICK f \in SentFrame : Sent(f)
      BY <2>2
    <3> QED BY <3>1, SentType
  <2> QED BY <2>1, <2>2
<1>4. TypeOK'
  BY <1>3 DEF IInv, TypeOK
<1>5. OneCompletionOwed'
  BY DEF IInv, OneCompletionOwed
<1>6. Final
  <2>1. \A k \in Sends : Len(up[k]) \in Nat
    BY <1>2
  <2> QED BY <1>3, <2>1 DEF Final
<1> QED BY <1>4, <1>5, <1>6 DEF IInv

LEMMA ContentLength ==
  ASSUME IInv, source # Missing
  PROVE  source \in Seq(SourceBlocks) /\ Len(source) \in Nat
  BY SourcesAssumption DEF IInv, TypeOK

LEMMA SendFileStep == ASSUME IInv, SendFile PROVE IInv' /\ Final
<1> USE DEF SendFile
<1>1. sends' = sends + 1 /\ sends' \in Sends /\ sends \in Nat
  BY SendAssumption DEF IInv, TypeOK, Sends
<1>2. NewClient \in Client
  BY SendAssumption DEF NewClient, Client
<1>3. /\ outcome' \in [Sends -> {"none", "pending", "Ok"} \cup Failures]
      /\ \A k \in Sends : outcome'[k] = IF k = sends' THEN "pending" ELSE outcome[k]
  BY <1>1 DEF IInv, TypeOK
<1>4. TypeOK'
  BY <1>1, <1>2, <1>3 DEF IInv, TypeOK, Sends
<1>5. OneCompletionOwed'
  <2>1. \A k \in Sends : outcome'[k] = "none" <=> k > sends'
    BY <1>1, <1>3 DEF IInv, OneCompletionOwed, Sends
  <2>2. \A k \in Sends : outcome'[k] = "pending" => k = sends'
    <3> SUFFICES ASSUME NEW k \in Sends, outcome'[k] = "pending", k # sends' PROVE FALSE
      OBVIOUS
    <3>1. outcome[k] = "pending" /\ k = sends
      BY <1>3 DEF IInv, OneCompletionOwed
    <3> QED BY <1>1, <3>1 DEF IInv, OneCompletionOwed, Sends
  <2>3. outgoing_active' /\ sends' > 0 /\ outcome'[sends'] = "pending"
    BY <1>1, <1>3
  <2> QED BY <2>1, <2>2, <2>3 DEF OneCompletionOwed
<1>6. OutgoingIsAlive' /\ FileIsClosed' /\ OfferIsOpen'
  BY DEF OutgoingIsAlive, FileIsClosed, OfferIsOpen, NewClient, Active
<1>7. Final
  <2>1. \A k \in Sends : Len(up[k]) \in Nat
    BY DEF IInv, TypeOK
  <2>2. \A k \in Sends : outcome[k] \notin {"none", "pending"} => k # sends'
    BY <1>1 DEF IInv, OneCompletionOwed, Sends
  <2> QED BY <1>3, <2>1, <2>2 DEF Final
<1> QED BY <1>4, <1>5, <1>6, <1>7 DEF IInv

LEMMA StopStep == ASSUME IInv, Stop PROVE IInv' /\ Final
<1> DEFINE x == FinishOutgoing(Now, "Cancelled")
<1>1. Over(x) /\ Keeps(Now, x)
  BY NowIsSane, FinishIsOver DEF Sane, Codes, Failures
<1>2. Becomes(x) /\ UNCHANGED <<sends, worker, source, up, offered>>
  BY DEF Stop
<1>3. worker' \in Worker \cup {NoWorker}
  BY <1>2 DEF IInv, TypeOK
<1> HIDE DEF x
<1> QED BY <1>1, <1>2, <1>3, OverIsSafe

LEMMA HandleConnectedStep == ASSUME IInv, HandleConnected PROVE IInv' /\ Final
<1> DEFINE n == client.next_id
           l == IF client.link = "connecting" THEN "up" ELSE "closing"
           c == [client EXCEPT !.link = l, !.state = "HelloSent", !.hello_id = n, !.next_id = @ + 1]
           x == With(c)
<1>1. client \in Client /\ n \in Nat \ {0} /\ n + 1 \in Nat \ {0}
  BY DEF IInv, TypeOK, Client
<1>2. /\ x.client = c
      /\ x.active = outgoing_active
      /\ x.outcome = outcome
      /\ x = [client |-> x.client, active |-> outgoing_active, outcome |-> outcome]
  BY DEF With, Now
<1> HIDE DEF x
<1>3. x.client \in Client
  BY <1>1, <1>2 DEF Client
<1>4. x.client.state = "HelloSent" /\ x.client.file = client.file
      /\ x.client.link = l /\ x.client.transfer_id = client.transfer_id
  BY <1>1, <1>2 DEF Client
<1> HIDE DEF c
<1>5. \/ Becomes(x) /\ Sent([kind |-> "Hello", rid |-> n])
      \/ Becomes(Abort(FailTransfer(x, "ConnectionFailed"))) /\ UNCHANGED up
  BY DEF HandleConnected, x, c
<1>6. client.link \in {"connecting", "cancelled"} /\ UNCHANGED <<sends, worker, source, offered>>
  BY DEF HandleConnected
<1>7. worker' \in Worker \cup {NoWorker}
  BY <1>6 DEF IInv, TypeOK
<1> HIDE DEF l, n
<1>8. Sane(x)
  <2>1. x \in Pair
    BY <1>2, <1>3 DEF IInv, TypeOK, Pair, Codes
  <2>2. Owes(x)
    BY <1>2 DEF IInv, OneCompletionOwed, Owes
  <2>3. ~x.active => Rests(x)
    BY <1>2, <1>4 DEF IInv, FileIsClosed, Rests, Active
  <2> QED BY <1>4, <2>1, <2>2, <2>3 DEF Sane, Ended
<1>9. Keeps(Now, x)
  BY <1>2 DEF Keeps, Now
<1>10. CASE Becomes(Abort(FailTransfer(x, "ConnectionFailed"))) /\ UNCHANGED up
  <2>1. "ConnectionFailed" \in Codes
    BY DEF Codes, Failures
  <2>2. /\ Over(Abort(FailTransfer(x, "ConnectionFailed")))
        /\ Keeps(Now, Abort(FailTransfer(x, "ConnectionFailed")))
    BY <1>8, <1>9, <2>1, FailAbortIsOver, KeepsIsTransitive
  <2> QED BY <1>6, <1>7, <1>10, <2>2, OverIsSafe
<1>11. CASE Becomes(x) /\ Sent([kind |-> "Hello", rid |-> n]) /\ ~outgoing_active
  <2>1. Over(x)
    BY <1>2, <1>8, <1>11 DEF Sane, Over
  <2>2. n \in Nat
    BY <1>1
  <2> QED BY <1>6, <1>7, <1>9, <1>11, <2>1, <2>2, OverIsSafe
<1>12. CASE Becomes(x) /\ Sent([kind |-> "Hello", rid |-> n]) /\ outgoing_active
  <2>1. client' = x.client /\ outgoing_active' = outgoing_active /\ outcome' = outcome
    BY <1>2, <1>12 DEF Becomes
  <2>2. client.state = "Connecting" /\ client.link = "connecting"
    BY <1>6, <1>12 DEF IInv, OutgoingIsAlive
  <2>3. client'.link = "up" /\ client'.state = "HelloSent" /\ ~client'.file
        /\ client'.transfer_id = 0
    BY <1>4, <1>12, <2>1, <2>2 DEF IInv, FileIsClosed, OfferIsOpen, l
  <2>4. OutgoingIsAlive' /\ FileIsClosed' /\ OfferIsOpen'
    BY <2>3 DEF OutgoingIsAlive, FileIsClosed, OfferIsOpen, Active
  <2>5. [kind |-> "Hello", rid |-> n] \in SentFrame
    BY <1>1 DEF SentFrame
  <2>6. client' \in Client /\ UNCHANGED <<sends, outgoing_active, outcome>> /\ UNCHANGED source
    BY <1>3, <1>6, <2>1
  <2>7. offered' \in [Sends -> Digests \cup {NoDigest}]
    BY <1>6 DEF IInv, TypeOK
  <2> QED BY <1>7, <1>12, <2>4, <2>5, <2>6, <2>7, GoingIsSafe
<1> QED BY <1>5, <1>10, <1>11, <1>12

\* Handlers that end the transfer whatever it was.
LEMMA EndedStep ==
  ASSUME IInv, NEW x, Over(x), Keeps(Now, x), Becomes(x),
         UNCHANGED <<sends, worker, source, up, offered>>
  PROVE  IInv' /\ Final
<1>1. worker' \in Worker \cup {NoWorker}
  BY DEF IInv, TypeOK
<1> QED BY <1>1, OverIsSafe

LEMMA HandleConnectErrorStep == ASSUME IInv, HandleConnectError PROVE IInv' /\ Final
<1> DEFINE x == With([client EXCEPT !.link = "down"])
<1>1. client \in Client
  BY DEF IInv, TypeOK
<1>2. /\ x = [client |-> [client EXCEPT !.link = "down"], active |-> outgoing_active,
              outcome |-> outcome]
      /\ x.client \in Client
      /\ x.client.state = client.state
      /\ x.client.file = client.file
  BY <1>1 DEF With, Now, Client
<1> HIDE DEF x
<1>3. Sane(x) /\ Keeps(Now, x)
  BY <1>2, NowIsSane DEF Sane, Pair, Owes, Rests, Keeps, Now
<1>4. Over(HandleError(x)) /\ Keeps(Now, HandleError(x))
  BY <1>3, ErrorIsOver, KeepsIsTransitive
<1>5. Becomes(HandleError(x)) /\ UNCHANGED <<sends, worker, source, up, offered>>
  BY DEF HandleConnectError, x
<1> QED BY <1>4, <1>5, EndedStep

LEMMA HandleLinkDownStep == ASSUME IInv, HandleLinkDown PROVE IInv' /\ Final
<1> DEFINE x == IF client.link = "up" THEN HandleError(Now) ELSE Now
<1>1. x \in Pair /\ Owes(x) /\ (~x.active => Rests(x)) /\ Keeps(Now, x)
  BY NowIsSane, ErrorIsOver DEF Sane, Over, Keeps
<1>2. Becomes(HandleDisconnected(x)) /\ UNCHANGED <<sends, worker, source, up, offered>>
  BY DEF HandleLinkDown
<1> HIDE DEF x
<1>3. Over(HandleDisconnected(x)) /\ Keeps(Now, HandleDisconnected(x))
  BY <1>1, DisconnectedIsOver, KeepsIsTransitive
<1> QED BY <1>2, <1>3, EndedStep

-----------------------------------------------------------------------------
\* The frames of the peer.

LEMMA WithIs ==
  ASSUME IInv, NEW c \in Client
  PROVE  /\ With(c) = [client |-> c, active |-> outgoing_active, outcome |-> outcome]
         /\ With(c) \in Pair
         /\ Owes(With(c))
         /\ Keeps(Now, With(c))
<1>1. With(c) = [client |-> c, active |-> outgoing_active, outcome |-> outcome]
  BY DEF With, Now
<1>2. With(c) \in Pair
  BY <1>1 DEF IInv, TypeOK, Pair, Codes
<1> QED BY <1>1, <1>2 DEF IInv, OneCompletionOwed, Owes, Keeps, Now

LEMMA FinishWithIsOver ==
  ASSUME IInv, NEW c \in Client, ~c.file, c.state \notin Active, NEW code \in Codes
  PROVE  /\ Over(FinishOutgoing(With(c), code))
         /\ Keeps(Now, FinishOutgoing(With(c), code))
<1>1. Rests(With(c))
  BY WithIs DEF Rests
<1> QED BY <1>1, WithIs, FinishIsOver, KeepsIsTransitive

LEMMA UnexpectedStep ==
  ASSUME IInv, Unexpected, UNCHANGED <<sends, source, up, offered>>
  PROVE  IInv' /\ Final
<1> DEFINE x == Abort(FailTransfer(Now, "ProtocolError"))
<1>1. Over(x) /\ Keeps(Now, x)
  BY NowIsSane, FailAbortIsOver DEF Codes, Failures
<1>2. Becomes(x) /\ UNCHANGED worker
  BY DEF Unexpected
<1> HIDE DEF x
<1> QED BY <1>1, <1>2, EndedStep

\* An answer that is not to this transfer ends the connection.
LEMMA UncorrelatedStep ==
  ASSUME IInv, Becomes(Hangup(HandleError(Now))),
         UNCHANGED <<sends, worker, source, up, offered>>
  PROVE  IInv' /\ Final
<1>1. Over(Hangup(HandleError(Now))) /\ Keeps(Now, Hangup(HandleError(Now)))
  BY NowIsSane, ErrorHangupIsOver
<1> QED BY <1>1, EndedStep

LEMMA HandleHelloAckStep ==
  ASSUME IInv, NEW f, HandleHelloAck(f), client.link \in {"up", "closing"},
         UNCHANGED <<sends, source, up, offered>>
  PROVE  IInv' /\ Final
<1> DEFINE c == Greeted
<1>1. client \in Client
  BY DEF IInv, TypeOK
<1>2. c \in Client /\ c.state = "Idle" /\ c.file = client.file /\ c.link = client.link
      /\ c.generation = client.generation /\ c.transfer_id = client.transfer_id /\ c.handshake
  BY <1>1 DEF Client, Greeted
<1>3. CASE ~Greets(f)
  BY <1>3, UnexpectedStep DEF HandleHelloAck
<1>4. CASE Greets(f) /\ ~outgoing_active
  <2>1. Becomes(With(c)) /\ UNCHANGED worker
    BY <1>4 DEF HandleHelloAck
  <2>2. Over(With(c)) /\ Keeps(Now, With(c))
    BY <1>2, <1>4, WithIs DEF IInv, FileIsClosed, Over, Rests, Active
  <2> QED BY <2>1, <2>2, EndedStep
<1>5. CASE Greets(f) /\ outgoing_active /\ source = Missing
  <2>1. Becomes(FinishOutgoing(With(c), "PathNotFound")) /\ UNCHANGED worker
    BY <1>5 DEF HandleHelloAck
  <2>2. ~c.file /\ c.state \notin Active /\ "PathNotFound" \in Codes
    BY <1>2, <1>5 DEF Greets, IInv, FileIsClosed, Active, Codes, Failures
  <2>3. /\ Over(FinishOutgoing(With(c), "PathNotFound"))
        /\ Keeps(Now, FinishOutgoing(With(c), "PathNotFound"))
    BY <1>2, <2>2, FinishWithIsOver
  <2> HIDE DEF c
  <2> QED BY <2>1, <2>3, EndedStep
<1>6. CASE Greets(f) /\ outgoing_active /\ source # Missing
  <2> DEFINE g == client.generation + 1
             d == [c EXCEPT !.state = "Offering", !.file = FALSE, !.offset = 0,
                            !.size = Len(source), !.generation = g]
             w == [generation |-> g, size |-> Len(source), digest |-> NoDigest, done |-> FALSE]
  <2>1. Becomes(With(d)) /\ worker' = w
    <3>1. OfferFile
      BY <1>6 DEF HandleHelloAck
    <3>2. c.generation + 1 = g
      BY <1>2
    <3> QED BY <3>1, <3>2 DEF OfferFile
  <2>2. g \in Nat /\ Len(source) \in Nat
    BY <1>1, <1>6, ContentLength DEF Client
  <2>3. /\ d \in Client
        /\ d.state = "Offering" /\ ~d.file /\ d.link = client.link
        /\ d.generation = g /\ d.transfer_id = client.transfer_id /\ d.handshake
    BY <1>2, <2>2 DEF Client, Active
  <2>4. w \in Worker /\ w # NoWorker /\ w.generation = g
    <3>1. w \in [generation : Nat, size : Nat, digest : {NoDigest}, done : {FALSE}]
      BY <2>2
    <3>2. w \in Worker
      BY <3>1, Zenon DEF Worker
    <3> QED BY <3>2, WorkerAssumption
  <2> HIDE DEF c, d, w, g
  <2>5. client' = d /\ outgoing_active' = outgoing_active /\ outcome' = outcome
    BY <2>1, <2>3, WithIs DEF Becomes
  <2>6. client.link = "up" /\ client.transfer_id = 0
    BY <1>6 DEF Greets, IInv, OutgoingIsAlive, OfferIsOpen
  <2>7. OutgoingIsAlive'
    BY <2>1, <2>3, <2>4, <2>5, <2>6 DEF OutgoingIsAlive, Active
  <2>8. FileIsClosed' /\ OfferIsOpen'
    BY <1>6, <2>3, <2>5, <2>6 DEF FileIsClosed, OfferIsOpen, Active
  <2>9. offered' \in [Sends -> Digests \cup {NoDigest}]
    BY DEF IInv, TypeOK
  <2> QED BY <1>6, <2>1, <2>3, <2>4, <2>5, <2>7, <2>8, <2>9, GoingIsSafe
<1> QED BY <1>3, <1>4, <1>5, <1>6

LEMMA HandleFileAcceptStep ==
  ASSUME IInv, NEW f \in PeerFrames, f.kind = "FileAccept", HandleFileAccept(f),
         UNCHANGED <<sends, source, up, offered>>
  PROVE  IInv' /\ Final
<1>1. client \in Client
  BY DEF IInv, TypeOK
<1>2. f.id # 0
  BY PeerFramesAssumption DEF PeerFrame
<1>3. CASE client.state # "Offering"
  BY <1>3, UnexpectedStep DEF HandleFileAccept
<1>4. CASE client.state = "Offering" /\ ~Correlates(f, client.offer_id)
  BY <1>4, UncorrelatedStep DEF HandleFileAccept
<1>5. CASE client.state = "Offering" /\ Correlates(f, client.offer_id)
  <2> DEFINE d == [client EXCEPT !.state = "Sending"]
  <2>1. client.file /\ client.transfer_id # 0 /\ outgoing_active /\ client.handshake
    BY <1>2, <1>5 DEF Correlates, IInv, OfferIsOpen, Active
  <2>2. Becomes(With(d)) /\ UNCHANGED worker
    BY <1>5, <2>1 DEF HandleFileAccept
  <2>3. d \in Client /\ d.state = "Sending" /\ d.file /\ d.link = client.link
        /\ d.transfer_id = client.transfer_id /\ d.handshake
    BY <1>1, <2>1 DEF Client, Active
  <2> HIDE DEF d
  <2>4. client' = d /\ outgoing_active' = outgoing_active /\ outcome' = outcome
    BY <2>2, <2>3, WithIs DEF Becomes
  <2>5. client.link = "up"
    BY <1>5, <2>1 DEF IInv, OutgoingIsAlive
  <2>6. OutgoingIsAlive' /\ FileIsClosed'
    BY <2>1, <2>3, <2>4, <2>5 DEF OutgoingIsAlive, FileIsClosed, Active
  <2>7. OfferIsOpen'
    BY <2>1, <2>3, <2>4 DEF IInv, OfferIsOpen, Active
  <2>8. offered' \in [Sends -> Digests \cup {NoDigest}] /\ worker' \in Worker \cup {NoWorker}
    BY <2>2 DEF IInv, TypeOK
  <2> QED BY <2>1, <2>3, <2>4, <2>6, <2>7, <2>8, GoingIsSafe
<1> QED BY <1>3, <1>4, <1>5

LEMMA HandleFileRejectStep ==
  ASSUME IInv, NEW f \in PeerFrames, f.kind = "FileReject", HandleFileReject(f),
         UNCHANGED <<sends, source, up, offered>>
  PROVE  IInv' /\ Final
<1> DEFINE c == [client EXCEPT !.file = FALSE,
                               !.state = IF client.file THEN "Failed" ELSE "Idle"]
<1>1. client \in Client
  BY DEF IInv, TypeOK
<1>2. f.code \in Codes
  BY PeerFramesAssumption DEF PeerFrame, Codes
<1>3. CASE client.state # "Offering"
  BY <1>3, UnexpectedStep DEF HandleFileReject
<1>4. CASE client.state = "Offering" /\ ~Correlates(f, client.offer_id)
  BY <1>4, UncorrelatedStep DEF HandleFileReject
<1>5. CASE client.state = "Offering" /\ Correlates(f, client.offer_id)
  <2>1. c \in Client /\ ~c.file /\ c.state \notin Active
    BY <1>1 DEF Client, Active, Ended
  <2>2. Becomes(FinishOutgoing(With(c), f.code)) /\ UNCHANGED worker
    BY <1>5 DEF HandleFileReject
  <2> HIDE DEF c
  <2> QED BY <1>2, <2>1, <2>2, FinishWithIsOver, EndedStep
<1> QED BY <1>3, <1>4, <1>5

LEMMA HandleFileResultStep ==
  ASSUME IInv, NEW f \in PeerFrames, f.kind = "FileResult", HandleFileResult(f),
         UNCHANGED <<sends, source, up, offered>>
  PROVE  IInv' /\ Final
<1> DEFINE c == [client EXCEPT !.file = FALSE,
                               !.state = IF f.code = "Ok" THEN "Completed" ELSE "Failed"]
<1>1. client \in Client
  BY DEF IInv, TypeOK
<1>2. f.code \in Codes
  BY PeerFramesAssumption DEF PeerFrame, Codes
<1>3. CASE client.state \in Ended
  <2>1. Becomes(Now) /\ UNCHANGED worker
    BY <1>3 DEF HandleFileResult, Ended
  <2>2. Over(Now) /\ Keeps(Now, Now)
    BY <1>3, NowIsSane DEF Sane, Over, Keeps, Now
  <2> QED BY <2>1, <2>2, EndedStep
<1>4. CASE client.state \notin Ended \cup {"Finishing"}
  BY <1>4, UnexpectedStep DEF HandleFileResult
<1>5. CASE client.state = "Finishing" /\ ~Correlates(f, client.finish_id)
  <2>1. PICK code \in {"InvalidArgument", "ProtocolError"} : Becomes(Hangup(FailTransfer(Now, code)))
    BY <1>5 DEF HandleFileResult, Ended
  <2>2. code \in Codes /\ UNCHANGED worker
    BY <1>5 DEF HandleFileResult, Ended, Codes, Failures
  <2> QED BY <2>1, <2>2, NowIsSane, FailHangupIsOver, EndedStep
<1>6. CASE client.state = "Finishing" /\ Correlates(f, client.finish_id)
  <2>1. c \in Client /\ ~c.file /\ c.state \notin Active
    BY <1>1 DEF Client, Active, Ended
  <2>2. Becomes(FinishOutgoing(With(c), f.code)) /\ UNCHANGED worker
    BY <1>6 DEF HandleFileResult, Ended
  <2> HIDE DEF c
  <2> QED BY <1>2, <2>1, <2>2, FinishWithIsOver, EndedStep
<1> QED BY <1>3, <1>4, <1>5, <1>6

LEMMA HandleFrameStep ==
  ASSUME IInv, NEW f \in PeerFrames, HandleFrame(f)
  PROVE  IInv' /\ Final
<1> USE DEF HandleFrame
<1>1. CASE f.kind = "HelloAck"
  BY <1>1, HandleHelloAckStep
<1>2. CASE f.kind = "FileAccept"
  BY <1>2, HandleFileAcceptStep
<1>3. CASE f.kind = "FileReject"
  BY <1>3, HandleFileRejectStep
<1>4. CASE f.kind = "FileResult"
  BY <1>4, HandleFileResultStep
<1>5. CASE f.kind \notin {"HelloAck", "FileAccept", "FileReject", "FileResult"}
  BY <1>5, UncorrelatedStep DEF HandleOther
<1> QED BY <1>1, <1>2, <1>3, <1>4, <1>5

-----------------------------------------------------------------------------
\* The hash worker, the pump and the file.

LEMMA HashFinishesStep == ASSUME IInv, HashFinishes PROVE IInv' /\ Final
<1> DEFINE dig == IF source = Missing THEN Missing ELSE Sha256(source)
<1>1. worker \in Worker /\ dig \in Digests \cup {Missing}
  BY DEF HashFinishes, IInv, TypeOK, Digests
<1>2. worker' = [worker EXCEPT !.done = TRUE, !.digest = dig]
  BY DEF HashFinishes
<1> HIDE DEF dig
<1>3. worker' \in Worker /\ worker'.generation = worker.generation /\ worker' # NoWorker
  BY <1>1, <1>2, WorkerAssumption DEF Worker
<1>4. UNCHANGED <<sends, outgoing_active, outcome, client, source, up, offered>>
  BY DEF HashFinishes
<1>5. TypeOK'
  BY <1>3, <1>4 DEF IInv, TypeOK
<1>6. OneCompletionOwed' /\ FileIsClosed' /\ OfferIsOpen'
  BY <1>4 DEF IInv, OneCompletionOwed, FileIsClosed, OfferIsOpen
<1>7. OutgoingIsAlive'
  BY <1>3, <1>4 DEF IInv, OutgoingIsAlive
<1>8. Final
  BY <1>4 DEF IInv, TypeOK, Final
<1> QED BY <1>5, <1>6, <1>7, <1>8 DEF IInv

LEMMA SendFileOfferStep ==
  ASSUME IInv, worker \in Worker, worker.digest \in Digests, source # Missing,
         client.state = "Offering", SendFileOffer,
         worker' = NoWorker, UNCHANGED <<sends, source>>
  PROVE  IInv' /\ Final
<1> DEFINE n == client.next_id
           c == [client EXCEPT !.file = TRUE, !.offset = 0, !.size = worker.size,
                               !.offer_id = n, !.next_id = @ + 1, !.transfer_id = sends]
           x == With(c)
           f == [kind |-> "FileOffer", rid |-> n, id |-> sends, name |-> FileName,
                 size |-> worker.size, sha256 |-> worker.digest]
           y == [FailTransfer(x, "ConnectionFailed") EXCEPT !.client.file = FALSE, !.client.state = "Failed"]
<1>1. client \in Client /\ n \in Nat \ {0} /\ n + 1 \in Nat \ {0} /\ worker.size \in Nat
  <2>1. worker.size \in Nat
    BY DEF Worker
  <2>2. client \in Client /\ n \in Nat \ {0}
    BY DEF IInv, TypeOK, Client
  <2> QED BY <2>1, <2>2
<1>2. outgoing_active /\ sends \in Sends /\ sends \in 0..MaxSends /\ sends # 0 /\ client.handshake
  BY DEF IInv, TypeOK, OfferIsOpen, OneCompletionOwed, Active, Sends
<1>3. /\ c \in Client
      /\ c.state = "Offering" /\ c.file /\ c.offer_id = n /\ c.link = client.link
      /\ c.generation = client.generation /\ c.transfer_id = sends /\ c.handshake = client.handshake
  BY <1>1, <1>2 DEF Client
<1>4. \/ client.link = "up" /\ Becomes(x) /\ Sent(f)
         /\ offered' = [offered EXCEPT ![sends] = worker.digest]
      \/ Becomes(y) /\ UNCHANGED <<up, offered>>
  BY DEF SendFileOffer
<1> HIDE DEF c
<1>5. CASE client.link = "up" /\ Becomes(x) /\ Sent(f)
           /\ offered' = [offered EXCEPT ![sends] = worker.digest]
  <2>1. client' = c /\ outgoing_active' = outgoing_active /\ outcome' = outcome
    BY <1>3, <1>5, WithIs DEF Becomes
  <2>2. OutgoingIsAlive' /\ FileIsClosed' /\ OfferIsOpen'
    BY <1>1, <1>2, <1>3, <1>5, <2>1 DEF OutgoingIsAlive, FileIsClosed, OfferIsOpen, Active
  <2>3. f \in SentFrame
    <3>1. f \in [kind : {"FileOffer"}, rid : Nat, id : Sends, name : {FileName}, size : Nat,
                 sha256 : Digests]
      BY <1>1, <1>2
    <3> HIDE DEF f
    <3> QED BY <3>1, Zenon DEF SentFrame
  <2>4. offered' \in [Sends -> Digests \cup {NoDigest}]
    BY <1>2, <1>5 DEF IInv, TypeOK
  <2> QED BY <1>2, <1>3, <1>5, <2>1, <2>2, <2>3, <2>4, GoingIsSafe
<1>6. CASE Becomes(y) /\ UNCHANGED <<up, offered>>
  <2> DEFINE z == FailTransfer(x, "ConnectionFailed")
  <2>1. Sane(x) /\ Keeps(Now, x)
    BY <1>2, <1>3, WithIs DEF Sane, Ended
  <2>2. Over(z) /\ Keeps(Now, z)
    BY <2>1, FailIsOver, KeepsIsTransitive DEF Codes, Failures
  <2> HIDE DEF x, z
  <2>3. z \in Pair /\ z.client \in Client
    BY <2>2 DEF Over, Pair
  <2>4. y = [z EXCEPT !.client.file = FALSE, !.client.state = "Failed"]
    BY DEF z
  <2> HIDE DEF y
  <2>5. y \in Pair /\ y.active = z.active /\ y.outcome = z.outcome
        /\ ~y.client.file /\ y.client.state = "Failed"
    BY <2>3, <2>4 DEF Pair, Client, Ended
  <2>6. Over(y) /\ Keeps(Now, y)
    BY <2>2, <2>5 DEF Over, Owes, Rests, Keeps, Active
  <2> QED BY <1>6, <2>6, OverIsSafe
<1> QED BY <1>4, <1>5, <1>6

LEMMA HandleHashResultStep == ASSUME IInv, HandleHashResult PROVE IInv' /\ Final
<1> DEFINE Stale == worker.generation # client.generation \/ client.state # "Offering"
           Bad == worker.digest = Missing \/ source = Missing
<1>1. worker \in Worker /\ worker.done /\ worker' = NoWorker /\ UNCHANGED <<sends, source>>
  BY DEF HandleHashResult, IInv, TypeOK
<1>2. worker.digest \in Digests \cup {Missing}
  BY <1>1 DEF Worker
<1>3. CASE Stale
  <2>1. Becomes(Now) /\ UNCHANGED <<up, offered>>
    BY <1>3 DEF HandleHashResult
  <2>2. UNCHANGED <<sends, outgoing_active, outcome, client, source, up, offered>>
    BY <1>1, <2>1 DEF Becomes, Now
  <2>3. TypeOK' /\ OneCompletionOwed' /\ FileIsClosed' /\ OfferIsOpen'
    BY <1>1, <2>2 DEF IInv, TypeOK, OneCompletionOwed, FileIsClosed, OfferIsOpen
  <2>4. OutgoingIsAlive'
    BY <1>3, <2>2 DEF IInv, OutgoingIsAlive
  <2>5. Final
    BY <2>2 DEF IInv, TypeOK, Final
  <2> QED BY <2>3, <2>4, <2>5 DEF IInv
<1>4. CASE ~Stale /\ Bad
  <2>1. Becomes(FailTransfer(Now, "IoError")) /\ UNCHANGED <<up, offered>>
    BY <1>4 DEF HandleHashResult
  <2>2. /\ Over(FailTransfer(Now, "IoError"))
        /\ Keeps(Now, FailTransfer(Now, "IoError"))
    BY NowIsSane, FailIsOver DEF Codes, Failures
  <2> QED BY <1>1, <2>1, <2>2, OverIsSafe
<1>5. CASE ~Stale /\ ~Bad
  <2>1. SendFileOffer
    BY <1>5 DEF HandleHashResult
  <2> QED BY <1>1, <1>2, <1>5, <2>1, SendFileOfferStep
<1> QED BY <1>3, <1>4, <1>5

\* A frame that could not be written ends the transfer.
LEMMA SendOrFailStep ==
  ASSUME IInv, client.state = "Sending", client.link = "up",
         NEW c \in Client, c.link = client.link,
         c.state \in {"Sending", "Finishing"}, c.file <=> c.state = "Sending",
         c.state = "Finishing" => c.finish_id # 0,
         c.transfer_id = client.transfer_id, c.handshake = client.handshake,
         NEW f \in SentFrame,
         SendOrFail(With(c), f),
         UNCHANGED <<sends, worker, source, offered>>
  PROVE  IInv' /\ Final
<1>1. client.handshake /\ outgoing_active /\ client.file /\ client.transfer_id # 0 /\ source # Missing
  BY DEF IInv, OutgoingIsAlive, OfferIsOpen, Active
<1>2. CASE Becomes(With(c)) /\ Sent(f)
  <2>1. client' = c /\ outgoing_active' = outgoing_active /\ outcome' = outcome
    BY <1>2, WithIs DEF Becomes
  <2>2. OutgoingIsAlive' /\ FileIsClosed' /\ OfferIsOpen'
    BY <1>1, <2>1 DEF OutgoingIsAlive, FileIsClosed, OfferIsOpen, Active
  <2>3. offered' \in [Sends -> Digests \cup {NoDigest}] /\ worker' \in Worker \cup {NoWorker}
    BY DEF IInv, TypeOK
  <2> QED BY <1>1, <1>2, <2>1, <2>2, <2>3, GoingIsSafe
<1>3. CASE Becomes(Abort(FailTransfer(With(c), "ConnectionFailed"))) /\ UNCHANGED up
  <2>1. Sane(With(c)) /\ Keeps(Now, With(c))
    BY <1>1, WithIs DEF Sane, Ended
  <2>2. "ConnectionFailed" \in Codes
    BY DEF Codes, Failures
  <2>3. /\ Over(Abort(FailTransfer(With(c), "ConnectionFailed")))
        /\ Keeps(Now, Abort(FailTransfer(With(c), "ConnectionFailed")))
    BY <2>1, <2>2, FailAbortIsOver, KeepsIsTransitive
  <2> QED BY <1>3, <2>3, EndedStep
<1> QED BY <1>2, <1>3 DEF SendOrFail

LEMMA SendNextChunkStep == ASSUME IInv, SendNextChunk PROVE IInv' /\ Final
<1>1. /\ client.state = "Sending" /\ client.link = "up" /\ client.file
      /\ UNCHANGED <<sends, worker, source, offered>>
  BY DEF SendNextChunk
<1>2. client \in Client /\ client.next_id \in Nat \ {0} /\ client.next_id + 1 \in Nat \ {0}
      /\ client.offset \in Nat
  BY DEF IInv, TypeOK, Client
<1>3. source # Missing /\ client.transfer_id \in Sends
  BY <1>1, <1>2 DEF IInv, OfferIsOpen, Client, Sends
<1>4. CASE SendFileFinish
  <2> DEFINE n == client.next_id
             c == [client EXCEPT !.file = FALSE, !.state = "Finishing", !.finish_id = n, !.next_id = @ + 1]
             f == [kind |-> "FileFinish", rid |-> n, id |-> client.transfer_id]
  <2>1. c \in Client /\ c.link = client.link /\ c.state = "Finishing" /\ ~c.file
        /\ c.finish_id = n /\ c.transfer_id = client.transfer_id /\ c.handshake = client.handshake
    BY <1>2 DEF Client, Active
  <2>2. f \in SentFrame
    <3>1. f \in [kind : {"FileFinish"}, rid : Nat, id : Sends]
      BY <1>2, <1>3
    <3> HIDE DEF f
    <3> QED BY <3>1, Zenon DEF SentFrame
  <2>3. SendOrFail(With(c), f)
    BY <1>4 DEF SendFileFinish
  <2> HIDE DEF c, f
  <2> QED BY <1>1, <1>2, <2>1, <2>2, <2>3, SendOrFailStep
<1>5. CASE SendFileChunk
  <2> DEFINE c == [client EXCEPT !.offset = @ + Len(NextChunk), !.next_id = @ + 1]
             f == [kind |-> "FileChunk", rid |-> client.next_id, id |-> client.transfer_id,
                   offset |-> client.offset, data |-> NextChunk]
  <2>1. NextChunk \in Seq(SourceBlocks) /\ Len(NextChunk) \in Nat
    <3>1. source \in Seq(SourceBlocks) /\ Len(source) \in Nat
      BY <1>3, ContentLength
    <3>2. NextChunk \in Seq(SourceBlocks)
      BY <1>2, <3>1, SendAssumption DEF NextChunk
    <3> QED BY <3>2
  <2>2. c \in Client /\ c.link = client.link /\ c.state = "Sending" /\ c.file
        /\ c.transfer_id = client.transfer_id /\ c.handshake = client.handshake
    <3>1. client.offset + Len(NextChunk) \in Nat
      BY <1>2, <2>1
    <3> QED BY <1>1, <1>2, <3>1 DEF Client, Active
  <2>3. f \in SentFrame
    <3>1. f \in [kind : {"FileChunk"}, rid : Nat, id : Sends, offset : Nat, data : Seq(SourceBlocks)]
      BY <1>2, <1>3, <2>1
    <3> HIDE DEF f
    <3> QED BY <3>1, Zenon DEF SentFrame
  <2>4. CASE SendOrFail(With(c), f)
    <3> HIDE DEF c, f
    <3> QED BY <1>1, <2>2, <2>3, <2>4, SendOrFailStep
  <2>5. CASE Becomes(FailTransfer(Now, "IoError")) /\ UNCHANGED up
    <3>1. /\ Over(FailTransfer(Now, "IoError"))
          /\ Keeps(Now, FailTransfer(Now, "IoError"))
      BY NowIsSane, FailIsOver DEF Codes, Failures
    <3> QED BY <1>1, <2>5, <3>1, EndedStep
  <2> QED BY <1>5, <2>4, <2>5 DEF SendFileChunk
<1> QED BY <1>4, <1>5 DEF SendNextChunk

LEMMA SourceChangesStep == ASSUME IInv, SourceChanges PROVE IInv' /\ Final
<1> USE DEF SourceChanges
<1>1. TypeOK' /\ OneCompletionOwed' /\ OutgoingIsAlive' /\ FileIsClosed'
  BY DEF IInv, TypeOK, OneCompletionOwed, OutgoingIsAlive, FileIsClosed
<1>2. OfferIsOpen'
  BY DEF IInv, OfferIsOpen
<1>3. Final
  BY DEF IInv, TypeOK, Final
<1> QED BY <1>1, <1>2, <1>3 DEF IInv

LEMMA PeerReadsStep == ASSUME IInv, NEW k \in Sends, PeerReads(k) PROVE IInv' /\ Final
<1> USE DEF PeerReads
<1>1. up \in [Sends -> Seq(SentFrame)] /\ up[k] \in Seq(SentFrame)
  BY DEF IInv, TypeOK
<1>2. /\ Tail(up[k]) \in Seq(SentFrame)
      /\ Len(Tail(up[k])) = Len(up[k]) - 1
      /\ Len(up[k]) \in Nat
  BY <1>1
<1>3. TypeOK'
  BY <1>1, <1>2 DEF IInv, TypeOK
<1>4. OneCompletionOwed' /\ OutgoingIsAlive' /\ FileIsClosed' /\ OfferIsOpen'
  BY DEF IInv, OneCompletionOwed, OutgoingIsAlive, FileIsClosed, OfferIsOpen
<1>5. Final
  <2>1. \A j \in Sends : Len(up[j]) \in Nat /\ (j # k => up'[j] = up[j])
    BY <1>1
  <2>2. Len(up'[k]) = Len(up[k]) - 1
    BY <1>1, <1>2
  <2> QED BY <1>2, <2>1, <2>2 DEF Final
<1> QED BY <1>3, <1>4, <1>5 DEF IInv

-----------------------------------------------------------------------------
LEMMA InitEstablishes == ASSUME Init PROVE IInv
<1> USE DEF Init
<1>1. NewClient \in Client
  BY SendAssumption DEF NewClient, Client
<1>2. client \in Client /\ client.state = "Idle" /\ client.link = "down" /\ ~client.file
  BY <1>1 DEF NewClient, Client
<1>3. TypeOK
  <2>1. sends \in 0..MaxSends
    BY SendAssumption
  <2>2. up \in [Sends -> Seq(SentFrame)]
    OBVIOUS
  <2>3. /\ outcome \in [Sends -> {"none", "pending", "Ok"} \cup Failures]
        /\ offered \in [Sends -> Digests \cup {NoDigest}]
    OBVIOUS
  <2>4. worker \in Worker \cup {NoWorker} /\ source \in Sources \cup {Missing}
        /\ outgoing_active \in BOOLEAN
    OBVIOUS
  <2> QED BY <1>2, <2>1, <2>2, <2>3, <2>4 DEF TypeOK
<1>4. OneCompletionOwed
  BY DEF OneCompletionOwed, Sends
<1>5. OutgoingIsAlive /\ FileIsClosed /\ OfferIsOpen
  BY <1>2 DEF OutgoingIsAlive, FileIsClosed, OfferIsOpen, Active
<1> QED BY <1>3, <1>4, <1>5 DEF IInv

LEMMA StepKeeps == ASSUME IInv, Next PROVE IInv' /\ Final
  BY SendFileStep, StopStep, HandleConnectedStep, HandleConnectErrorStep, HandleLinkDownStep,
     HandleFrameStep, HashFinishesStep, HandleHashResultStep, SendNextChunkStep,
     SourceChangesStep, PeerReadsStep
     DEF Next

\* Types, one completion owed, something going on that will bring it, and no
\* file left open, in every state the sender reaches.
THEOREM SenderInvariant == Spec => []IInv
<1>1. Init => IInv
  BY InitEstablishes
<1>2. IInv /\ [Next]_senderVars => IInv'
  <2>1. CASE Next
    BY <2>1, StepKeeps
  <2>2. CASE UNCHANGED senderVars
    BY <2>2 DEF senderVars, IInv, TypeOK, OneCompletionOwed, OutgoingIsAlive, FileIsClosed,
                OfferIsOpen
  <2> QED BY <2>1, <2>2
<1> QED BY <1>1, <1>2, PTL DEF Spec

\* No completion is called twice, and no frame of a transfer is sent after
\* its end, whatever the socket, the hash worker and the peer do.
THEOREM SendEndsOnce == Spec => OutcomeIsFinal
<1>1. IInv /\ [Next]_senderVars => [Final]_senderVars
  BY StepKeeps
<1>2. Spec => [][Final]_senderVars
  BY <1>1, SenderInvariant, PTL DEF Spec
<1> QED BY <1>2 DEF OutcomeIsFinal, Final

-----------------------------------------------------------------------------
\* What a step means to whoever watches the completions and the offers.

\* The completion of the last send, called with a failure or not at all.
Ends(o, p) == p = o \/ \E code \in Failures : p = [o EXCEPT ![sends] = code]

\* No connection is made anew and no greeting sent again.
Later(c, d) ==
    /\ d.link \in {"connecting", "cancelled"} => c.link \in {"connecting", "cancelled"}
    /\ d.state = "HelloSent" => c.state = "HelloSent"

Follows(x, y) == y \in Pair /\ Ends(x.outcome, y.outcome) /\ Later(x.client, y.client)

LEMMA FollowsIsTransitive ==
  ASSUME NEW x \in Pair, NEW y \in Pair, NEW z, Follows(x, y), Follows(y, z)
  PROVE  Follows(x, z)
<1>1. Ends(x.outcome, z.outcome)
  <2>1. \A c, d : [[x.outcome EXCEPT ![sends] = c] EXCEPT ![sends] = d] = [x.outcome EXCEPT ![sends] = d]
    BY DEF Pair
  <2> QED BY <2>1 DEF Follows, Ends
<1> QED BY <1>1 DEF Follows, Later

LEMMA FinishLater ==
  ASSUME NEW x \in Pair, NEW code \in Codes
  PROVE  /\ FinishOutgoing(x, code) \in Pair
         /\ Later(x.client, FinishOutgoing(x, code).client)
         /\ FinishOutgoing(x, code).outcome =
              IF x.active THEN [x.outcome EXCEPT ![sends] = code] ELSE x.outcome
<1> DEFINE d == DisconnectFromHost(x.client)
           o == [x.outcome EXCEPT ![sends] = code]
           y == [client |-> d, active |-> FALSE, outcome |-> o]
<1>1. CASE ~x.active
  BY <1>1 DEF FinishOutgoing, Later
<1>2. CASE x.active
  <2>1. x.client \in Client /\ FinishOutgoing(x, code) = y
    BY <1>2 DEF Pair, FinishOutgoing
  <2>2. d \in Client /\ d.state = "Idle"
    BY <2>1, DisconnectRests
  <2>3. d.link = Leaving(x.client.link)
    <3>1. Forgotten(x.client) \in Client /\ Forgotten(x.client).link = x.client.link
      BY <2>1, ForgottenType DEF Forgotten, Client
    <3> QED BY <3>1 DEF DisconnectFromHost, Client
  <2>4. Later(x.client, d)
    BY <2>2, <2>3 DEF Later, Leaving
  <2>5. o \in [Sends -> {"none", "pending"} \cup Codes]
    BY DEF Pair
  <2> HIDE DEF d, o
  <2>6. y \in Pair
    BY <2>2, <2>5 DEF Pair
  <2> QED BY <1>2, <2>1, <2>4, <2>6 DEF o
<1> QED BY <1>1, <1>2

LEMMA FinishFollows ==
  ASSUME NEW x \in Pair, NEW code \in Failures
  PROVE  Follows(x, FinishOutgoing(x, code))
BY FinishLater DEF Follows, Ends, Codes

\* A client that goes on without connecting or greeting again.
LEMMA GoingFollows ==
  ASSUME NEW x \in Pair, NEW c \in Client, Later(x.client, c)
  PROVE  Follows(x, [x EXCEPT !.client = c])
<1>1. [x EXCEPT !.client = c] \in Pair
      /\ [x EXCEPT !.client = c].client = c
      /\ [x EXCEPT !.client = c].outcome = x.outcome
  BY DEF Pair
<1> QED BY <1>1 DEF Follows, Ends

LEMMA FailFollows ==
  ASSUME NEW x \in Pair, NEW code \in Failures
  PROVE  Follows(x, FailTransfer(x, code))
<1> DEFINE c == [x.client EXCEPT !.file = FALSE, !.state = "Failed"]
           z == [x EXCEPT !.client = c]
<1>1. CASE x.client.state \in Ended
  BY <1>1 DEF FailTransfer, Follows, Ends, Later
<1>2. CASE x.client.state \notin Ended
  <2>1. x.client \in Client
    BY DEF Pair
  <2>2. c \in Client /\ Later(x.client, c)
    BY <2>1 DEF Client, Ended, Later
  <2>3. Follows(x, z)
    BY <2>2, GoingFollows
  <2>4. [x EXCEPT !.client.file = FALSE, !.client.state = "Failed"] = z
    BY <2>1 DEF Pair, Client
  <2>5. FailTransfer(x, code) = FinishOutgoing(z, code)
    BY <1>2, <2>4 DEF FailTransfer
  <2> HIDE DEF z
  <2>6. z \in Pair
    BY <2>3 DEF Follows
  <2> QED BY <2>3, <2>5, <2>6, FinishFollows, FollowsIsTransitive
<1> QED BY <1>1, <1>2

LEMMA ErrorFollows ==
  ASSUME NEW x \in Pair
  PROVE  Follows(x, HandleError(x))
<1>1. "ConnectionFailed" \in Failures
  BY DEF Failures
<1> QED BY <1>1, FinishFollows, FailFollows DEF HandleError

LEMMA HangupFollows ==
  ASSUME NEW x \in Pair
  PROVE  Follows(x, Hangup(x))
<1> DEFINE c == [x.client EXCEPT !.link = Leaving(x.client.link)]
<1>1. x.client \in Client
  BY DEF Pair
<1>2. c \in Client /\ Later(x.client, c)
  BY <1>1, LeavingType DEF Client, Later, Leaving
<1>3. Hangup(x) = [x EXCEPT !.client = c]
  BY <1>1 DEF Hangup, Pair, Client
<1> HIDE DEF c
<1> QED BY <1>2, <1>3, GoingFollows

LEMMA DisconnectedFollows ==
  ASSUME NEW x \in Pair
  PROVE  Follows(x, HandleDisconnected(x))
<1> DEFINE c == x.client
           f == Forgotten(c)
           e == IF c.state \in Active THEN "Failed" ELSE c.state
           d == [f EXCEPT !.link = "down", !.generation = @ + 1, !.state = e]
           z == [x EXCEPT !.client = d]
<1>1. c \in Client
  BY DEF Pair
<1>2. f \in Client
  BY <1>1, ForgottenType
<1>3. e \in {"Idle", "Connecting", "HelloSent"} \cup Active \cup Ended
      /\ (e = "HelloSent" => c.state = "HelloSent")
  BY <1>1 DEF Client, Active, Ended
<1> HIDE DEF f, e
<1>4. d \in Client /\ d.link = "down" /\ d.state = e
  <2>1. f.generation + 1 \in Nat
    BY <1>2 DEF Client
  <2>2. \A g \in Nat : LET y == [f EXCEPT !.link = "down", !.generation = g, !.state = e]
                       IN  y \in Client /\ y.link = "down" /\ y.state = e
    BY <1>2, <1>3 DEF Client
  <2>3. d = [f EXCEPT !.link = "down", !.generation = f.generation + 1, !.state = e]
    OBVIOUS
  <2> HIDE DEF d
  <2> QED BY <2>1, <2>2, <2>3, Zenon
<1>5. HandleDisconnected(x) = FinishOutgoing(z, "ConnectionFailed")
  BY DEF HandleDisconnected, f, e
<1> HIDE DEF d
<1>6. Follows(x, z)
  BY <1>3, <1>4, GoingFollows DEF Later
<1> HIDE DEF z
<1>7. z \in Pair /\ "ConnectionFailed" \in Failures
  BY <1>6 DEF Follows, Failures
<1> QED BY <1>5, <1>6, <1>7, FinishFollows, FollowsIsTransitive

LEMMA AbortFollows ==
  ASSUME NEW x \in Pair
  PROVE  Follows(x, Abort(x))
<1> DEFINE c == [x.client EXCEPT !.link = "down"]
<1>1. CASE x.client.link \in {"up", "closing"}
  BY <1>1, DisconnectedFollows DEF Abort
<1>2. CASE x.client.link \notin {"up", "closing"}
  <2>1. x.client \in Client
    BY DEF Pair
  <2>2. c \in Client /\ Later(x.client, c)
    BY <2>1 DEF Client, Later
  <2>3. Abort(x) = [x EXCEPT !.client = c]
    BY <1>2, <2>1 DEF Abort, Pair, Client
  <2> HIDE DEF c
  <2> QED BY <2>2, <2>3, GoingFollows
<1> QED BY <1>1, <1>2

\* The compositions the handlers are made of.
LEMMA FailAbortFollows ==
  ASSUME NEW x \in Pair, NEW code \in Failures
  PROVE  Follows(x, Abort(FailTransfer(x, code)))
<1>1. Follows(x, FailTransfer(x, code)) /\ FailTransfer(x, code) \in Pair
  BY FailFollows DEF Follows
<1> QED BY <1>1, AbortFollows, FollowsIsTransitive

LEMMA HangupAfterFollows ==
  ASSUME NEW x \in Pair, NEW y, Follows(x, y)
  PROVE  Follows(x, Hangup(y))
<1>1. y \in Pair
  BY DEF Follows
<1> QED BY <1>1, HangupFollows, FollowsIsTransitive

\* Nothing was offered yet.
Awaits ==
    client.link \in {"connecting", "cancelled"} \/ client.state = "HelloSent" \/ worker # NoWorker

\* A frame that is written joins those under way.
LEMMA SentIsLast ==
  ASSUME IInv, NEW f \in SentFrame, Sent(f), NEW k \in Sends, NEW i \in 1..Len(up'[k])
  PROVE  \/ i \in 1..Len(up[k]) /\ up'[k][i] = up[k][i]
         \/ k = sends /\ up'[k][i] = f
<1>1. up \in [Sends -> Seq(SentFrame)] /\ up[k] \in Seq(SentFrame)
  BY DEF IInv, TypeOK
<1>2. CASE k = sends
  <2>1. up'[k] = Append(up[k], f)
    BY <1>1, <1>2 DEF Sent
  <2>2. /\ Len(Append(up[k], f)) = Len(up[k]) + 1
        /\ \A j \in 1..Len(up[k]) : Append(up[k], f)[j] = up[k][j]
        /\ Append(up[k], f)[Len(up[k]) + 1] = f
        /\ Len(up[k]) \in Nat
    BY <1>1
  <2>3. i \in 1..Len(up[k]) \/ i = Len(up[k]) + 1
    BY <2>1, <2>2
  <2> QED BY <1>2, <2>1, <2>2, <2>3
<1>3. CASE k # sends
  BY <1>1, <1>3 DEF Sent
<1> QED BY <1>2, <1>3

LEMMA OfferedKept ==
  ASSUME IInv, OfferedOnce, UNCHANGED <<sends, offered>>, Awaits' => Awaits,
         UNCHANGED up \/ \E f \in SentFrame : f.kind # "FileOffer" /\ Sent(f)
  PROVE  OfferedOnce'
<1>1. ASSUME NEW k \in Sends, NEW i \in 1..Len(up'[k]), up'[k][i].kind = "FileOffer"
      PROVE  up'[k][i].id = k /\ up'[k][i].sha256 = offered'[k]
  <2>1. CASE UNCHANGED up
    BY <1>1, <2>1 DEF OfferedOnce
  <2>2. ASSUME NEW f \in SentFrame, f.kind # "FileOffer", Sent(f)
        PROVE  up'[k][i].id = k /\ up'[k][i].sha256 = offered'[k]
    <3>1. i \in 1..Len(up[k]) /\ up'[k][i] = up[k][i]
      BY <1>1, <2>2, SentIsLast
    <3> QED BY <1>1, <3>1 DEF OfferedOnce
  <2> QED BY <2>1, <2>2
<1> QED BY <1>1 DEF OfferedOnce, Awaits

\* A handler that fails the transfer or leaves it as it is.
LEMMA FollowingKeepsOffer ==
  ASSUME IInv, OfferedOnce, NEW x, Follows(Now, x), Becomes(x),
         UNCHANGED <<sends, worker, up, offered>>
  PROVE  OfferedOnce' /\ Ends(outcome, outcome')
<1>1. Awaits' => Awaits
  BY DEF Follows, Later, Becomes, Now, Awaits
<1> QED BY <1>1, OfferedKept DEF Follows, Becomes, Now

\* Only what is owed is called.
LEMMA AnswersPending ==
  ASSUME IInv, Final, NEW code, outcome' = [outcome EXCEPT ![sends] = code]
  PROVE  outcome' = outcome \/ (sends \in Sends /\ outcome[sends] = "pending")
<1>1. outcome \in [Sends -> {"none", "pending", "Ok"} \cup Failures]
  BY DEF IInv, TypeOK
<1>2. CASE sends \notin Sends
  BY <1>1, <1>2
<1>3. CASE sends \in Sends
  <2>1. outcome[sends] # "none"
    BY <1>3 DEF IInv, OneCompletionOwed, Sends
  <2>2. outcome[sends] # "pending" => outcome'[sends] = outcome[sends]
    BY <1>3, <2>1 DEF Final
  <2> QED BY <1>1, <1>3, <2>2
<1> QED BY <1>2, <1>3

LEMMA StopOffers ==
  ASSUME IInv, OfferedOnce, Stop
  PROVE  OfferedOnce' /\ Ends(outcome, outcome')
<1>1. Now \in Pair /\ "Cancelled" \in Failures
  BY NowIsSane DEF Sane, Failures
<1> QED BY <1>1, FinishFollows, FollowingKeepsOffer DEF Stop

LEMMA HandleConnectErrorOffers ==
  ASSUME IInv, OfferedOnce, HandleConnectError
  PROVE  OfferedOnce' /\ Ends(outcome, outcome')
<1> DEFINE c == [client EXCEPT !.link = "down"]
           x == With(c)
<1>1. Now \in Pair /\ Now.client = client /\ client \in Client
  BY NowIsSane DEF Sane, Now, Pair
<1>2. c \in Client /\ Later(client, c)
  BY <1>1 DEF Client, Later
<1> HIDE DEF c
<1>3. Follows(Now, x)
  BY <1>1, <1>2, GoingFollows DEF With
<1>4. x \in Pair
  BY <1>3 DEF Follows
<1>5. Follows(Now, HandleError(x))
  BY <1>1, <1>3, <1>4, ErrorFollows, FollowsIsTransitive
<1>6. Becomes(HandleError(x)) /\ UNCHANGED <<sends, worker, source, up, offered>>
  BY DEF HandleConnectError, c
<1> HIDE DEF x
<1> QED BY <1>5, <1>6, FollowingKeepsOffer

LEMMA HandleLinkDownOffers ==
  ASSUME IInv, OfferedOnce, HandleLinkDown
  PROVE  OfferedOnce' /\ Ends(outcome, outcome')
<1> DEFINE x == IF client.link = "up" THEN HandleError(Now) ELSE Now
<1>1. Now \in Pair
  BY NowIsSane DEF Sane
<1>2. Follows(Now, x)
  BY <1>1, ErrorFollows DEF Follows, Ends, Later
<1>3. Becomes(HandleDisconnected(x)) /\ UNCHANGED <<sends, worker, up, offered>>
  BY DEF HandleLinkDown
<1> HIDE DEF x
<1>4. x \in Pair
  BY <1>2 DEF Follows
<1>5. Follows(Now, HandleDisconnected(x))
  BY <1>1, <1>2, <1>4, DisconnectedFollows, FollowsIsTransitive
<1> QED BY <1>3, <1>5, FollowingKeepsOffer

LEMMA HandleConnectedOffers ==
  ASSUME IInv, OfferedOnce, HandleConnected
  PROVE  OfferedOnce' /\ Ends(outcome, outcome')
<1> DEFINE n == client.next_id
           l == IF client.link = "connecting" THEN "up" ELSE "closing"
           c == [client EXCEPT !.link = l, !.state = "HelloSent", !.hello_id = n, !.next_id = @ + 1]
           x == With(c)
<1>1. client \in Client /\ n \in Nat \ {0} /\ n + 1 \in Nat \ {0}
  BY DEF IInv, TypeOK, Client
<1>2. c \in Client /\ c.state = "HelloSent"
  BY <1>1 DEF Client
<1>3. /\ \/ Becomes(x) /\ Sent([kind |-> "Hello", rid |-> n])
         \/ Becomes(Abort(FailTransfer(x, "ConnectionFailed"))) /\ UNCHANGED up
      /\ client.link \in {"connecting", "cancelled"}
      /\ UNCHANGED <<sends, worker, offered>>
  BY DEF HandleConnected
<1> HIDE DEF c
<1>4. x \in Pair /\ x.outcome = outcome
  BY <1>2, WithIs
<1>5. Awaits
  BY <1>3 DEF Awaits
<1>6. CASE Becomes(x) /\ Sent([kind |-> "Hello", rid |-> n])
  <2>1. [kind |-> "Hello", rid |-> n] \in SentFrame
    BY <1>1 DEF SentFrame
  <2>2. outcome' = outcome
    BY <1>4, <1>6 DEF Becomes
  <2> QED BY <1>3, <1>5, <1>6, <2>1, <2>2, OfferedKept DEF Ends
<1>7. CASE Becomes(Abort(FailTransfer(x, "ConnectionFailed"))) /\ UNCHANGED up
  <2>1. "ConnectionFailed" \in Failures
    BY DEF Failures
  <2>2. Follows(x, Abort(FailTransfer(x, "ConnectionFailed")))
    BY <1>4, <2>1, FailAbortFollows
  <2>3. Ends(outcome, outcome')
    BY <1>4, <1>7, <2>2 DEF Follows, Becomes
  <2> QED BY <1>3, <1>5, <1>7, <2>3, OfferedKept
<1> QED BY <1>3, <1>6, <1>7

\* The answers of the peer: a result that says Ok is the one thing that makes it Ok.
Succeeds(f) ==
    /\ f.kind = "FileResult" /\ f.code = "Ok"
    /\ outcome' = [outcome EXCEPT ![sends] = "Ok"]

LEMMA UnexpectedOffers ==
  ASSUME IInv, OfferedOnce, Unexpected, UNCHANGED <<sends, up, offered>>
  PROVE  OfferedOnce' /\ Ends(outcome, outcome')
<1>1. Now \in Pair /\ "ProtocolError" \in Failures
  BY NowIsSane DEF Sane, Failures
<1> QED BY <1>1, FailAbortFollows, FollowingKeepsOffer DEF Unexpected

LEMMA UncorrelatedOffers ==
  ASSUME IInv, OfferedOnce, Becomes(Hangup(HandleError(Now))), UNCHANGED <<sends, worker, up, offered>>
  PROVE  OfferedOnce' /\ Ends(outcome, outcome')
<1>1. Now \in Pair
  BY NowIsSane DEF Sane
<1> QED BY <1>1, ErrorFollows, HangupAfterFollows, FollowingKeepsOffer

\* The handler changes the client, and may then finish with a failure.
LEMMA GoesOn ==
  ASSUME IInv, OfferedOnce, NEW c \in Client, Later(client, c),
         \/ Becomes(With(c))
         \/ \E code \in Failures : Becomes(FinishOutgoing(With(c), code)),
         UNCHANGED <<sends, worker, up, offered>>
  PROVE  OfferedOnce' /\ Ends(outcome, outcome')
<1>1. Now \in Pair /\ Now.client = client
  BY NowIsSane DEF Sane, Now
<1>2. Follows(Now, With(c))
  BY <1>1, GoingFollows DEF With
<1>3. CASE Becomes(With(c))
  BY <1>2, <1>3, FollowingKeepsOffer
<1>4. ASSUME NEW code \in Failures, Becomes(FinishOutgoing(With(c), code))
      PROVE  OfferedOnce' /\ Ends(outcome, outcome')
  <2>1. With(c) \in Pair
    BY <1>2 DEF Follows
  <2>2. Follows(Now, FinishOutgoing(With(c), code))
    BY <1>1, <1>2, <2>1, FinishFollows, FollowsIsTransitive
  <2> QED BY <1>4, <2>2, FollowingKeepsOffer
<1> QED BY <1>3, <1>4

LEMMA HandleHelloAckOffers ==
  ASSUME IInv, OfferedOnce, NEW f, HandleHelloAck(f), UNCHANGED <<sends, up, offered>>
  PROVE  OfferedOnce' /\ Ends(outcome, outcome')
<1> DEFINE c == Greeted
<1>1. client \in Client
  BY DEF IInv, TypeOK
<1>2. c \in Client /\ c.state = "Idle" /\ c.link = client.link /\ Later(client, c)
  BY <1>1 DEF Client, Greeted, Later
<1>3. CASE ~Greets(f)
  BY <1>3, UnexpectedOffers DEF HandleHelloAck
<1>4. CASE Greets(f) /\ ~outgoing_active
  BY <1>2, <1>4, GoesOn DEF HandleHelloAck
<1>5. CASE Greets(f) /\ outgoing_active /\ source = Missing
  <2>1. "PathNotFound" \in Failures
    BY DEF Failures
  <2> QED BY <1>2, <1>5, <2>1, GoesOn DEF HandleHelloAck
<1>6. CASE Greets(f) /\ outgoing_active /\ source # Missing
  <2>1. OfferFile /\ Awaits
    BY <1>6 DEF HandleHelloAck, Greets, Awaits
  <2>2. outcome' = outcome
    BY <2>1 DEF OfferFile, Becomes, With, Now
  <2> QED BY <2>1, <2>2, OfferedKept DEF Ends
<1> QED BY <1>3, <1>4, <1>5, <1>6

LEMMA HandleFileAcceptOffers ==
  ASSUME IInv, OfferedOnce, NEW f, HandleFileAccept(f), UNCHANGED <<sends, up, offered>>
  PROVE  OfferedOnce' /\ Ends(outcome, outcome')
<1> DEFINE c == [client EXCEPT !.state = IF client.file THEN "Sending" ELSE "Idle"]
<1>1. client \in Client
  BY DEF IInv, TypeOK
<1>2. c \in Client /\ Later(client, c)
  BY <1>1 DEF Client, Active, Later
<1>3. CASE client.state # "Offering"
  BY <1>3, UnexpectedOffers DEF HandleFileAccept
<1>4. CASE client.state = "Offering" /\ ~Correlates(f, client.offer_id)
  BY <1>4, UncorrelatedOffers DEF HandleFileAccept
<1>5. CASE client.state = "Offering" /\ Correlates(f, client.offer_id)
  <2>1. Becomes(With(c)) /\ UNCHANGED worker
    BY <1>5 DEF HandleFileAccept
  <2> HIDE DEF c
  <2> QED BY <1>2, <2>1, GoesOn
<1> QED BY <1>3, <1>4, <1>5

LEMMA HandleFileRejectOffers ==
  ASSUME IInv, OfferedOnce, NEW f, f.code \in Failures, HandleFileReject(f),
         UNCHANGED <<sends, up, offered>>
  PROVE  OfferedOnce' /\ Ends(outcome, outcome')
<1> DEFINE c == [client EXCEPT !.file = FALSE, !.state = IF client.file THEN "Failed" ELSE "Idle"]
<1>1. client \in Client
  BY DEF IInv, TypeOK
<1>2. c \in Client /\ Later(client, c)
  BY <1>1 DEF Client, Ended, Later
<1>3. CASE client.state # "Offering"
  BY <1>3, UnexpectedOffers DEF HandleFileReject
<1>4. CASE client.state = "Offering" /\ ~Correlates(f, client.offer_id)
  BY <1>4, UncorrelatedOffers DEF HandleFileReject
<1>5. CASE client.state = "Offering" /\ Correlates(f, client.offer_id)
  <2>1. Becomes(FinishOutgoing(With(c), f.code)) /\ UNCHANGED worker
    BY <1>5 DEF HandleFileReject
  <2> HIDE DEF c
  <2> QED BY <1>2, <2>1, GoesOn
<1> QED BY <1>3, <1>4, <1>5

LEMMA HandleFileResultOffers ==
  ASSUME IInv, OfferedOnce, NEW f, f.kind = "FileResult", f.code \in Codes, HandleFileResult(f),
         UNCHANGED <<sends, up, offered>>
  PROVE  OfferedOnce' /\ (Ends(outcome, outcome') \/ Succeeds(f))
<1> DEFINE c == [client EXCEPT !.file = FALSE,
                               !.state = IF f.code = "Ok" THEN "Completed" ELSE "Failed"]
           y == FinishOutgoing(With(c), f.code)
<1>1. client \in Client /\ Now \in Pair
  BY NowIsSane DEF IInv, TypeOK, Sane
<1>2. c \in Client /\ Later(client, c)
  BY <1>1 DEF Client, Ended, Later
<1>3. CASE client.state \in Ended
  <2>1. Becomes(Now) /\ UNCHANGED worker
    BY <1>3 DEF HandleFileResult, Ended
  <2>2. Follows(Now, Now)
    BY <1>1 DEF Follows, Ends, Later
  <2> QED BY <2>1, <2>2, FollowingKeepsOffer
<1>4. CASE client.state \notin Ended \cup {"Finishing"}
  BY <1>4, UnexpectedOffers DEF HandleFileResult
<1>5. CASE client.state = "Finishing" /\ ~Correlates(f, client.finish_id)
  <2>1. PICK code \in {"InvalidArgument", "ProtocolError"} : Becomes(Hangup(FailTransfer(Now, code)))
    BY <1>5 DEF HandleFileResult, Ended
  <2>2. code \in Failures /\ UNCHANGED worker
    BY <1>5 DEF HandleFileResult, Ended, Failures
  <2> QED BY <1>1, <2>1, <2>2, FailFollows, HangupAfterFollows, FollowingKeepsOffer
<1>6. CASE client.state = "Finishing" /\ Correlates(f, client.finish_id)
  <2>1. Becomes(y) /\ UNCHANGED worker
    BY <1>6 DEF HandleFileResult, Ended
  <2> HIDE DEF c
  <2>2. With(c) \in Pair /\ With(c).client = c /\ With(c).outcome = outcome
    BY <1>2, WithIs
  <2>3. Later(c, y.client) /\ (y.outcome = outcome \/ y.outcome = [outcome EXCEPT ![sends] = f.code])
    BY <2>2, FinishLater
  <2> HIDE DEF y
  <2>4. Awaits' => Awaits
    BY <1>2, <2>1, <2>3 DEF Awaits, Becomes, Later
  <2>5. Ends(outcome, outcome') \/ Succeeds(f)
    BY <2>1, <2>3 DEF Becomes, Ends, Succeeds, Codes
  <2> QED BY <2>4, <2>5, OfferedKept
<1> QED BY <1>3, <1>4, <1>5, <1>6

LEMMA HandleFrameOffers ==
  ASSUME IInv, OfferedOnce, NEW f \in PeerFrame, HandleFrame(f)
  PROVE  OfferedOnce' /\ (Ends(outcome, outcome') \/ Succeeds(f))
<1> USE DEF HandleFrame
<1>1. CASE f.kind = "HelloAck"
  BY <1>1, HandleHelloAckOffers
<1>2. CASE f.kind = "FileAccept"
  BY <1>2, HandleFileAcceptOffers
<1>3. CASE f.kind = "FileReject"
  <2>1. f.code \in Failures
    BY <1>3 DEF PeerFrame
  <2> QED BY <1>3, <2>1, HandleFileRejectOffers
<1>4. CASE f.kind = "FileResult"
  <2>1. f.code \in Codes
    BY <1>4 DEF PeerFrame, Codes
  <2> QED BY <1>4, <2>1, HandleFileResultOffers
<1>5. CASE f.kind \notin {"HelloAck", "FileAccept", "FileReject", "FileResult"}
  BY <1>5, UncorrelatedOffers DEF HandleOther
<1> QED BY <1>1, <1>2, <1>3, <1>4, <1>5

\* A send begins, when none is under way.
Starts ==
    /\ UNCHANGED offered
    /\ sends + 1 \in Sends
    /\ outcome' = [outcome EXCEPT ![sends + 1] = "pending"]
    /\ outcome[sends + 1] = "none"
    /\ \A k \in Sends : outcome[k] # "pending"

LEMMA SendFileOffers == ASSUME IInv, OfferedOnce, SendFile PROVE OfferedOnce' /\ Starts
<1> USE DEF SendFile
<1>1. sends \in Nat /\ sends + 1 \in Sends
  BY SendAssumption DEF IInv, TypeOK, Sends
<1>2. outcome[sends + 1] = "none" /\ \A k \in Sends : outcome[k] # "pending"
  BY <1>1 DEF IInv, OneCompletionOwed, Sends
<1>3. OfferedOnce'
  BY <1>1 DEF OfferedOnce, Sends
<1> QED BY <1>1, <1>2, <1>3 DEF Starts

\* The worker that finishes is still the one of this connection.
LEMMA AloneOffers ==
  ASSUME IInv, OfferedOnce, HashFinishes \/ SourceChanges
  PROVE  OfferedOnce' /\ outcome' = outcome /\ UNCHANGED offered
<1>1. UNCHANGED <<sends, outcome, client, up, offered>> /\ (Awaits' => Awaits)
  BY DEF HashFinishes, SourceChanges, Awaits
<1> QED BY <1>1, OfferedKept

\* The one offer of a send.
Offers ==
    /\ outcome' = outcome
    /\ sends \in Sends /\ outcome[sends] = "pending"
    /\ offered[sends] = NoDigest
    /\ \E d \in Digests : offered' = [offered EXCEPT ![sends] = d]

LEMMA SendFileOfferOffers ==
  ASSUME IInv, OfferedOnce, worker \in Worker, worker.digest \in Digests,
         client.state = "Offering", SendFileOffer,
         worker' = NoWorker, UNCHANGED sends
  PROVE  OfferedOnce' /\ (Offers \/ (UNCHANGED offered /\ Ends(outcome, outcome')))
<1> DEFINE n == client.next_id
           c == [client EXCEPT !.file = TRUE, !.offset = 0, !.size = worker.size,
                               !.offer_id = n, !.next_id = @ + 1, !.transfer_id = sends]
           x == With(c)
           d == worker.digest
           f == [kind |-> "FileOffer", rid |-> n, id |-> sends, name |-> FileName,
                 size |-> worker.size, sha256 |-> d]
           y == [FailTransfer(x, "ConnectionFailed") EXCEPT !.client.file = FALSE, !.client.state = "Failed"]
<1>1. client \in Client /\ n \in Nat \ {0} /\ n + 1 \in Nat \ {0} /\ worker.size \in Nat
  <2>1. worker.size \in Nat
    BY DEF Worker
  <2>2. client \in Client /\ n \in Nat \ {0}
    BY DEF IInv, TypeOK, Client
  <2> QED BY <2>1, <2>2
<1>2. /\ sends \in Sends /\ sends \in 0..MaxSends
      /\ outcome[sends] = "pending"
      /\ offered[sends] = NoDigest
  <2>1. outgoing_active
    BY DEF IInv, OfferIsOpen, Active
  <2>2. sends \in Sends /\ outcome[sends] = "pending" /\ sends \in 0..MaxSends
    BY <2>1 DEF IInv, TypeOK, OneCompletionOwed, Sends
  <2> QED BY <2>2, WorkerAssumption DEF OfferedOnce
<1>3. c \in Client /\ c.state = "Offering" /\ c.link = client.link
  BY <1>1, <1>2 DEF Client
<1>4. \/ client.link = "up" /\ Becomes(x) /\ Sent(f) /\ offered' = [offered EXCEPT ![sends] = d]
      \/ Becomes(y) /\ UNCHANGED <<up, offered>>
  BY DEF SendFileOffer
<1> HIDE DEF c
<1>5. CASE client.link = "up" /\ Becomes(x) /\ Sent(f) /\ offered' = [offered EXCEPT ![sends] = d]
  <2>1. client' = c /\ outcome' = outcome
    BY <1>3, <1>5, WithIs DEF Becomes
  <2>2. ~Awaits'
    BY <1>3, <1>5, <2>1 DEF Awaits
  <2>3. f \in SentFrame
    <3>1. f \in [kind : {"FileOffer"}, rid : Nat, id : Sends, name : {FileName}, size : Nat,
                 sha256 : Digests]
      BY <1>1, <1>2
    <3> HIDE DEF f
    <3> QED BY <3>1, Zenon DEF SentFrame
  <2>4. offered \in [Sends -> Digests \cup {NoDigest}]
    BY DEF IInv, TypeOK
  <2>5. ASSUME NEW k \in Sends, NEW i \in 1..Len(up'[k]), up'[k][i].kind = "FileOffer"
        PROVE  up'[k][i].id = k /\ up'[k][i].sha256 = offered'[k]
    <3>1. CASE k = sends /\ up'[k][i] = f
      BY <1>2, <1>5, <2>4, <3>1
    <3>2. CASE i \in 1..Len(up[k]) /\ up'[k][i] = up[k][i]
      <4>1. up[k][i].id = k /\ up[k][i].sha256 = offered[k]
        BY <2>5, <3>2 DEF OfferedOnce
      <4>2. up[k] \in Seq(SentFrame)
        BY DEF IInv, TypeOK
      <4>3. up[k][i] \in SentFrame
        BY <3>2, <4>2
      <4>4. up[k][i].sha256 \in Digests
        BY <2>5, <3>2, <4>3 DEF SentFrame
      <4>5. k # sends
        BY <1>2, <4>1, <4>4, WorkerAssumption
      <4> QED BY <1>5, <2>4, <3>2, <4>1, <4>5
    <3> HIDE DEF f
    <3> QED BY <1>5, <2>3, <3>1, <3>2, SentIsLast
  <2>6. \A k \in Sends : k > sends' => offered'[k] = NoDigest
    BY <1>2, <1>5, <2>4 DEF OfferedOnce, Sends
  <2>7. OfferedOnce'
    BY <2>2, <2>5, <2>6 DEF OfferedOnce, Awaits
  <2>8. Offers
    BY <1>2, <1>5, <2>1 DEF Offers
  <2> QED BY <2>7, <2>8
<1>6. CASE Becomes(y) /\ UNCHANGED <<up, offered>>
  <2> DEFINE z == FailTransfer(x, "ConnectionFailed")
  <2>1. x \in Pair /\ x.outcome = outcome /\ x.client = c /\ "ConnectionFailed" \in Failures
    BY <1>3, WithIs DEF Failures
  <2>2. Follows(x, z)
    BY <2>1, FailFollows
  <2> HIDE DEF x, z
  <2>3. z \in Pair /\ z.client \in Client
    BY <2>2 DEF Follows, Pair
  <2>4. y = [z EXCEPT !.client.file = FALSE, !.client.state = "Failed"]
    BY DEF z
  <2> HIDE DEF y
  <2>5. y.outcome = z.outcome /\ y.client.link = z.client.link /\ y.client.state = "Failed"
    BY <2>3, <2>4 DEF Pair, Client
  <2>6. Ends(outcome, outcome')
    BY <1>6, <2>1, <2>2, <2>5 DEF Follows, Becomes
  <2>7. Awaits' => Awaits
    BY <1>3, <1>6, <2>1, <2>2, <2>5 DEF Follows, Later, Becomes, Awaits
  <2> QED BY <1>6, <2>6, <2>7, OfferedKept
<1> QED BY <1>4, <1>5, <1>6

LEMMA HandleHashResultOffers ==
  ASSUME IInv, OfferedOnce, HandleHashResult
  PROVE  OfferedOnce' /\ (Offers \/ (UNCHANGED offered /\ Ends(outcome, outcome')))
<1> DEFINE Stale == worker.generation # client.generation \/ client.state # "Offering"
           Bad == worker.digest = Missing \/ source = Missing
<1>1. worker \in Worker /\ worker.done /\ worker' = NoWorker /\ UNCHANGED sends
  BY DEF HandleHashResult, IInv, TypeOK
<1>2. worker.digest \in Digests \cup {Missing}
  BY <1>1 DEF Worker
<1>3. CASE Stale
  <2>1. UNCHANGED <<outcome, client, up, offered>>
    BY <1>3 DEF HandleHashResult, Becomes, Now
  <2>2. Awaits' => Awaits
    BY <1>1, <2>1 DEF Awaits
  <2> QED BY <1>1, <2>1, <2>2, OfferedKept DEF Ends
<1>4. CASE ~Stale /\ Bad
  <2>1. Becomes(FailTransfer(Now, "IoError")) /\ UNCHANGED <<up, offered>>
    BY <1>4 DEF HandleHashResult
  <2>2. Now \in Pair /\ "IoError" \in Failures
    BY NowIsSane DEF Sane, Failures
  <2>3. Follows(Now, FailTransfer(Now, "IoError"))
    BY <2>2, FailFollows
  <2>4. (Awaits' => Awaits) /\ Ends(outcome, outcome')
    BY <1>1, <2>1, <2>3 DEF Follows, Later, Becomes, Now, Awaits
  <2> QED BY <1>1, <2>1, <2>4, OfferedKept
<1>5. CASE ~Stale /\ ~Bad
  <2>1. SendFileOffer
    BY <1>5 DEF HandleHashResult
  <2> QED BY <1>1, <1>2, <1>5, <2>1, SendFileOfferOffers
<1> QED BY <1>3, <1>4, <1>5

\* What the pump sends is no offer.
LEMMA SendOrFailOffers ==
  ASSUME IInv, OfferedOnce, NEW c \in Client, Later(client, c),
         NEW f \in SentFrame, f.kind # "FileOffer",
         SendOrFail(With(c), f), UNCHANGED <<sends, worker, offered>>
  PROVE  OfferedOnce' /\ Ends(outcome, outcome')
<1>1. Now \in Pair /\ Now.client = client /\ Now.outcome = outcome
  BY NowIsSane DEF Sane, Now
<1>2. Follows(Now, With(c))
  BY <1>1, GoingFollows DEF With
<1>3. CASE Becomes(With(c)) /\ Sent(f)
  <2>1. (Awaits' => Awaits) /\ Ends(outcome, outcome')
    BY <1>1, <1>2, <1>3 DEF Follows, Later, Becomes, Awaits
  <2> QED BY <1>3, <2>1, OfferedKept
<1>4. CASE Becomes(Abort(FailTransfer(With(c), "ConnectionFailed"))) /\ UNCHANGED up
  <2>1. With(c) \in Pair /\ "ConnectionFailed" \in Failures
    BY <1>2 DEF Follows, Failures
  <2>2. Follows(Now, Abort(FailTransfer(With(c), "ConnectionFailed")))
    BY <1>1, <1>2, <2>1, FailAbortFollows, FollowsIsTransitive
  <2> QED BY <1>4, <2>2, FollowingKeepsOffer
<1> QED BY <1>3, <1>4 DEF SendOrFail

LEMMA SendNextChunkOffers ==
  ASSUME IInv, OfferedOnce, SendNextChunk
  PROVE  OfferedOnce' /\ Ends(outcome, outcome')
<1>1. /\ client.state = "Sending" /\ UNCHANGED <<sends, worker, offered>>
  BY DEF SendNextChunk
<1>2. client \in Client /\ client.next_id \in Nat \ {0} /\ client.next_id + 1 \in Nat \ {0}
      /\ client.offset \in Nat
  BY DEF IInv, TypeOK, Client
<1>3. source # Missing /\ client.transfer_id \in Sends
  BY <1>1, <1>2 DEF IInv, OfferIsOpen, Client, Sends, SendNextChunk
<1>4. CASE SendFileFinish
  <2> DEFINE n == client.next_id
             c == [client EXCEPT !.file = FALSE, !.state = "Finishing", !.finish_id = n, !.next_id = @ + 1]
             f == [kind |-> "FileFinish", rid |-> n, id |-> client.transfer_id]
  <2>1. c \in Client /\ Later(client, c)
    BY <1>2 DEF Client, Active, Later
  <2>2. f \in SentFrame /\ f.kind # "FileOffer"
    <3>1. f \in [kind : {"FileFinish"}, rid : Nat, id : Sends] /\ f.kind # "FileOffer"
      BY <1>2, <1>3
    <3> HIDE DEF f
    <3> QED BY <3>1, Zenon DEF SentFrame
  <2>3. SendOrFail(With(c), f)
    BY <1>4 DEF SendFileFinish
  <2> HIDE DEF c, f
  <2> QED BY <1>1, <2>1, <2>2, <2>3, SendOrFailOffers
<1>5. CASE SendFileChunk
  <2> DEFINE c == [client EXCEPT !.offset = @ + Len(NextChunk), !.next_id = @ + 1]
             f == [kind |-> "FileChunk", rid |-> client.next_id, id |-> client.transfer_id,
                   offset |-> client.offset, data |-> NextChunk]
  <2>1. NextChunk \in Seq(SourceBlocks) /\ Len(NextChunk) \in Nat
    <3>1. source \in Seq(SourceBlocks) /\ Len(source) \in Nat
      BY <1>3, ContentLength
    <3>2. NextChunk \in Seq(SourceBlocks)
      BY <1>2, <3>1, SendAssumption DEF NextChunk
    <3> QED BY <3>2
  <2>2. c \in Client /\ Later(client, c)
    <3>1. client.offset + Len(NextChunk) \in Nat
      BY <1>2, <2>1
    <3> QED BY <1>2, <3>1 DEF Client, Later
  <2>3. f \in SentFrame /\ f.kind # "FileOffer"
    <3>1. f \in [kind : {"FileChunk"}, rid : Nat, id : Sends, offset : Nat, data : Seq(SourceBlocks)]
          /\ f.kind # "FileOffer"
      BY <1>2, <1>3, <2>1
    <3> HIDE DEF f
    <3> QED BY <3>1, Zenon DEF SentFrame
  <2>4. CASE SendOrFail(With(c), f)
    <3> HIDE DEF c, f
    <3> QED BY <1>1, <2>2, <2>3, <2>4, SendOrFailOffers
  <2>5. CASE Becomes(FailTransfer(Now, "IoError")) /\ UNCHANGED up
    <3>1. Now \in Pair /\ "IoError" \in Failures
      BY NowIsSane DEF Sane, Failures
    <3> QED BY <1>1, <2>5, <3>1, FailFollows, FollowingKeepsOffer
  <2> QED BY <1>5, <2>4, <2>5 DEF SendFileChunk
<1> QED BY <1>4, <1>5 DEF SendNextChunk

\* Frames leave the connection, at its other end or because that end is gone.
LEMMA LessUnderWay ==
  ASSUME IInv, OfferedOnce, NEW k \in Sends, NEW q, q = <<>> \/ (up[k] # <<>> /\ q = Tail(up[k])),
         up' = [up EXCEPT ![k] = q],
         UNCHANGED <<sends, outgoing_active, outcome, client, worker, source, offered>>
  PROVE  IInv' /\ OfferedOnce'
<1>1. up \in [Sends -> Seq(SentFrame)] /\ up[k] \in Seq(SentFrame)
  BY DEF IInv, TypeOK
<1>2. /\ q \in Seq(SentFrame)
      /\ \A i \in 1..Len(q) : \E j \in 1..Len(up[k]) : q[i] = up[k][j]
  <2>1. CASE q = <<>>
    BY <2>1
  <2>2. CASE up[k] # <<>> /\ q = Tail(up[k])
    <3>1. /\ q \in Seq(SentFrame)
          /\ Len(q) = Len(up[k]) - 1
          /\ Len(up[k]) \in Nat
          /\ \A i \in 1..Len(q) : q[i] = up[k][i + 1]
      BY <1>1, <2>2
    <3>2. \A i \in 1..Len(q) : i + 1 \in 1..Len(up[k])
      BY <3>1
    <3> QED BY <3>1, <3>2
  <2> QED BY <2>1, <2>2
<1>3. TypeOK'
  BY <1>1, <1>2 DEF IInv, TypeOK
<1>4. OneCompletionOwed' /\ OutgoingIsAlive' /\ FileIsClosed' /\ OfferIsOpen'
  BY DEF IInv, OneCompletionOwed, OutgoingIsAlive, FileIsClosed, OfferIsOpen
<1>5. ASSUME NEW j \in Sends, NEW i \in 1..Len(up'[j]), up'[j][i].kind = "FileOffer"
      PROVE  up'[j][i].id = j /\ up'[j][i].sha256 = offered'[j]
  <2>1. CASE j = k
    <3>1. up'[j] = q
      BY <1>1, <2>1
    <3>2. PICK h \in 1..Len(up[k]) : q[i] = up[k][h]
      BY <1>2, <1>5, <3>1
    <3> QED BY <1>5, <2>1, <3>1, <3>2 DEF OfferedOnce
  <2>2. CASE j # k
    BY <1>1, <1>5, <2>2 DEF OfferedOnce
  <2> QED BY <2>1, <2>2
<1>6. OfferedOnce'
  BY <1>5 DEF OfferedOnce
<1> QED BY <1>3, <1>4, <1>6 DEF IInv

LEMMA InitOffers == ASSUME Init PROVE OfferedOnce
<1>1. NewClient \in Client
  BY SendAssumption DEF NewClient, Client
<1>2. client.state = "Idle" /\ client.link = "down"
  BY <1>1 DEF Init, NewClient, Client
<1> QED BY <1>2 DEF Init, OfferedOnce

\* Whatever the sender does of itself starts a send, makes its one offer, or
\* fails it, if it does anything to it at all.
LEMMA AloneKeeps ==
  ASSUME IInv, OfferedOnce,
         \/ SendFile \/ Stop \/ SourceChanges \/ HashFinishes \/ HandleHashResult \/ SendNextChunk
         \/ HandleConnected \/ HandleConnectError \/ HandleLinkDown
  PROVE  /\ IInv' /\ Final /\ OfferedOnce'
         /\ Starts \/ Offers \/ (UNCHANGED offered /\ Ends(outcome, outcome'))
<1>1. IInv' /\ Final
  BY SendFileStep, StopStep, SourceChangesStep, HashFinishesStep, HandleHashResultStep,
     SendNextChunkStep, HandleConnectedStep, HandleConnectErrorStep, HandleLinkDownStep
<1>2. UNCHANGED offered \/ SendFile \/ HashFinishes \/ SourceChanges \/ HandleHashResult
  BY DEF Stop, SendNextChunk, HandleConnected, HandleConnectError, HandleLinkDown
<1>3. /\ OfferedOnce'
      /\ Starts \/ Offers \/ (UNCHANGED offered /\ Ends(outcome, outcome'))
  BY <1>2, SendFileOffers, StopOffers, AloneOffers, HandleHashResultOffers, SendNextChunkOffers,
     HandleConnectedOffers, HandleConnectErrorOffers, HandleLinkDownOffers, Zenon DEF Ends
<1> QED BY <1>1, <1>3
=============================================================================

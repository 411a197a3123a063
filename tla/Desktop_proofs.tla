---------------------------- MODULE Desktop_proofs ----------------------------
(***************************************************************************)
(* The window keeps its invariant for any number of requests, texts and    *)
(* connections: what its controls show and what its table holds is so.     *)
(***************************************************************************)
EXTENDS Desktop, SequenceTheorems, TLAPS

\* The request kinds of which a last reply is awaited whenever an id is held.
AwaitedKinds == HeldKinds \ {"Search"}

\* The requests with their last replies, as a predicate of open, unread, held,
\* next_request_id and text.
Owing(op, un, k, id) ==
    \/ \E r \in op : r.kind = k /\ r.id = id
    \/ \E n \in 1..Len(un) : un[n].kind = k /\ un[n].id = id /\ un[n].part = "Last"

FramesOK(op, un, nx) ==
    \A n \in 1..Len(un) :
        /\ un[n].id \in 1..nx - 1
        /\ un[n].part = "Progress" => un[n].kind = "Scan"
        /\ un[n].part = "Accepted" => un[n].kind \in {"Scan", "Send"}
        /\ un[n].kind = "Status" /\ un[n].ok => un[n].data \in {"Enabled", "Disabled"}
        /\ un[n].part = "Last" =>
              /\ \A r \in op : r.id # un[n].id
              /\ \A m \in 1..Len(un) : un[m].part = "Last" /\ un[m].id = un[n].id => m = n

SearchOK(op, un, he, tx) ==
    /\ \A r \in op : r.kind = "Search" /\ r.id = he["Search"] => r.query = tx
    /\ \A n \in 1..Len(un) :
          un[n].kind = "Search" /\ un[n].id = he["Search"] /\ un[n].ok => un[n].data = tx

Asked(op, un, he, nx, tx) ==
    /\ op \subseteq Requests /\ un \in Seq(Frames) /\ he \in [HeldKinds -> Nat] /\ nx \in Nat \ {0}
    /\ \A r \in op : r.id \in 1..nx - 1
    /\ \A r, s \in op : r.id = s.id => r = s
    /\ FramesOK(op, un, nx)
    /\ \A k \in HeldKinds : he[k] < nx
    /\ \A k \in AwaitedKinds : \A id \in 1..nx - 1 : he[k] = id <=> Owing(op, un, k, id)
    /\ SearchOK(op, un, he, tx)

-----------------------------------------------------------------------------
\* What is asked and answered.

\* All that was under way goes with the connection.
LEMMA NothingAsked ==
  ASSUME NEW nx \in Nat \ {0}, NEW tx
  PROVE  Asked({}, << >>, NoneHeld, nx, tx)
<1>1. << >> \in Seq(Frames) /\ Len(<< >>) = 0
  OBVIOUS
<1>2. NoneHeld \in [HeldKinds -> Nat] /\ \A k \in HeldKinds : NoneHeld[k] = 0
  BY DEF NoneHeld
<1>3. FramesOK({}, << >>, nx)
  BY <1>1 DEF FramesOK
<1>4. SearchOK({}, << >>, NoneHeld, tx)
  BY <1>1 DEF SearchOK
<1>5. \A k \in AwaitedKinds : \A id \in 1..nx - 1 : NoneHeld[k] # id /\ ~Owing({}, << >>, k, id)
  BY <1>1, <1>2 DEF AwaitedKinds, Owing
<1> QED BY <1>1, <1>2, <1>3, <1>4, <1>5 DEF Asked

\* A request with a new id.
LEMMA AskedGrows ==
  ASSUME NEW op, NEW un, NEW he, NEW nx, NEW tx, Asked(op, un, he, nx, tx),
         NEW kind \in Kinds, NEW q \in Queries \cup {NoData},
         NEW he2, \/ kind = "Cancel" /\ he2 = he
                  \/ kind \in AwaitedKinds /\ he[kind] = 0 /\ he2 = [he EXCEPT ![kind] = nx]
                  \/ kind = "Search" /\ q = tx /\ he2 = [he EXCEPT ![kind] = nx]
  PROVE  Asked(op \cup {[kind |-> kind, id |-> nx, query |-> q, accepted |-> FALSE]}, un, he2, nx + 1, tx)
<1> DEFINE new == [kind |-> kind, id |-> nx, query |-> q, accepted |-> FALSE]
           op2 == op \cup {new}
<1>1. /\ op \subseteq Requests /\ un \in Seq(Frames) /\ he \in [HeldKinds -> Nat] /\ nx \in Nat \ {0}
      /\ \A r \in op : r.id \in 1..nx - 1
      /\ \A r, s \in op : r.id = s.id => r = s
      /\ FramesOK(op, un, nx)
      /\ \A k \in HeldKinds : he[k] < nx
      /\ \A k \in AwaitedKinds : \A id \in 1..nx - 1 : he[k] = id <=> Owing(op, un, k, id)
      /\ SearchOK(op, un, he, tx)
  BY DEF Asked
<1>2. new \in Requests /\ new.id = nx /\ new.kind = kind /\ new.query = q
  BY <1>1 DEF Requests
<1> HIDE DEF new
<1>3. op2 \subseteq Requests /\ nx + 1 \in Nat \ {0}
  BY <1>1, <1>2
<1>4. he2 \in [HeldKinds -> Nat] /\ \A k \in HeldKinds : he2[k] = IF k = kind THEN nx ELSE he[k]
  BY <1>1 DEF HeldKinds, AwaitedKinds
<1>5. \A k \in HeldKinds : he2[k] < nx + 1
  BY <1>1, <1>4
<1>6. \A r \in op2 : r.id \in 1..nx + 1 - 1
  BY <1>1, <1>2
<1>7. \A r, s \in op2 : r.id = s.id => r = s
  BY <1>1, <1>2
<1>8. FramesOK(op2, un, nx + 1)
  BY <1>1, <1>2 DEF FramesOK
<1>9. \A k, id : Owing(op2, un, k, id) <=> Owing(op, un, k, id) \/ (k = kind /\ id = nx)
  BY <1>2 DEF Owing
<1>10. \A k : ~Owing(op, un, k, nx)
  BY <1>1 DEF Owing, FramesOK
<1>11. ASSUME NEW k \in AwaitedKinds, NEW id \in 1..nx + 1 - 1
       PROVE  he2[k] = id <=> Owing(op2, un, k, id)
  <2>1. k \in HeldKinds /\ he[k] \in Nat /\ he[k] < nx
    BY <1>1 DEF AwaitedKinds
  <2>2. CASE k = kind
    <3>1. he[k] = 0 /\ he2[k] = nx
      BY <1>4, <2>1, <2>2 DEF HeldKinds, AwaitedKinds
    <3>2. CASE id = nx
      BY <1>9, <2>2, <3>1, <3>2
    <3>3. CASE id # nx
      <4>1. id \in 1..nx - 1
        BY <1>1, <3>3
      <4>2. ~Owing(op, un, k, id)
        BY <1>1, <3>1, <4>1
      <4> QED BY <1>9, <3>1, <3>3, <4>2
    <3> QED BY <3>2, <3>3
  <2>3. CASE k # kind
    <3>1. he2[k] = he[k]
      BY <1>4, <2>1, <2>3
    <3>2. CASE id = nx
      BY <1>9, <1>10, <2>1, <2>3, <3>1, <3>2
    <3>3. CASE id # nx
      <4>1. id \in 1..nx - 1
        BY <1>1, <3>3
      <4> QED BY <1>1, <1>9, <2>3, <3>1, <4>1
    <3> QED BY <3>2, <3>3
  <2> QED BY <2>2, <2>3
<1>12. SearchOK(op2, un, he2, tx)
  <2>1. "Search" \in HeldKinds
    BY DEF HeldKinds, Kinds
  <2>2. CASE kind = "Search"
    <3>1. he2["Search"] = nx /\ q = tx
      BY <1>4, <2>1, <2>2 DEF AwaitedKinds
    <3>2. \A r \in op : r.id # nx
      BY <1>1
    <3>3. \A n \in 1..Len(un) : un[n].id # nx
      BY <1>1 DEF FramesOK
    <3> QED BY <1>2, <3>1, <3>2, <3>3 DEF SearchOK
  <2>3. CASE kind # "Search"
    <3>1. he2["Search"] = he["Search"]
      BY <1>4, <2>1, <2>3
    <3> QED BY <1>1, <1>2, <2>3, <3>1 DEF SearchOK
  <2> QED BY <2>2, <2>3
<1> HIDE DEF op2
<1>13. Asked(op2, un, he2, nx + 1, tx)
  BY <1>1, <1>3, <1>4, <1>5, <1>6, <1>7, <1>8, <1>11, <1>12 DEF Asked
<1> QED BY <1>13 DEF op2, new

\* The next frame is taken; if it is a last reply its id is no longer held.
LEMMA AskedShrinks ==
  ASSUME NEW op, NEW un, NEW he, NEW nx, NEW tx, Asked(op, un, he, nx, tx), un # << >>,
         NEW he2, \/ /\ Head(un).part = "Last" /\ Head(un).kind \in AwaitedKinds
                     /\ he2 = [he EXCEPT ![Head(un).kind] = 0]
                  \/ /\ Head(un).part # "Last" \/ Head(un).kind \notin AwaitedKinds
                     /\ he2 = he
  PROVE  /\ Asked(op, Tail(un), he2, nx, tx)
         /\ Head(un).part = "Last" /\ Head(un).kind \in AwaitedKinds => he[Head(un).kind] = Head(un).id
<1> DEFINE f == un[1]
           un2 == Tail(un)
<1>1. /\ op \subseteq Requests /\ un \in Seq(Frames) /\ he \in [HeldKinds -> Nat] /\ nx \in Nat \ {0}
      /\ \A r \in op : r.id \in 1..nx - 1
      /\ \A r, s \in op : r.id = s.id => r = s
      /\ FramesOK(op, un, nx)
      /\ \A k \in HeldKinds : he[k] < nx
      /\ \A k \in AwaitedKinds : \A id \in 1..nx - 1 : he[k] = id <=> Owing(op, un, k, id)
      /\ SearchOK(op, un, he, tx)
  BY DEF Asked
<1>2. /\ un2 \in Seq(Frames) /\ Len(un2) = Len(un) - 1 /\ Head(un) = f
      /\ \A n \in 1..Len(un2) : n + 1 \in 1..Len(un) /\ un2[n] = un[n + 1]
      /\ Len(un) \in Nat \ {0} /\ 1 \in 1..Len(un)
  BY <1>1
<1>3. \A n \in 1..Len(un) : n # 1 => n - 1 \in 1..Len(un2) /\ un2[n - 1] = un[n]
  BY <1>1
<1> HIDE DEF f, un2
<1>4. f = un[1]
  BY DEF f
<1>5. \A k, id : Owing(op, un, k, id) <=> Owing(op, un2, k, id) \/ (f.kind = k /\ f.id = id /\ f.part = "Last")
  <2> TAKE k, id
  <2>1. ASSUME NEW n \in 1..Len(un2), un2[n].kind = k, un2[n].id = id, un2[n].part = "Last"
        PROVE  Owing(op, un, k, id)
    BY <1>2, <2>1 DEF Owing
  <2>2. ASSUME NEW n \in 1..Len(un), un[n].kind = k, un[n].id = id, un[n].part = "Last"
        PROVE  Owing(op, un2, k, id) \/ (f.kind = k /\ f.id = id /\ f.part = "Last")
    BY <1>3, <1>4, <2>2 DEF Owing
  <2>3. f.kind = k /\ f.id = id /\ f.part = "Last" => Owing(op, un, k, id)
    BY <1>2, <1>4 DEF Owing
  <2> QED BY <2>1, <2>2, <2>3 DEF Owing
<1>6. f.part = "Last" => \A k : ~Owing(op, un2, k, f.id)
  <2> SUFFICES ASSUME f.part = "Last", NEW k, Owing(op, un2, k, f.id)
               PROVE  FALSE
    OBVIOUS
  <2>1. \A r \in op : r.id # f.id
    BY <1>1, <1>2, <1>4 DEF FramesOK
  <2>2. PICK n \in 1..Len(un2) : un2[n].id = f.id /\ un2[n].part = "Last"
    BY <2>1 DEF Owing
  <2>3. n + 1 \in 1..Len(un) /\ un[n + 1].part = "Last" /\ un[n + 1].id = un[1].id
    BY <1>2, <1>4, <2>2
  <2>4. n + 1 = 1
    BY <1>1, <1>2, <1>4, <2>3 DEF FramesOK
  <2> QED BY <2>4
<1>7. FramesOK(op, un2, nx)
  <2> SUFFICES ASSUME NEW n \in 1..Len(un2)
               PROVE  /\ un2[n].id \in 1..nx - 1
                      /\ un2[n].part = "Progress" => un2[n].kind = "Scan"
                      /\ un2[n].part = "Accepted" => un2[n].kind \in {"Scan", "Send"}
                      /\ un2[n].kind = "Status" /\ un2[n].ok => un2[n].data \in {"Enabled", "Disabled"}
                      /\ un2[n].part = "Last" =>
                            /\ \A r \in op : r.id # un2[n].id
                            /\ \A m \in 1..Len(un2) : un2[m].part = "Last" /\ un2[m].id = un2[n].id => m = n
    BY DEF FramesOK
  <2>1. n + 1 \in 1..Len(un) /\ un2[n] = un[n + 1]
    BY <1>2
  <2>2. ASSUME un2[n].part = "Last", NEW m \in 1..Len(un2), un2[m].part = "Last", un2[m].id = un2[n].id
        PROVE  m = n
    <3>1. m + 1 \in 1..Len(un) /\ un2[m] = un[m + 1]
      BY <1>2
    <3>2. m + 1 = n + 1
      BY <1>1, <2>1, <2>2, <3>1 DEF FramesOK
    <3> QED BY <3>2
  <2> QED BY <1>1, <2>1, <2>2 DEF FramesOK
<1>8. "Search" \notin AwaitedKinds /\ "Search" \in HeldKinds /\ AwaitedKinds \subseteq HeldKinds
  BY DEF AwaitedKinds, HeldKinds, Kinds
<1>9. he2["Search"] = he["Search"] /\ he2 \in [HeldKinds -> Nat]
  BY <1>1, <1>2, <1>8
<1>10. SearchOK(op, un2, he2, tx)
  BY <1>1, <1>2, <1>9 DEF SearchOK
<1>11. ASSUME f.part = "Last", f.kind \in AwaitedKinds
       PROVE  he[f.kind] = f.id
  <2>1. f.id \in 1..nx - 1 /\ Owing(op, un, f.kind, f.id)
    BY <1>1, <1>2, <1>4, <1>5, <1>11 DEF FramesOK
  <2> QED BY <1>1, <1>11, <2>1
<1>12. ASSUME NEW k \in AwaitedKinds, NEW id \in 1..nx - 1
       PROVE  he2[k] = id <=> Owing(op, un2, k, id)
  <2>1. k \in HeldKinds /\ he[k] \in Nat
    BY <1>1, <1>8
  <2>2. CASE f.part = "Last" /\ f.kind = k
    <3>1. he2[k] = 0 /\ he[k] = f.id
      BY <1>1, <1>2, <1>11, <2>1, <2>2
    <3>2. ~Owing(op, un2, k, id)
      BY <1>1, <1>5, <1>6, <2>2, <3>1
    <3> QED BY <3>1, <3>2
  <2>3. CASE ~(f.part = "Last" /\ f.kind = k)
    <3>1. he2[k] = he[k]
      BY <1>1, <1>2, <2>1, <2>3
    <3> QED BY <1>1, <1>5, <2>3, <3>1
  <2> QED BY <2>2, <2>3
<1>13. \A k \in HeldKinds : he2[k] < nx
  BY <1>1, <1>2, <1>8
<1>14. Asked(op, un2, he2, nx, tx)
  BY <1>1, <1>2, <1>7, <1>9, <1>10, <1>12, <1>13 DEF Asked
<1> QED BY <1>2, <1>11, <1>14 DEF un2

\* The service accepts a request or reports on it, which is not the last of it.
LEMMA AskedGoesOn ==
  ASSUME NEW op, NEW un, NEW he, NEW nx, NEW tx, Asked(op, un, he, nx, tx),
         NEW r \in op, NEW f \in Frames, f.kind = r.kind, f.id = r.id,
         \/ f.part = "Accepted" /\ r.kind \in {"Scan", "Send"}
         \/ f.part = "Progress" /\ r.kind = "Scan",
         NEW r2 \in Requests, r2.kind = r.kind, r2.id = r.id, r2.query = r.query
  PROVE  Asked((op \ {r}) \cup {r2}, Append(un, f), he, nx, tx)
<1> DEFINE op2 == (op \ {r}) \cup {r2}
           un2 == Append(un, f)
<1>1. /\ op \subseteq Requests /\ un \in Seq(Frames) /\ he \in [HeldKinds -> Nat] /\ nx \in Nat \ {0}
      /\ \A q \in op : q.id \in 1..nx - 1
      /\ \A q, s \in op : q.id = s.id => q = s
      /\ FramesOK(op, un, nx)
      /\ \A k \in HeldKinds : he[k] < nx
      /\ \A k \in AwaitedKinds : \A id \in 1..nx - 1 : he[k] = id <=> Owing(op, un, k, id)
      /\ SearchOK(op, un, he, tx)
  BY DEF Asked
<1>2. /\ un2 \in Seq(Frames) /\ Len(un2) = Len(un) + 1 /\ un2[Len(un) + 1] = f
      /\ \A n \in 1..Len(un) : un2[n] = un[n] /\ n \in 1..Len(un2)
      /\ Len(un) \in Nat
      /\ \A n \in 1..Len(un2) : n \in 1..Len(un) \/ n = Len(un) + 1
  BY <1>1
<1> HIDE DEF un2
<1>3. op2 \subseteq Requests
  BY <1>1
<1>4. \A q \in op2 : \E s \in op : s.id = q.id /\ s.kind = q.kind /\ s.query = q.query
  OBVIOUS
<1>5. \A q \in op2 : q.id \in 1..nx - 1
  BY <1>1, <1>4
<1>6. \A q, s \in op2 : q.id = s.id => q = s
  BY <1>1
<1>7. \A k, id : (\E q \in op2 : q.kind = k /\ q.id = id) <=> (\E q \in op : q.kind = k /\ q.id = id)
  OBVIOUS
<1> HIDE DEF op2
<1>8. f.part # "Last" /\ f.kind # "Search"
  OBVIOUS
<1>9. \A k, id : Owing(op2, un2, k, id) <=> Owing(op, un, k, id)
  <2> TAKE k, id
  <2>1. (\E n \in 1..Len(un2) : un2[n].kind = k /\ un2[n].id = id /\ un2[n].part = "Last")
           <=> \E n \in 1..Len(un) : un[n].kind = k /\ un[n].id = id /\ un[n].part = "Last"
    BY <1>2, <1>8
  <2>2. (\E q \in op2 : q.kind = k /\ q.id = id) <=> (\E q \in op : q.kind = k /\ q.id = id)
    BY <1>7
  <2> QED BY <2>1, <2>2 DEF Owing
<1>10. FramesOK(op2, un2, nx)
  <2> SUFFICES ASSUME NEW n \in 1..Len(un2)
               PROVE  /\ un2[n].id \in 1..nx - 1
                      /\ un2[n].part = "Progress" => un2[n].kind = "Scan"
                      /\ un2[n].part = "Accepted" => un2[n].kind \in {"Scan", "Send"}
                      /\ un2[n].kind = "Status" /\ un2[n].ok => un2[n].data \in {"Enabled", "Disabled"}
                      /\ un2[n].part = "Last" =>
                            /\ \A q \in op2 : q.id # un2[n].id
                            /\ \A m \in 1..Len(un2) : un2[m].part = "Last" /\ un2[m].id = un2[n].id => m = n
    BY DEF FramesOK
  <2>1. CASE n = Len(un) + 1
    BY <1>1, <1>2, <1>8, <2>1
  <2>2. CASE n \in 1..Len(un)
    <3>1. un2[n] = un[n]
      BY <1>2, <2>2
    <3>2. ASSUME un[n].part = "Last", NEW m \in 1..Len(un2), un2[m].part = "Last", un2[m].id = un[n].id
          PROVE  m = n
      <4>1. m \in 1..Len(un) /\ un2[m] = un[m]
        BY <1>2, <1>8, <3>2
      <4> QED BY <1>1, <2>2, <3>2, <4>1 DEF FramesOK
    <3>3. un[n].part = "Last" => \A q \in op2 : q.id # un[n].id
      BY <1>1, <1>4, <2>2 DEF FramesOK
    <3> QED BY <1>1, <2>2, <3>1, <3>2, <3>3 DEF FramesOK
  <2> QED BY <1>2, <2>1, <2>2
<1>11. SearchOK(op2, un2, he, tx)
  <2>1. \A q \in op2 : q.kind = "Search" /\ q.id = he["Search"] => q.query = tx
    BY <1>1, <1>4 DEF SearchOK
  <2>2. \A n \in 1..Len(un2) :
           un2[n].kind = "Search" /\ un2[n].id = he["Search"] /\ un2[n].ok => un2[n].data = tx
    BY <1>1, <1>2, <1>8 DEF SearchOK
  <2> QED BY <2>1, <2>2 DEF SearchOK
<1>12. Asked(op2, un2, he, nx, tx)
  BY <1>1, <1>2, <1>3, <1>5, <1>6, <1>9, <1>10, <1>11 DEF Asked
<1> QED BY <1>12 DEF op2, un2

\* A request is over: its last reply is sent, or it is a cancellation that has none.
LEMMA AskedEnds ==
  ASSUME NEW op, NEW un, NEW he, NEW nx, NEW tx, Asked(op, un, he, nx, tx),
         NEW r \in op, NEW f \in Frames, f.kind = r.kind, f.id = r.id, f.part = "Last",
         r.kind = "Search" /\ f.ok => f.data = r.query,
         r.kind = "Status" /\ f.ok => f.data \in {"Enabled", "Disabled"}
  PROVE  /\ Asked(op \ {r}, Append(un, f), he, nx, tx)
         /\ r.kind = "Cancel" => Asked(op \ {r}, un, he, nx, tx)
<1> DEFINE op2 == op \ {r}
           un2 == Append(un, f)
<1>1. /\ op \subseteq Requests /\ un \in Seq(Frames) /\ he \in [HeldKinds -> Nat] /\ nx \in Nat \ {0}
      /\ \A q \in op : q.id \in 1..nx - 1
      /\ \A q, s \in op : q.id = s.id => q = s
      /\ FramesOK(op, un, nx)
      /\ \A k \in HeldKinds : he[k] < nx
      /\ \A k \in AwaitedKinds : \A id \in 1..nx - 1 : he[k] = id <=> Owing(op, un, k, id)
      /\ SearchOK(op, un, he, tx)
  BY DEF Asked
<1>2. /\ un2 \in Seq(Frames) /\ Len(un2) = Len(un) + 1 /\ un2[Len(un) + 1] = f
      /\ \A n \in 1..Len(un) : un2[n] = un[n] /\ n \in 1..Len(un2)
      /\ Len(un) \in Nat /\ Len(un) + 1 \in 1..Len(un2)
      /\ \A n \in 1..Len(un2) : n \in 1..Len(un) \/ n = Len(un) + 1
  BY <1>1
<1> HIDE DEF un2
<1>3. op2 \subseteq op
  OBVIOUS
<1>4. \A q \in op2 : q.id # r.id
  BY <1>1
<1>5. \A k, id : (\E q \in op : q.kind = k /\ q.id = id)
                   <=> (\E q \in op2 : q.kind = k /\ q.id = id) \/ (r.kind = k /\ r.id = id)
  OBVIOUS
<1> HIDE DEF op2
<1>6. \A k, id : Owing(op2, un2, k, id) <=> Owing(op, un, k, id)
  <2> TAKE k, id
  <2>1. (\E n \in 1..Len(un2) : un2[n].kind = k /\ un2[n].id = id /\ un2[n].part = "Last")
           <=> \/ \E n \in 1..Len(un) : un[n].kind = k /\ un[n].id = id /\ un[n].part = "Last"
               \/ r.kind = k /\ r.id = id
    BY <1>2
  <2>2. (\E q \in op : q.kind = k /\ q.id = id)
           <=> (\E q \in op2 : q.kind = k /\ q.id = id) \/ (r.kind = k /\ r.id = id)
    BY DEF op2
  <2> QED BY <2>1, <2>2 DEF Owing
<1>7. FramesOK(op2, un2, nx)
  <2> SUFFICES ASSUME NEW n \in 1..Len(un2)
               PROVE  /\ un2[n].id \in 1..nx - 1
                      /\ un2[n].part = "Progress" => un2[n].kind = "Scan"
                      /\ un2[n].part = "Accepted" => un2[n].kind \in {"Scan", "Send"}
                      /\ un2[n].kind = "Status" /\ un2[n].ok => un2[n].data \in {"Enabled", "Disabled"}
                      /\ un2[n].part = "Last" =>
                            /\ \A q \in op2 : q.id # un2[n].id
                            /\ \A m \in 1..Len(un2) : un2[m].part = "Last" /\ un2[m].id = un2[n].id => m = n
    BY DEF FramesOK
  <2>0. \A m \in 1..Len(un) : un[m].part = "Last" => un[m].id # r.id
    BY <1>1 DEF FramesOK
  <2>1. CASE n = Len(un) + 1
    <3>1. un2[n] = f
      BY <1>2, <2>1
    <3>2. \A m \in 1..Len(un2) : un2[m].part = "Last" /\ un2[m].id = f.id => m = n
      BY <1>2, <2>0, <2>1
    <3> QED BY <1>1, <1>4, <3>1, <3>2
  <2>2. CASE n \in 1..Len(un)
    <3>1. un2[n] = un[n]
      BY <1>2, <2>2
    <3>2. ASSUME un[n].part = "Last", NEW m \in 1..Len(un2), un2[m].part = "Last", un2[m].id = un[n].id
          PROVE  m = n
      <4>1. m \in 1..Len(un) /\ un2[m] = un[m]
        BY <1>2, <2>0, <2>2, <3>2
      <4> QED BY <1>1, <2>2, <3>2, <4>1 DEF FramesOK
    <3>3. un[n].part = "Last" => \A q \in op2 : q.id # un[n].id
      BY <1>1, <1>3, <2>2 DEF FramesOK
    <3> QED BY <1>1, <2>2, <3>1, <3>2, <3>3 DEF FramesOK
  <2> QED BY <1>2, <2>1, <2>2
<1>8. SearchOK(op2, un2, he, tx)
  BY <1>1, <1>2, <1>3 DEF SearchOK
<1>9. Asked(op2, un2, he, nx, tx)
  BY <1>1, <1>2, <1>3, <1>6, <1>7, <1>8 DEF Asked
<1>10. ASSUME r.kind = "Cancel"
       PROVE  Asked(op2, un, he, nx, tx)
  <2>1. \A k \in AwaitedKinds : k # "Cancel"
    BY DEF AwaitedKinds, HeldKinds
  <2>2. \A k \in AwaitedKinds : \A id : Owing(op2, un, k, id) <=> Owing(op, un, k, id)
    <3> TAKE k \in AwaitedKinds
    <3> TAKE id
    <3>1. (\E q \in op : q.kind = k /\ q.id = id) <=> (\E q \in op2 : q.kind = k /\ q.id = id)
      BY <1>5, <1>10, <2>1
    <3> QED BY <3>1 DEF Owing
  <2>3. FramesOK(op2, un, nx)
    BY <1>1, <1>3 DEF FramesOK
  <2>4. SearchOK(op2, un, he, tx)
    BY <1>1, <1>3 DEF SearchOK
  <2> QED BY <1>1, <1>3, <2>2, <2>3, <2>4 DEF Asked
<1> QED BY <1>9, <1>10 DEF op2, un2

\* Another text is typed, and no search is awaited any more.
LEMMA AskedAnew ==
  ASSUME NEW op, NEW un, NEW he, NEW nx, NEW tx, Asked(op, un, he, nx, tx), NEW tx2
  PROVE  Asked(op, un, [he EXCEPT !["Search"] = 0], nx, tx2)
<1> DEFINE he2 == [he EXCEPT !["Search"] = 0]
<1>1. /\ op \subseteq Requests /\ un \in Seq(Frames) /\ he \in [HeldKinds -> Nat] /\ nx \in Nat \ {0}
      /\ \A r \in op : r.id \in 1..nx - 1
      /\ \A r, s \in op : r.id = s.id => r = s
      /\ FramesOK(op, un, nx)
      /\ \A k \in HeldKinds : he[k] < nx
      /\ \A k \in AwaitedKinds : \A id \in 1..nx - 1 : he[k] = id <=> Owing(op, un, k, id)
  BY DEF Asked
<1>2. "Search" \in HeldKinds /\ \A k \in AwaitedKinds : k \in HeldKinds /\ k # "Search"
  BY DEF AwaitedKinds, HeldKinds, Kinds
<1>3. /\ he2 \in [HeldKinds -> Nat] /\ he2["Search"] = 0
      /\ \A k \in HeldKinds : k # "Search" => he2[k] = he[k]
  BY <1>1, <1>2
<1> HIDE DEF he2
<1>4. (\A r \in op : r.id # 0) /\ \A n \in 1..Len(un) : un[n].id # 0
  BY <1>1 DEF FramesOK
<1>5. SearchOK(op, un, he2, tx2)
  BY <1>3, <1>4 DEF SearchOK
<1>6. \A k \in HeldKinds : he2[k] < nx
  BY <1>1, <1>3
<1>7. Asked(op, un, he2, nx, tx2)
  BY <1>1, <1>2, <1>3, <1>5, <1>6 DEF Asked
<1> QED BY <1>7 DEF he2
-----------------------------------------------------------------------------
\* The parts of the invariant, as the events disturb them.

WindowOK ==
    /\ socket \in {"Unconnected", "Connecting", "Connected", "Broken"}
    /\ service \in {"down", "starting", "up"}
    /\ available \in BOOLEAN
    /\ connection_state \in {"Disconnected", "Connecting", "StartingService", "Connected", "Offline"}
    /\ auto_start_attempted \in BOOLEAN
    /\ retrying \in BOOLEAN
    /\ deadline \in Deadlines
    /\ scanning \in BOOLEAN
    /\ tab \in {"Offline", "Unavailable", "Disabled", "Enabled"}
    /\ pending \in BOOLEAN
    /\ sending \in BOOLEAN
    /\ choosing \in BOOLEAN
    /\ text \in Queries \cup {NoData}
    /\ debouncing \in BOOLEAN
    /\ rows \in Queries \cup {NoData}

Outstanding == Asked(open, unread, held, next_request_id, text)
Alone == ~IsConnected => open = {} /\ unread = << >>

Parts ==
    /\ WindowOK
    /\ Outstanding
    /\ StateIsTrue
    /\ ControlsAreTrue
    /\ ResultsMatchText
    /\ TransferInv
    /\ Alone

LEMMA IInvIsItsParts == IInv <=> Parts
<1>1. \A k, id : Owed(k, id) <=> Owing(open, unread, k, id)
  BY DEF Owed, Owing
<1>2. RepliesAreAwaited <=> \A k \in AwaitedKinds : \A id \in 1..next_request_id - 1 :
                              held[k] = id <=> Owing(open, unread, k, id)
  BY <1>1 DEF RepliesAreAwaited, AwaitedKinds
<1>3. SearchInv <=> SearchOK(open, unread, held, text)
  BY DEF SearchInv, SearchOK
<1>4. RequestInv <=> /\ \A r \in open : r.id \in 1..next_request_id - 1
                     /\ \A r, s \in open : r.id = s.id => r = s
                     /\ FramesOK(open, unread, next_request_id)
                     /\ \A k \in HeldKinds : held[k] < next_request_id
                     /\ Alone
  BY DEF RequestInv, FramesOK, Alone
<1>5. TypeOK <=> /\ WindowOK
                 /\ open \subseteq Requests /\ unread \in Seq(Frames) /\ held \in [HeldKinds -> Nat]
                 /\ next_request_id \in Nat \ {0}
  BY DEF TypeOK, ClientTypeOK, WindowOK
<1> QED BY <1>2, <1>3, <1>4, <1>5 DEF IInv, Parts, Outstanding, Asked

-----------------------------------------------------------------------------
\* Every event keeps them.

\* A retry begins.
LEMMA RetryKeeps ==
  ASSUME Parts, RetryConnection, ~choosing
  PROVE  Parts'
<1>1. WindowOK /\ Outstanding /\ StateIsTrue /\ ControlsAreTrue /\ ResultsMatchText /\ TransferInv /\ Alone
  BY DEF Parts
<1>2. held \in [HeldKinds -> Nat] /\ unread \in Seq(Frames) /\ next_request_id \in Nat \ {0}
  BY <1>1 DEF Outstanding, Asked
<1>3. WindowOK'
    BY <1>1, <1>2 DEF RetryConnection, LoseConnection, ConnectToServerAsync, NoneHeld, transferVars,
     searchVars, WindowOK, Deadlines
<1>4. Outstanding'
  <2>1. open' = {} /\ unread' = << >> /\ held' = NoneHeld /\ next_request_id' = next_request_id /\ text' = text
    BY DEF RetryConnection, LoseConnection, ConnectToServerAsync, NoneHeld, transferVars, searchVars
  <2> QED BY <1>2, <2>1, NothingAsked DEF Outstanding
<1>5. StateIsTrue'
    BY <1>1, <1>2 DEF RetryConnection, LoseConnection, ConnectToServerAsync, NoneHeld, transferVars,
     searchVars, WindowOK, StateIsTrue, IsConnected
<1>6. ControlsAreTrue'
    BY <1>1, <1>2 DEF RetryConnection, LoseConnection, ConnectToServerAsync, NoneHeld, transferVars,
     searchVars, WindowOK, StateIsTrue, ControlsAreTrue, IsConnected, HeldKinds, Kinds,
     TransferKinds
<1>7. ResultsMatchText'
    BY <1>1, <1>2 DEF RetryConnection, LoseConnection, ConnectToServerAsync, NoneHeld, transferVars,
     searchVars, ResultsMatchText
<1>8. TransferInv'
    BY <1>1, <1>2 DEF RetryConnection, LoseConnection, ConnectToServerAsync, NoneHeld, transferVars,
     searchVars, WindowOK, ControlsAreTrue, StateIsTrue, TransferInv, IsConnected, HeldKinds, Kinds,
     TransferKinds
<1>9. Alone'
    BY <1>1, <1>2 DEF RetryConnection, LoseConnection, ConnectToServerAsync, NoneHeld, transferVars,
     searchVars, Alone, IsConnected
<1> QED BY <1>3, <1>4, <1>5, <1>6, <1>7, <1>8, <1>9 DEF Parts

\* The retry timer fires.
LEMMA RetryTimerKeeps ==
  ASSUME Parts, RetryTimerFires
  PROVE  Parts'
<1>1. WindowOK /\ Outstanding /\ StateIsTrue /\ ControlsAreTrue /\ ResultsMatchText /\ TransferInv /\ Alone
  BY DEF Parts
<1>2. held \in [HeldKinds -> Nat] /\ unread \in Seq(Frames) /\ next_request_id \in Nat \ {0}
  BY <1>1 DEF Outstanding, Asked
<1>3. open = {} /\ unread = << >> /\ ~IsConnected /\ ~choosing
  BY <1>1 DEF RetryTimerFires, StateIsTrue, Alone, TransferInv
<1>4. WindowOK'
  <2>1. socket' \in {socket, "Connecting"} /\ connection_state' \in {connection_state, "Offline"} /\ retrying' \in BOOLEAN
        BY <1>1 DEF RetryTimerFires, LoseConnection, ConnectToServerAsync, transferVars, searchVars,
       clientVars, WindowOK
  <2>2. UNCHANGED <<service, available, auto_start_attempted, deadline, scanning, tab, pending, sending,
                    choosing, text, debouncing, rows>>
        BY <1>1 DEF RetryTimerFires, LoseConnection, ConnectToServerAsync, transferVars, searchVars,
       clientVars
  <2> QED BY <1>1, <2>1, <2>2 DEF WindowOK
<1>5. Outstanding'
  <2>1. open' = open /\ unread' = unread /\ held' = held /\ next_request_id' = next_request_id /\ text' = text
        BY <1>1, <1>3 DEF RetryTimerFires, LoseConnection, ConnectToServerAsync, transferVars,
       searchVars, clientVars
  <2> QED BY <1>1, <2>1 DEF Outstanding
<1>6. StateIsTrue'
    BY <1>1, <1>2, <1>3 DEF RetryTimerFires, LoseConnection, ConnectToServerAsync, transferVars,
     searchVars, clientVars, WindowOK, StateIsTrue, IsConnected
<1>7. ControlsAreTrue'
    BY <1>1, <1>2, <1>3 DEF RetryTimerFires, LoseConnection, ConnectToServerAsync, transferVars,
     searchVars, clientVars, WindowOK, StateIsTrue, ControlsAreTrue, IsConnected, HeldKinds, Kinds,
     TransferKinds
<1>8. ResultsMatchText'
    BY <1>1, <1>2, <1>3 DEF RetryTimerFires, LoseConnection, ConnectToServerAsync, transferVars,
     searchVars, clientVars, ResultsMatchText
<1>9. TransferInv'
    BY <1>1, <1>2, <1>3 DEF RetryTimerFires, LoseConnection, ConnectToServerAsync, transferVars,
     searchVars, clientVars, WindowOK, ControlsAreTrue, StateIsTrue, TransferInv, IsConnected,
     HeldKinds, Kinds, TransferKinds
<1>10. Alone'
    BY <1>1, <1>2, <1>3 DEF RetryTimerFires, LoseConnection, ConnectToServerAsync, transferVars,
     searchVars, clientVars, Alone, IsConnected
<1> QED BY <1>4, <1>5, <1>6, <1>7, <1>8, <1>9, <1>10 DEF Parts

\* The clock goes on.
LEMMA ClockKeeps ==
  ASSUME Parts, DeadlineComes \/ MidnightComes
  PROVE  Parts'
<1>1. WindowOK /\ Outstanding /\ StateIsTrue /\ ControlsAreTrue /\ ResultsMatchText /\ TransferInv /\ Alone
  BY DEF Parts
<1>2. held \in [HeldKinds -> Nat] /\ unread \in Seq(Frames) /\ next_request_id \in Nat \ {0}
  BY <1>1 DEF Outstanding, Asked
<1>3. WindowOK'
  <2>1. deadline' \in Deadlines
    BY <1>1 DEF DeadlineComes, MidnightComes, Deadlines, transferVars, searchVars, clientVars, WindowOK
  <2>2. UNCHANGED <<socket, service, available, connection_state, auto_start_attempted, retrying, scanning,
                    tab, pending, sending, choosing, text, debouncing, rows>>
    BY <1>1 DEF DeadlineComes, MidnightComes, transferVars, searchVars, clientVars
  <2> QED BY <1>1, <2>1, <2>2 DEF WindowOK
<1>4. Outstanding'
  <2>1. open' = open /\ unread' = unread /\ held' = held /\ next_request_id' = next_request_id /\ text' = text
    BY <1>1 DEF DeadlineComes, MidnightComes, transferVars, searchVars, clientVars
  <2> QED BY <1>1, <2>1 DEF Outstanding
<1>5. StateIsTrue'
    BY <1>1, <1>2 DEF DeadlineComes, MidnightComes, transferVars, searchVars, clientVars, WindowOK,
     StateIsTrue, IsConnected
<1>6. ControlsAreTrue'
    BY <1>1, <1>2 DEF DeadlineComes, MidnightComes, transferVars, searchVars, clientVars, WindowOK,
     StateIsTrue, ControlsAreTrue, IsConnected, HeldKinds, Kinds, TransferKinds
<1>7. ResultsMatchText'
    BY <1>1, <1>2 DEF DeadlineComes, MidnightComes, transferVars, searchVars, clientVars,
     ResultsMatchText
<1>8. TransferInv'
    BY <1>1, <1>2 DEF DeadlineComes, MidnightComes, transferVars, searchVars, clientVars, WindowOK,
     ControlsAreTrue, StateIsTrue, TransferInv, IsConnected, HeldKinds, Kinds, TransferKinds
<1>9. Alone'
    BY <1>1, <1>2 DEF DeadlineComes, MidnightComes, transferVars, searchVars, clientVars, Alone,
     IsConnected
<1> QED BY <1>3, <1>4, <1>5, <1>6, <1>7, <1>8, <1>9 DEF Parts

\* The connection is made, and the status requested.
LEMMA ConnectedKeeps ==
  ASSUME Parts, HandleConnected
  PROVE  Parts'
<1>1. WindowOK /\ Outstanding /\ StateIsTrue /\ ControlsAreTrue /\ ResultsMatchText /\ TransferInv /\ Alone
  BY DEF Parts
<1>2. held \in [HeldKinds -> Nat] /\ unread \in Seq(Frames) /\ next_request_id \in Nat \ {0}
  BY <1>1 DEF Outstanding, Asked
<1>3. ~IsConnected /\ \A k \in HeldKinds : held[k] = 0
  BY <1>1 DEF HandleConnected, IsConnected, ControlsAreTrue
<1>4. \A k \in HeldKinds : held'[k] = IF k = "Status" THEN next_request_id ELSE held[k]
  BY <1>2 DEF HandleConnected, RequestTransferStatus, SendHeld, SendFrame, searchVars
<1>5. WindowOK'
    BY <1>1, <1>2, <1>3, <1>4 DEF HandleConnected, RequestTransferStatus, SendHeld, SendFrame,
     searchVars, WindowOK, Deadlines
<1>6. Outstanding'
  <2>1. /\ open' = open \cup {[kind |-> "Status", id |-> next_request_id, query |-> NoData, accepted |-> FALSE]}
        /\ unread' = unread /\ next_request_id' = next_request_id + 1 /\ text' = text
        /\ held' = [held EXCEPT !["Status"] = next_request_id]
    BY <1>1, <1>3 DEF HandleConnected, RequestTransferStatus, SendHeld, SendFrame, searchVars
  <2>2. "Status" \in AwaitedKinds /\ held["Status"] = 0
        BY <1>1, <1>3 DEF HandleConnected, RequestTransferStatus, SendHeld, SendFrame, searchVars,
       ControlsAreTrue, TransferInv, AwaitedKinds, HeldKinds, Kinds, TransferKinds
  <2>3. "Status" \in Kinds /\ NoData \in Queries \cup {NoData}
    BY <1>1 DEF HeldKinds, Kinds, TransferKinds, WindowOK
  <2>4. Asked(open \cup {[kind |-> "Status", id |-> next_request_id, query |-> NoData, accepted |-> FALSE]}, unread,
              [held EXCEPT !["Status"] = next_request_id], next_request_id + 1, text)
    BY <1>1, <2>2, <2>3, AskedGrows DEF Outstanding
  <2> QED BY <2>1, <2>4 DEF Outstanding
<1>7. StateIsTrue'
    BY <1>1, <1>2, <1>3, <1>4 DEF HandleConnected, RequestTransferStatus, SendHeld, SendFrame,
     searchVars, WindowOK, StateIsTrue, IsConnected
<1>8. ControlsAreTrue'
    BY <1>1, <1>2, <1>3, <1>4 DEF HandleConnected, RequestTransferStatus, SendHeld, SendFrame,
     searchVars, WindowOK, StateIsTrue, ControlsAreTrue, IsConnected, HeldKinds, Kinds,
     TransferKinds
<1>9. ResultsMatchText'
    BY <1>1, <1>2, <1>3, <1>4 DEF HandleConnected, RequestTransferStatus, SendHeld, SendFrame,
     searchVars, ResultsMatchText
<1>10. TransferInv'
    BY <1>1, <1>2, <1>3, <1>4 DEF HandleConnected, RequestTransferStatus, SendHeld, SendFrame,
     searchVars, WindowOK, ControlsAreTrue, StateIsTrue, TransferInv, IsConnected, HeldKinds, Kinds,
     TransferKinds
<1>11. Alone'
    BY <1>1, <1>2, <1>3, <1>4 DEF HandleConnected, RequestTransferStatus, SendHeld, SendFrame,
     searchVars, Alone, IsConnected
<1> QED BY <1>5, <1>6, <1>7, <1>8, <1>9, <1>10, <1>11 DEF Parts

\* A connection attempt fails.
LEMMA ConnectionErrorKeeps ==
  ASSUME Parts, HandleConnectionError
  PROVE  Parts'
<1>1. WindowOK /\ Outstanding /\ StateIsTrue /\ ControlsAreTrue /\ ResultsMatchText /\ TransferInv /\ Alone
  BY DEF Parts
<1>2. held \in [HeldKinds -> Nat] /\ unread \in Seq(Frames) /\ next_request_id \in Nat \ {0}
  BY <1>1 DEF Outstanding, Asked
<1>3. open = {} /\ unread = << >> /\ ~IsConnected /\ ~choosing
  BY <1>1 DEF HandleConnectionError, IsConnected, Alone, TransferInv
<1>4. WindowOK'
    BY <1>1, <1>2, <1>3 DEF HandleConnectionError, LoseConnection, ConnectToServerAsync, Starting,
     transferVars, searchVars, WindowOK
<1>5. Outstanding'
  <2>1. open' = open /\ unread' = unread /\ held' = held /\ next_request_id' = next_request_id /\ text' = text
        BY <1>1, <1>3 DEF HandleConnectionError, LoseConnection, ConnectToServerAsync, Starting,
       transferVars, searchVars
  <2> QED BY <1>1, <2>1 DEF Outstanding
<1>6. StateIsTrue'
    BY <1>1, <1>2, <1>3 DEF HandleConnectionError, LoseConnection, ConnectToServerAsync, Starting,
     transferVars, searchVars, WindowOK, StateIsTrue, IsConnected
<1>7. ControlsAreTrue'
    BY <1>1, <1>2, <1>3 DEF HandleConnectionError, LoseConnection, ConnectToServerAsync, Starting,
     transferVars, searchVars, WindowOK, StateIsTrue, ControlsAreTrue, IsConnected, HeldKinds,
     Kinds, TransferKinds
<1>8. ResultsMatchText'
    BY <1>1, <1>2, <1>3 DEF HandleConnectionError, LoseConnection, ConnectToServerAsync, Starting,
     transferVars, searchVars, ResultsMatchText
<1>9. TransferInv'
    BY <1>1, <1>2, <1>3 DEF HandleConnectionError, LoseConnection, ConnectToServerAsync, Starting,
     transferVars, searchVars, WindowOK, ControlsAreTrue, StateIsTrue, TransferInv, IsConnected,
     HeldKinds, Kinds, TransferKinds
<1>10. Alone'
    BY <1>1, <1>2, <1>3 DEF HandleConnectionError, LoseConnection, ConnectToServerAsync, Starting,
     transferVars, searchVars, Alone, IsConnected
<1> QED BY <1>4, <1>5, <1>6, <1>7, <1>8, <1>9, <1>10 DEF Parts

\* The connection is lost.
LEMMA DisconnectedKeeps ==
  ASSUME Parts, HandleDisconnected
  PROVE  Parts'
<1>1. WindowOK /\ Outstanding /\ StateIsTrue /\ ControlsAreTrue /\ ResultsMatchText /\ TransferInv /\ Alone
  BY DEF Parts
<1>2. held \in [HeldKinds -> Nat] /\ unread \in Seq(Frames) /\ next_request_id \in Nat \ {0}
  BY <1>1 DEF Outstanding, Asked
<1>3. WindowOK'
    BY <1>1, <1>2 DEF HandleDisconnected, LoseConnection, ConnectToServerAsync, SetOfflineState,
     NoneHeld, searchVars, WindowOK
<1>4. Outstanding'
  <2>1. open' = {} /\ unread' = << >> /\ held' = NoneHeld /\ next_request_id' = next_request_id /\ text' = text
        BY DEF HandleDisconnected, LoseConnection, ConnectToServerAsync, SetOfflineState, NoneHeld,
       searchVars
  <2> QED BY <1>2, <2>1, NothingAsked DEF Outstanding
<1>5. StateIsTrue'
    BY <1>1, <1>2 DEF HandleDisconnected, LoseConnection, ConnectToServerAsync, SetOfflineState,
     NoneHeld, searchVars, WindowOK, StateIsTrue, IsConnected
<1>6. ControlsAreTrue'
    BY <1>1, <1>2 DEF HandleDisconnected, LoseConnection, ConnectToServerAsync, SetOfflineState,
     NoneHeld, searchVars, WindowOK, StateIsTrue, ControlsAreTrue, IsConnected, HeldKinds, Kinds,
     TransferKinds
<1>7. ResultsMatchText'
    BY <1>1, <1>2 DEF HandleDisconnected, LoseConnection, ConnectToServerAsync, SetOfflineState,
     NoneHeld, searchVars, ResultsMatchText
<1>8. TransferInv'
    BY <1>1, <1>2 DEF HandleDisconnected, LoseConnection, ConnectToServerAsync, SetOfflineState,
     NoneHeld, searchVars, WindowOK, ControlsAreTrue, StateIsTrue, TransferInv, IsConnected,
     HeldKinds, Kinds, TransferKinds
<1>9. Alone'
    BY <1>1, <1>2 DEF HandleDisconnected, LoseConnection, ConnectToServerAsync, SetOfflineState,
     NoneHeld, searchVars, Alone, IsConnected
<1> QED BY <1>3, <1>4, <1>5, <1>6, <1>7, <1>8, <1>9 DEF Parts

\* The text is changed.
LEMMA TextKeeps ==
  ASSUME Parts, NEW q \in Queries \cup {NoData}, TextChanged(q)
  PROVE  Parts'
<1>1. WindowOK /\ Outstanding /\ StateIsTrue /\ ControlsAreTrue /\ ResultsMatchText /\ TransferInv /\ Alone
  BY DEF Parts
<1>2. held \in [HeldKinds -> Nat] /\ unread \in Seq(Frames) /\ next_request_id \in Nat \ {0}
  BY <1>1 DEF Outstanding, Asked
<1>3. \A k \in HeldKinds : held'[k] = IF k = "Search" THEN 0 ELSE held[k]
  BY <1>2 DEF TextChanged, retryVars, transferVars, clientVars
<1>4. WindowOK'
  BY <1>1, <1>2, <1>3 DEF TextChanged, retryVars, transferVars, clientVars, WindowOK
<1>5. Outstanding'
  <2>1. open' = open /\ unread' = unread /\ held' = [held EXCEPT !["Search"] = 0] /\ next_request_id' = next_request_id
    BY DEF TextChanged, retryVars, transferVars, clientVars
  <2> QED BY <1>1, <2>1, AskedAnew DEF Outstanding
<1>6. StateIsTrue'
    BY <1>1, <1>2, <1>3 DEF TextChanged, retryVars, transferVars, clientVars, WindowOK, StateIsTrue,
     IsConnected
<1>7. ControlsAreTrue'
    BY <1>1, <1>2, <1>3 DEF TextChanged, retryVars, transferVars, clientVars, WindowOK, StateIsTrue,
     ControlsAreTrue, IsConnected, HeldKinds, Kinds, TransferKinds
<1>8. ResultsMatchText'
  BY <1>1, <1>2, <1>3 DEF TextChanged, retryVars, transferVars, clientVars, ResultsMatchText
<1>9. TransferInv'
    BY <1>1, <1>2, <1>3 DEF TextChanged, retryVars, transferVars, clientVars, WindowOK,
     ControlsAreTrue, StateIsTrue, TransferInv, IsConnected, HeldKinds, Kinds, TransferKinds
<1>10. Alone'
  BY <1>1, <1>2, <1>3 DEF TextChanged, retryVars, transferVars, clientVars, Alone, IsConnected
<1> QED BY <1>4, <1>5, <1>6, <1>7, <1>8, <1>9, <1>10 DEF Parts

\* The debounced search is sent.
LEMMA SearchIsSentKeeps ==
  ASSUME Parts, IsConnected, text # NoData, DebounceFires
  PROVE  Parts'
<1>1. WindowOK /\ Outstanding /\ StateIsTrue /\ ControlsAreTrue /\ ResultsMatchText /\ TransferInv /\ Alone
  BY DEF Parts
<1>2. held \in [HeldKinds -> Nat] /\ unread \in Seq(Frames) /\ next_request_id \in Nat \ {0}
  BY <1>1 DEF Outstanding, Asked
<1>3. \A k \in HeldKinds : held'[k] = IF k = "Search" THEN next_request_id ELSE held[k]
  BY <1>2 DEF DebounceFires, SendHeld, SendFrame, retryVars, transferVars, clientVars
<1>4. WindowOK'
  <2>1. debouncing' \in BOOLEAN
    BY <1>1 DEF DebounceFires, SendHeld, SendFrame, retryVars, transferVars, clientVars, WindowOK
  <2>2. UNCHANGED <<socket, service, available, connection_state, auto_start_attempted, retrying,
                    deadline, scanning, tab, pending, sending, choosing, text, rows>>
    BY <1>1 DEF DebounceFires, SendHeld, SendFrame, retryVars, transferVars, clientVars
  <2> QED BY <1>1, <2>1, <2>2 DEF WindowOK
<1>5. Outstanding'
  <2>1. /\ open' = open \cup {[kind |-> "Search", id |-> next_request_id, query |-> text, accepted |-> FALSE]}
        /\ unread' = unread /\ next_request_id' = next_request_id + 1 /\ text' = text
        /\ held' = [held EXCEPT !["Search"] = next_request_id]
    BY <1>1 DEF DebounceFires, SendHeld, SendFrame, retryVars, transferVars, clientVars
  <2>3. "Search" \in Kinds /\ text \in Queries \cup {NoData}
    BY <1>1 DEF HeldKinds, Kinds, TransferKinds, WindowOK
  <2>4. Asked(open \cup {[kind |-> "Search", id |-> next_request_id, query |-> text, accepted |-> FALSE]}, unread,
              [held EXCEPT !["Search"] = next_request_id], next_request_id + 1, text)
    BY <1>1, <2>3, AskedGrows DEF Outstanding
  <2> QED BY <2>1, <2>4 DEF Outstanding
<1>6. StateIsTrue'
    BY <1>1, <1>2, <1>3 DEF DebounceFires, SendHeld, SendFrame, retryVars, transferVars, clientVars,
     WindowOK, StateIsTrue, IsConnected
<1>7. ControlsAreTrue'
    BY <1>1, <1>2, <1>3 DEF DebounceFires, SendHeld, SendFrame, retryVars, transferVars, clientVars,
     WindowOK, StateIsTrue, ControlsAreTrue, IsConnected, HeldKinds, Kinds, TransferKinds
<1>8. ResultsMatchText'
    BY <1>1, <1>2, <1>3 DEF DebounceFires, SendHeld, SendFrame, retryVars, transferVars, clientVars,
     ResultsMatchText
<1>9. TransferInv'
    BY <1>1, <1>2, <1>3 DEF DebounceFires, SendHeld, SendFrame, retryVars, transferVars, clientVars,
     WindowOK, ControlsAreTrue, StateIsTrue, TransferInv, IsConnected, HeldKinds, Kinds,
     TransferKinds
<1>10. Alone'
    BY <1>1, <1>2, <1>3 DEF DebounceFires, SendHeld, SendFrame, retryVars, transferVars, clientVars,
     Alone, IsConnected
<1> QED BY <1>4, <1>5, <1>6, <1>7, <1>8, <1>9, <1>10 DEF Parts

\* It is not sent.
LEMMA SearchIsNotSentKeeps ==
  ASSUME Parts, ~IsConnected \/ text = NoData, DebounceFires
  PROVE  Parts'
<1>1. WindowOK /\ Outstanding /\ StateIsTrue /\ ControlsAreTrue /\ ResultsMatchText /\ TransferInv /\ Alone
  BY DEF Parts
<1>2. held \in [HeldKinds -> Nat] /\ unread \in Seq(Frames) /\ next_request_id \in Nat \ {0}
  BY <1>1 DEF Outstanding, Asked
<1>3. WindowOK'
  <2>1. debouncing' \in BOOLEAN /\ rows' = NoData /\ connection_state' \in {connection_state, "Offline"}
    BY <1>1 DEF DebounceFires, RefuseOffline, retryVars, transferVars, clientVars, WindowOK
  <2>2. UNCHANGED <<socket, service, available, auto_start_attempted, retrying, deadline, scanning, tab,
                    pending, sending, choosing, text>>
    BY <1>1 DEF DebounceFires, RefuseOffline, retryVars, transferVars, clientVars
  <2> QED BY <1>1, <2>1, <2>2 DEF WindowOK
<1>4. Outstanding'
  <2>1. open' = open /\ unread' = unread /\ held' = held /\ next_request_id' = next_request_id /\ text' = text
    BY <1>1 DEF DebounceFires, RefuseOffline, retryVars, transferVars, clientVars
  <2> QED BY <1>1, <2>1 DEF Outstanding
<1>5. StateIsTrue'
    BY <1>1, <1>2 DEF DebounceFires, RefuseOffline, retryVars, transferVars, clientVars, WindowOK,
     StateIsTrue, IsConnected
<1>6. ControlsAreTrue'
    BY <1>1, <1>2 DEF DebounceFires, RefuseOffline, retryVars, transferVars, clientVars, WindowOK,
     StateIsTrue, ControlsAreTrue, IsConnected, HeldKinds, Kinds, TransferKinds
<1>7. ResultsMatchText'
    BY <1>1, <1>2 DEF DebounceFires, RefuseOffline, retryVars, transferVars, clientVars,
     ResultsMatchText
<1>8. TransferInv'
    BY <1>1, <1>2 DEF DebounceFires, RefuseOffline, retryVars, transferVars, clientVars, WindowOK,
     ControlsAreTrue, StateIsTrue, TransferInv, IsConnected, HeldKinds, Kinds, TransferKinds
<1>9. Alone'
    BY <1>1, <1>2 DEF DebounceFires, RefuseOffline, retryVars, transferVars, clientVars, Alone,
     IsConnected
<1> QED BY <1>3, <1>4, <1>5, <1>6, <1>7, <1>8, <1>9 DEF Parts

\* A scan is started.
LEMMA ScanKeeps ==
  ASSUME Parts, IsConnected, ClickScan
  PROVE  Parts'
<1>1. WindowOK /\ Outstanding /\ StateIsTrue /\ ControlsAreTrue /\ ResultsMatchText /\ TransferInv /\ Alone
  BY DEF Parts
<1>2. held \in [HeldKinds -> Nat] /\ unread \in Seq(Frames) /\ next_request_id \in Nat \ {0}
  BY <1>1 DEF Outstanding, Asked
<1>3. \A k \in HeldKinds : held'[k] = IF k = "Scan" THEN next_request_id ELSE held[k]
  BY <1>2 DEF ClickScan, SendHeld, SendFrame, retryVars, transferVars, searchVars
<1>4. WindowOK'
    BY <1>1, <1>2, <1>3 DEF ClickScan, SendHeld, SendFrame, retryVars, transferVars, searchVars,
     WindowOK
<1>5. Outstanding'
  <2>1. /\ open' = open \cup {[kind |-> "Scan", id |-> next_request_id, query |-> NoData, accepted |-> FALSE]}
        /\ unread' = unread /\ next_request_id' = next_request_id + 1 /\ text' = text
        /\ held' = [held EXCEPT !["Scan"] = next_request_id]
    BY <1>1 DEF ClickScan, SendHeld, SendFrame, retryVars, transferVars, searchVars
  <2>2. "Scan" \in AwaitedKinds /\ held["Scan"] = 0
        BY <1>1 DEF ClickScan, SendHeld, SendFrame, retryVars, transferVars, searchVars,
       ControlsAreTrue, TransferInv, AwaitedKinds, HeldKinds, Kinds, TransferKinds
  <2>3. "Scan" \in Kinds /\ NoData \in Queries \cup {NoData}
    BY <1>1 DEF HeldKinds, Kinds, TransferKinds, WindowOK
  <2>4. Asked(open \cup {[kind |-> "Scan", id |-> next_request_id, query |-> NoData, accepted |-> FALSE]}, unread,
              [held EXCEPT !["Scan"] = next_request_id], next_request_id + 1, text)
    BY <1>1, <2>2, <2>3, AskedGrows DEF Outstanding
  <2> QED BY <2>1, <2>4 DEF Outstanding
<1>6. StateIsTrue'
    BY <1>1, <1>2, <1>3 DEF ClickScan, SendHeld, SendFrame, retryVars, transferVars, searchVars,
     WindowOK, StateIsTrue, IsConnected
<1>7. ControlsAreTrue'
    BY <1>1, <1>2, <1>3 DEF ClickScan, SendHeld, SendFrame, retryVars, transferVars, searchVars,
     WindowOK, StateIsTrue, ControlsAreTrue, IsConnected, HeldKinds, Kinds, TransferKinds
<1>8. ResultsMatchText'
    BY <1>1, <1>2, <1>3 DEF ClickScan, SendHeld, SendFrame, retryVars, transferVars, searchVars,
     ResultsMatchText
<1>9. TransferInv'
    BY <1>1, <1>2, <1>3 DEF ClickScan, SendHeld, SendFrame, retryVars, transferVars, searchVars,
     WindowOK, ControlsAreTrue, StateIsTrue, TransferInv, IsConnected, HeldKinds, Kinds,
     TransferKinds
<1>10. Alone'
    BY <1>1, <1>2, <1>3 DEF ClickScan, SendHeld, SendFrame, retryVars, transferVars, searchVars,
     Alone, IsConnected
<1> QED BY <1>4, <1>5, <1>6, <1>7, <1>8, <1>9, <1>10 DEF Parts

\* A scan is not started.
LEMMA NoScanKeeps ==
  ASSUME Parts, ~IsConnected, ClickScan
  PROVE  Parts'
<1>1. WindowOK /\ Outstanding /\ StateIsTrue /\ ControlsAreTrue /\ ResultsMatchText /\ TransferInv /\ Alone
  BY DEF Parts
<1>2. held \in [HeldKinds -> Nat] /\ unread \in Seq(Frames) /\ next_request_id \in Nat \ {0}
  BY <1>1 DEF Outstanding, Asked
<1>3. WindowOK'
    BY <1>1, <1>2 DEF ClickScan, RefuseOffline, retryVars, transferVars, searchVars, clientVars,
     WindowOK
<1>4. Outstanding'
  <2>1. open' = open /\ unread' = unread /\ held' = held /\ next_request_id' = next_request_id /\ text' = text
    BY <1>1 DEF ClickScan, RefuseOffline, retryVars, transferVars, searchVars, clientVars
  <2> QED BY <1>1, <2>1 DEF Outstanding
<1>5. StateIsTrue'
    BY <1>1, <1>2 DEF ClickScan, RefuseOffline, retryVars, transferVars, searchVars, clientVars,
     WindowOK, StateIsTrue, IsConnected
<1>6. ControlsAreTrue'
    BY <1>1, <1>2 DEF ClickScan, RefuseOffline, retryVars, transferVars, searchVars, clientVars,
     WindowOK, StateIsTrue, ControlsAreTrue, IsConnected, HeldKinds, Kinds, TransferKinds
<1>7. ResultsMatchText'
    BY <1>1, <1>2 DEF ClickScan, RefuseOffline, retryVars, transferVars, searchVars, clientVars,
     ResultsMatchText
<1>8. TransferInv'
    BY <1>1, <1>2 DEF ClickScan, RefuseOffline, retryVars, transferVars, searchVars, clientVars,
     WindowOK, ControlsAreTrue, StateIsTrue, TransferInv, IsConnected, HeldKinds, Kinds,
     TransferKinds
<1>9. Alone'
    BY <1>1, <1>2 DEF ClickScan, RefuseOffline, retryVars, transferVars, searchVars, clientVars,
     Alone, IsConnected
<1> QED BY <1>3, <1>4, <1>5, <1>6, <1>7, <1>8, <1>9 DEF Parts

\* A scan is cancelled.
LEMMA CancelKeeps ==
  ASSUME Parts, ClickCancel
  PROVE  Parts'
<1>1. WindowOK /\ Outstanding /\ StateIsTrue /\ ControlsAreTrue /\ ResultsMatchText /\ TransferInv /\ Alone
  BY DEF Parts
<1>2. held \in [HeldKinds -> Nat] /\ unread \in Seq(Frames) /\ next_request_id \in Nat \ {0}
  BY <1>1 DEF Outstanding, Asked
<1>3. WindowOK'
  BY <1>1, <1>2 DEF ClickCancel, SendFrame, retryVars, transferVars, searchVars, WindowOK
<1>4. Outstanding'
  <2>1. /\ open' = open \cup {[kind |-> "Cancel", id |-> next_request_id, query |-> NoData, accepted |-> FALSE]}
        /\ unread' = unread /\ next_request_id' = next_request_id + 1 /\ text' = text /\ held' = held
    BY DEF ClickCancel, SendFrame, retryVars, transferVars, searchVars
  <2>2. "Cancel" \in Kinds /\ NoData \in Queries \cup {NoData}
    BY DEF Kinds
  <2>3. Asked(open \cup {[kind |-> "Cancel", id |-> next_request_id, query |-> NoData, accepted |-> FALSE]},
              unread, held, next_request_id + 1, text)
    BY <1>1, <2>2, AskedGrows DEF Outstanding
  <2> QED BY <2>1, <2>3 DEF Outstanding
<1>5. StateIsTrue'
    BY <1>1, <1>2 DEF ClickCancel, SendFrame, retryVars, transferVars, searchVars, WindowOK,
     StateIsTrue, IsConnected
<1>6. ControlsAreTrue'
    BY <1>1, <1>2 DEF ClickCancel, SendFrame, retryVars, transferVars, searchVars, WindowOK,
     StateIsTrue, ControlsAreTrue, IsConnected, HeldKinds, Kinds, TransferKinds
<1>7. ResultsMatchText'
  BY <1>1, <1>2 DEF ClickCancel, SendFrame, retryVars, transferVars, searchVars, ResultsMatchText
<1>8. TransferInv'
    BY <1>1, <1>2 DEF ClickCancel, SendFrame, retryVars, transferVars, searchVars, WindowOK,
     ControlsAreTrue, StateIsTrue, TransferInv, IsConnected, HeldKinds, Kinds, TransferKinds
<1>9. Alone'
  BY <1>1, <1>2 DEF ClickCancel, SendFrame, retryVars, transferVars, searchVars, Alone, IsConnected
<1> QED BY <1>3, <1>4, <1>5, <1>6, <1>7, <1>8, <1>9 DEF Parts

\* A transfer operation is asked for.
LEMMA TransferKeeps ==
  ASSUME Parts, NEW kind \in {"Enable", "Disable"}, ClickTransfer(kind), ~choosing
  PROVE  Parts'
<1>1. WindowOK /\ Outstanding /\ StateIsTrue /\ ControlsAreTrue /\ ResultsMatchText /\ TransferInv /\ Alone
  BY DEF Parts
<1>2. held \in [HeldKinds -> Nat] /\ unread \in Seq(Frames) /\ next_request_id \in Nat \ {0}
  BY <1>1 DEF Outstanding, Asked
<1>3. \A k \in HeldKinds : held'[k] = IF k = kind THEN next_request_id ELSE held[k]
  BY <1>2 DEF ClickTransfer, ButtonEnabled, SendHeld, SendFrame, retryVars, searchVars
<1>4. WindowOK'
    BY <1>1, <1>2, <1>3 DEF ClickTransfer, ButtonEnabled, SendHeld, SendFrame, retryVars,
     searchVars, WindowOK
<1>5. Outstanding'
  <2>1. /\ open' = open \cup {[kind |-> kind, id |-> next_request_id, query |-> NoData, accepted |-> FALSE]}
        /\ unread' = unread /\ next_request_id' = next_request_id + 1 /\ text' = text
        /\ held' = [held EXCEPT ![kind] = next_request_id]
    BY <1>1 DEF ClickTransfer, ButtonEnabled, SendHeld, SendFrame, retryVars, searchVars
  <2>2. kind \in AwaitedKinds /\ held[kind] = 0
        BY <1>1 DEF ClickTransfer, ButtonEnabled, SendHeld, SendFrame, retryVars, searchVars,
       ControlsAreTrue, TransferInv, AwaitedKinds, HeldKinds, Kinds, TransferKinds
  <2>3. kind \in Kinds /\ NoData \in Queries \cup {NoData}
    BY <1>1 DEF HeldKinds, Kinds, TransferKinds, WindowOK
  <2>4. Asked(open \cup {[kind |-> kind, id |-> next_request_id, query |-> NoData, accepted |-> FALSE]}, unread,
              [held EXCEPT ![kind] = next_request_id], next_request_id + 1, text)
    BY <1>1, <2>2, <2>3, AskedGrows DEF Outstanding
  <2> QED BY <2>1, <2>4 DEF Outstanding
<1>6. StateIsTrue'
    BY <1>1, <1>2, <1>3 DEF ClickTransfer, ButtonEnabled, SendHeld, SendFrame, retryVars,
     searchVars, WindowOK, StateIsTrue, IsConnected
<1>7. ControlsAreTrue'
    BY <1>1, <1>2, <1>3 DEF ClickTransfer, ButtonEnabled, SendHeld, SendFrame, retryVars,
     searchVars, WindowOK, StateIsTrue, ControlsAreTrue, IsConnected, HeldKinds, Kinds,
     TransferKinds
<1>8. ResultsMatchText'
    BY <1>1, <1>2, <1>3 DEF ClickTransfer, ButtonEnabled, SendHeld, SendFrame, retryVars,
     searchVars, ResultsMatchText
<1>9. TransferInv'
    BY <1>1, <1>2, <1>3 DEF ClickTransfer, ButtonEnabled, SendHeld, SendFrame, retryVars,
     searchVars, WindowOK, ControlsAreTrue, StateIsTrue, TransferInv, IsConnected, HeldKinds, Kinds,
     TransferKinds
<1>10. Alone'
    BY <1>1, <1>2, <1>3 DEF ClickTransfer, ButtonEnabled, SendHeld, SendFrame, retryVars,
     searchVars, Alone, IsConnected
<1> QED BY <1>4, <1>5, <1>6, <1>7, <1>8, <1>9, <1>10 DEF Parts

\* The directory dialog opens.
LEMMA ChooseKeeps ==
  ASSUME Parts, ChooseDirectory
  PROVE  Parts'
<1>1. WindowOK /\ Outstanding /\ StateIsTrue /\ ControlsAreTrue /\ ResultsMatchText /\ TransferInv /\ Alone
  BY DEF Parts
<1>2. held \in [HeldKinds -> Nat] /\ unread \in Seq(Frames) /\ next_request_id \in Nat \ {0}
  BY <1>1 DEF Outstanding, Asked
<1>3. WindowOK'
  BY <1>1, <1>2 DEF ChooseDirectory, ButtonEnabled, retryVars, searchVars, clientVars, WindowOK
<1>4. Outstanding'
  <2>1. open' = open /\ unread' = unread /\ held' = held /\ next_request_id' = next_request_id /\ text' = text
    BY <1>1 DEF ChooseDirectory, ButtonEnabled, retryVars, searchVars, clientVars
  <2> QED BY <1>1, <2>1 DEF Outstanding
<1>5. StateIsTrue'
    BY <1>1, <1>2 DEF ChooseDirectory, ButtonEnabled, retryVars, searchVars, clientVars, WindowOK,
     StateIsTrue, IsConnected
<1>6. ControlsAreTrue'
    BY <1>1, <1>2 DEF ChooseDirectory, ButtonEnabled, retryVars, searchVars, clientVars, WindowOK,
     StateIsTrue, ControlsAreTrue, IsConnected, HeldKinds, Kinds, TransferKinds
<1>7. ResultsMatchText'
    BY <1>1, <1>2 DEF ChooseDirectory, ButtonEnabled, retryVars, searchVars, clientVars,
     ResultsMatchText
<1>8. TransferInv'
    BY <1>1, <1>2 DEF ChooseDirectory, ButtonEnabled, retryVars, searchVars, clientVars, WindowOK,
     ControlsAreTrue, StateIsTrue, TransferInv, IsConnected, HeldKinds, Kinds, TransferKinds
<1>9. Alone'
    BY <1>1, <1>2 DEF ChooseDirectory, ButtonEnabled, retryVars, searchVars, clientVars, Alone,
     IsConnected
<1> QED BY <1>3, <1>4, <1>5, <1>6, <1>7, <1>8, <1>9 DEF Parts

\* A directory is chosen.
LEMMA DirectoryIsSentKeeps ==
  ASSUME Parts, DirectoryChosen, pending'
  PROVE  Parts'
<1>1. WindowOK /\ Outstanding /\ StateIsTrue /\ ControlsAreTrue /\ ResultsMatchText /\ TransferInv /\ Alone
  BY DEF Parts
<1>2. held \in [HeldKinds -> Nat] /\ unread \in Seq(Frames) /\ next_request_id \in Nat \ {0}
  BY <1>1 DEF Outstanding, Asked
<1>3. IsConnected /\ ~pending /\ SendHeld("SetDirectory", NoData)
  BY <1>1 DEF DirectoryChosen, SetOfflineState, WindowOK, TransferInv
<1>4. ~choosing' /\ UNCHANGED <<socket, unread, service, available, connection_state, tab, sending, scanning>>
  BY <1>3 DEF DirectoryChosen, SetOfflineState, retryVars, searchVars
<1>5. UNCHANGED <<auto_start_attempted, retrying, deadline, text, debouncing, rows>>
  BY DEF DirectoryChosen, retryVars, searchVars
<1>6. \A k \in HeldKinds : held'[k] = IF k = "SetDirectory" THEN next_request_id ELSE held[k]
  BY <1>2, <1>3 DEF SendHeld
<1>7. choosing' \in BOOLEAN /\ pending' \in BOOLEAN
  BY <1>1 DEF DirectoryChosen, WindowOK
<1>8. WindowOK'
  BY <1>1, <1>2, <1>3, <1>4, <1>5, <1>6, <1>7 DEF SendHeld, SendFrame, WindowOK
<1>9. Outstanding'
  <2>1. /\ open' = open \cup {[kind |-> "SetDirectory", id |-> next_request_id, query |-> NoData, accepted |-> FALSE]}
        /\ unread' = unread /\ next_request_id' = next_request_id + 1 /\ text' = text
        /\ held' = [held EXCEPT !["SetDirectory"] = next_request_id]
    BY <1>1, <1>3, <1>4, <1>5 DEF SendHeld, SendFrame
  <2>2. "SetDirectory" \in AwaitedKinds /\ held["SetDirectory"] = 0
        BY <1>1, <1>3, <1>4, <1>5 DEF SendHeld, SendFrame, ControlsAreTrue, TransferInv,
       AwaitedKinds, HeldKinds, Kinds, TransferKinds
  <2>3. "SetDirectory" \in Kinds /\ NoData \in Queries \cup {NoData}
    BY <1>1 DEF HeldKinds, Kinds, TransferKinds, WindowOK
  <2>4. Asked(open \cup {[kind |-> "SetDirectory", id |-> next_request_id, query |-> NoData, accepted |-> FALSE]}, unread,
              [held EXCEPT !["SetDirectory"] = next_request_id], next_request_id + 1, text)
    BY <1>1, <2>2, <2>3, AskedGrows DEF Outstanding
  <2> QED BY <2>1, <2>4 DEF Outstanding
<1>10. StateIsTrue'
    BY <1>1, <1>2, <1>3, <1>4, <1>5, <1>6, <1>7 DEF SendHeld, SendFrame, WindowOK, StateIsTrue,
     IsConnected
<1>11. ControlsAreTrue'
    BY <1>1, <1>2, <1>3, <1>4, <1>5, <1>6, <1>7 DEF SendHeld, SendFrame, WindowOK, StateIsTrue,
     ControlsAreTrue, IsConnected, HeldKinds, Kinds, TransferKinds
<1>12. ResultsMatchText'
  BY <1>1, <1>2, <1>3, <1>4, <1>5, <1>6, <1>7 DEF SendHeld, SendFrame, ResultsMatchText
<1>13. TransferInv'
    BY <1>1, <1>2, <1>3, <1>4, <1>5, <1>6, <1>7 DEF SendHeld, SendFrame, WindowOK, ControlsAreTrue,
     StateIsTrue, TransferInv, IsConnected, HeldKinds, Kinds, TransferKinds
<1>14. Alone'
  BY <1>1, <1>2, <1>3, <1>4, <1>5, <1>6, <1>7 DEF SendHeld, SendFrame, Alone, IsConnected
<1> QED BY <1>8, <1>9, <1>10, <1>11, <1>12, <1>13, <1>14 DEF Parts

\* No directory is chosen, or it is not sent.
LEMMA NoDirectoryKeeps ==
  ASSUME Parts, DirectoryChosen, ~pending'
  PROVE  Parts'
<1>1. WindowOK /\ Outstanding /\ StateIsTrue /\ ControlsAreTrue /\ ResultsMatchText /\ TransferInv /\ Alone
  BY DEF Parts
<1>2. held \in [HeldKinds -> Nat] /\ unread \in Seq(Frames) /\ next_request_id \in Nat \ {0}
  BY <1>1 DEF Outstanding, Asked
<1>3. WindowOK'
  <2>1. choosing' \in BOOLEAN /\ tab' \in {tab, "Offline"} /\ pending' \in BOOLEAN /\ sending' \in BOOLEAN /\ connection_state' \in {connection_state, "Offline"}
        BY <1>1 DEF DirectoryChosen, SetOfflineState, RefuseOffline, retryVars, searchVars,
       clientVars, WindowOK
  <2>2. UNCHANGED <<socket, service, available, auto_start_attempted, retrying, deadline, scanning, text,
                    debouncing, rows>>
    BY <1>1 DEF DirectoryChosen, SetOfflineState, RefuseOffline, retryVars, searchVars, clientVars
  <2> QED BY <1>1, <2>1, <2>2 DEF WindowOK
<1>4. Outstanding'
  <2>1. open' = open /\ unread' = unread /\ held' = held /\ next_request_id' = next_request_id /\ text' = text
    BY <1>1 DEF DirectoryChosen, SetOfflineState, RefuseOffline, retryVars, searchVars, clientVars
  <2> QED BY <1>1, <2>1 DEF Outstanding
<1>5. StateIsTrue'
    BY <1>1, <1>2 DEF DirectoryChosen, SetOfflineState, RefuseOffline, retryVars, searchVars,
     clientVars, WindowOK, StateIsTrue, IsConnected
<1>6. ControlsAreTrue'
    BY <1>1, <1>2 DEF DirectoryChosen, SetOfflineState, RefuseOffline, retryVars, searchVars,
     clientVars, WindowOK, StateIsTrue, ControlsAreTrue, IsConnected, HeldKinds, Kinds,
     TransferKinds
<1>7. ResultsMatchText'
    BY <1>1, <1>2 DEF DirectoryChosen, SetOfflineState, RefuseOffline, retryVars, searchVars,
     clientVars, ResultsMatchText
<1>8. TransferInv'
    BY <1>1, <1>2 DEF DirectoryChosen, SetOfflineState, RefuseOffline, retryVars, searchVars,
     clientVars, WindowOK, ControlsAreTrue, StateIsTrue, TransferInv, IsConnected, HeldKinds, Kinds,
     TransferKinds
<1>9. Alone'
    BY <1>1, <1>2 DEF DirectoryChosen, SetOfflineState, RefuseOffline, retryVars, searchVars,
     clientVars, Alone, IsConnected
<1> QED BY <1>3, <1>4, <1>5, <1>6, <1>7, <1>8, <1>9 DEF Parts

\* A file is sent.
LEMMA SendKeeps ==
  ASSUME Parts, ClickSend
  PROVE  Parts'
<1>1. WindowOK /\ Outstanding /\ StateIsTrue /\ ControlsAreTrue /\ ResultsMatchText /\ TransferInv /\ Alone
  BY DEF Parts
<1>2. held \in [HeldKinds -> Nat] /\ unread \in Seq(Frames) /\ next_request_id \in Nat \ {0}
  BY <1>1 DEF Outstanding, Asked
<1>3. \A k \in HeldKinds : held'[k] = IF k = "Send" THEN next_request_id ELSE held[k]
  BY <1>2 DEF ClickSend, SendEnabled, SendHeld, SendFrame, retryVars, searchVars
<1>4. WindowOK'
    BY <1>1, <1>2, <1>3 DEF ClickSend, SendEnabled, SendHeld, SendFrame, retryVars, searchVars,
     WindowOK
<1>5. Outstanding'
  <2>1. /\ open' = open \cup {[kind |-> "Send", id |-> next_request_id, query |-> NoData, accepted |-> FALSE]}
        /\ unread' = unread /\ next_request_id' = next_request_id + 1 /\ text' = text
        /\ held' = [held EXCEPT !["Send"] = next_request_id]
    BY <1>1 DEF ClickSend, SendEnabled, SendHeld, SendFrame, retryVars, searchVars
  <2>2. "Send" \in AwaitedKinds /\ held["Send"] = 0
        BY <1>1 DEF ClickSend, SendEnabled, SendHeld, SendFrame, retryVars, searchVars,
       ControlsAreTrue, TransferInv, AwaitedKinds, HeldKinds, Kinds, TransferKinds
  <2>3. "Send" \in Kinds /\ NoData \in Queries \cup {NoData}
    BY <1>1 DEF HeldKinds, Kinds, TransferKinds, WindowOK
  <2>4. Asked(open \cup {[kind |-> "Send", id |-> next_request_id, query |-> NoData, accepted |-> FALSE]}, unread,
              [held EXCEPT !["Send"] = next_request_id], next_request_id + 1, text)
    BY <1>1, <2>2, <2>3, AskedGrows DEF Outstanding
  <2> QED BY <2>1, <2>4 DEF Outstanding
<1>6. StateIsTrue'
    BY <1>1, <1>2, <1>3 DEF ClickSend, SendEnabled, SendHeld, SendFrame, retryVars, searchVars,
     WindowOK, StateIsTrue, IsConnected
<1>7. ControlsAreTrue'
    BY <1>1, <1>2, <1>3 DEF ClickSend, SendEnabled, SendHeld, SendFrame, retryVars, searchVars,
     WindowOK, StateIsTrue, ControlsAreTrue, IsConnected, HeldKinds, Kinds, TransferKinds
<1>8. ResultsMatchText'
    BY <1>1, <1>2, <1>3 DEF ClickSend, SendEnabled, SendHeld, SendFrame, retryVars, searchVars,
     ResultsMatchText
<1>9. TransferInv'
    BY <1>1, <1>2, <1>3 DEF ClickSend, SendEnabled, SendHeld, SendFrame, retryVars, searchVars,
     WindowOK, ControlsAreTrue, StateIsTrue, TransferInv, IsConnected, HeldKinds, Kinds,
     TransferKinds
<1>10. Alone'
    BY <1>1, <1>2, <1>3 DEF ClickSend, SendEnabled, SendHeld, SendFrame, retryVars, searchVars,
     Alone, IsConnected
<1> QED BY <1>4, <1>5, <1>6, <1>7, <1>8, <1>9, <1>10 DEF Parts

\* The results of the search.
LEMMA SearchResponseKeeps ==
  ASSUME Parts, HandleFrame, ApplySearchResponse(Head(unread))
  PROVE  Parts'
<1>1. WindowOK /\ Outstanding /\ StateIsTrue /\ ControlsAreTrue /\ ResultsMatchText /\ TransferInv /\ Alone
  BY DEF Parts
<1>2. held \in [HeldKinds -> Nat] /\ unread \in Seq(Frames) /\ next_request_id \in Nat \ {0}
  BY <1>1 DEF Outstanding, Asked
<1>3. /\ IsConnected /\ unread # << >> /\ unread' = Tail(unread)
      /\ UNCHANGED <<socket, service, available, connection_state, auto_start_attempted, retrying, deadline,
                     choosing, text, debouncing>>
  BY DEF HandleFrame, retryVars
<1>4. /\ Head(unread) = unread[1] /\ 1 \in 1..Len(unread) /\ unread[1] \in Frames
      /\ \A n \in 1..Len(Tail(unread)) : n + 1 \in 1..Len(unread) /\ Tail(unread)[n] = unread[n + 1]
  BY <1>2, <1>3
<1>5. FramesOK(open, unread, next_request_id) /\ SearchOK(open, unread, held, text)
  BY <1>1 DEF Outstanding, Asked
<1>6. \A n \in 1..Len(unread') : \E m \in 1..Len(unread) : unread'[n] = unread[m]
  BY <1>3, <1>4
<1>7. /\ unread[1].kind = "Search" /\ unread[1].id = held["Search"]
      /\ UNCHANGED <<next_request_id, open, held, scanning, tab, pending, sending>>
      /\ rows' = IF unread[1].ok THEN unread[1].data ELSE NoData
  BY <1>4 DEF ApplySearchResponse, Matches, Release, UnavailableOr
<1>8. rows' \in {NoData, text}
  BY <1>4, <1>5, <1>7 DEF SearchOK
<1>9. WindowOK'
  BY <1>1, <1>3, <1>7, <1>8 DEF WindowOK
<1>10. Outstanding'
  <2>1. unread[1].part # "Last" \/ unread[1].kind \notin AwaitedKinds
    BY <1>7 DEF AwaitedKinds
  <2>2. open' = open /\ held' = held /\ next_request_id' = next_request_id
    BY <1>4, <1>7 DEF ApplySearchResponse, Matches, Release, UnavailableOr
  <2>3. Asked(open, Tail(unread), held, next_request_id, text)
    BY <1>1, <1>3, <1>4, <2>1, AskedShrinks DEF Outstanding
  <2> QED BY <1>3, <2>2, <2>3 DEF Outstanding
<1>11. StateIsTrue'
  BY <1>1, <1>3 DEF StateIsTrue, IsConnected
<1>12. ControlsAreTrue'
    BY <1>1, <1>3, <1>7, <1>8 DEF WindowOK, ControlsAreTrue, TransferInv, IsConnected, HeldKinds,
     Kinds, TransferKinds
<1>13. ResultsMatchText'
  BY <1>3, <1>8 DEF ResultsMatchText
<1>14. TransferInv'
    BY <1>1, <1>3, <1>4, <1>6, <1>7, <1>8 DEF WindowOK, ControlsAreTrue, TransferInv, IsConnected,
     HeldKinds, Kinds, TransferKinds
<1>15. Alone'
  BY <1>3 DEF Alone, IsConnected
<1> QED BY <1>9, <1>10, <1>11, <1>12, <1>13, <1>14, <1>15 DEF Parts

\* A scan is accepted or goes on.
LEMMA ScanProgressKeeps ==
  ASSUME Parts, HandleFrame, ApplyScanProgress(Head(unread))
  PROVE  Parts'
<1>1. WindowOK /\ Outstanding /\ StateIsTrue /\ ControlsAreTrue /\ ResultsMatchText /\ TransferInv /\ Alone
  BY DEF Parts
<1>2. held \in [HeldKinds -> Nat] /\ unread \in Seq(Frames) /\ next_request_id \in Nat \ {0}
  BY <1>1 DEF Outstanding, Asked
<1>3. /\ IsConnected /\ unread # << >> /\ unread' = Tail(unread)
      /\ UNCHANGED <<socket, service, available, connection_state, auto_start_attempted, retrying, deadline,
                     choosing, text, debouncing>>
  BY DEF HandleFrame, retryVars
<1>4. /\ Head(unread) = unread[1] /\ 1 \in 1..Len(unread) /\ unread[1] \in Frames
      /\ \A n \in 1..Len(Tail(unread)) : n + 1 \in 1..Len(unread) /\ Tail(unread)[n] = unread[n + 1]
  BY <1>2, <1>3
<1>5. FramesOK(open, unread, next_request_id) /\ SearchOK(open, unread, held, text)
  BY <1>1 DEF Outstanding, Asked
<1>6. \A n \in 1..Len(unread') : \E m \in 1..Len(unread) : unread'[n] = unread[m]
  BY <1>3, <1>4
<1>7. /\ unread[1].kind = "Scan" /\ unread[1].part # "Last" /\ held["Scan"] # 0 /\ scanning'
      /\ UNCHANGED <<next_request_id, open, held, tab, pending, sending, rows>>
  BY <1>4 DEF ApplyScanProgress, Matches, Release, UnavailableOr
<1>8. scanning' = scanning
  BY <1>1, <1>7 DEF ApplyScanProgress, ControlsAreTrue, WindowOK
<1>9. WindowOK'
  BY <1>1, <1>3, <1>7, <1>8 DEF WindowOK
<1>10. Outstanding'
  <2>1. unread[1].part # "Last" \/ unread[1].kind \notin AwaitedKinds
    BY <1>7
  <2>2. open' = open /\ held' = held /\ next_request_id' = next_request_id
    BY <1>4, <1>7 DEF ApplyScanProgress, Matches, Release, UnavailableOr
  <2>3. Asked(open, Tail(unread), held, next_request_id, text)
    BY <1>1, <1>3, <1>4, <2>1, AskedShrinks DEF Outstanding
  <2> QED BY <1>3, <2>2, <2>3 DEF Outstanding
<1>11. StateIsTrue'
  BY <1>1, <1>3 DEF StateIsTrue, IsConnected
<1>12. ControlsAreTrue'
    BY <1>1, <1>3, <1>7, <1>8 DEF WindowOK, ControlsAreTrue, TransferInv, IsConnected, HeldKinds,
     Kinds, TransferKinds
<1>13. ResultsMatchText'
  BY <1>1, <1>3, <1>7 DEF ResultsMatchText
<1>14. TransferInv'
    BY <1>1, <1>3, <1>4, <1>6, <1>7, <1>8 DEF WindowOK, ControlsAreTrue, TransferInv, IsConnected,
     HeldKinds, Kinds, TransferKinds
<1>15. Alone'
  BY <1>3 DEF Alone, IsConnected
<1> QED BY <1>9, <1>10, <1>11, <1>12, <1>13, <1>14, <1>15 DEF Parts

\* A scan is over.
LEMMA ScanEndKeeps ==
  ASSUME Parts, HandleFrame, ApplyScanEnd(Head(unread))
  PROVE  Parts'
<1>1. WindowOK /\ Outstanding /\ StateIsTrue /\ ControlsAreTrue /\ ResultsMatchText /\ TransferInv /\ Alone
  BY DEF Parts
<1>2. held \in [HeldKinds -> Nat] /\ unread \in Seq(Frames) /\ next_request_id \in Nat \ {0}
  BY <1>1 DEF Outstanding, Asked
<1>3. /\ IsConnected /\ unread # << >> /\ unread' = Tail(unread)
      /\ UNCHANGED <<socket, service, available, connection_state, auto_start_attempted, retrying, deadline,
                     choosing, text, debouncing>>
  BY DEF HandleFrame, retryVars
<1>4. /\ Head(unread) = unread[1] /\ 1 \in 1..Len(unread) /\ unread[1] \in Frames
      /\ \A n \in 1..Len(Tail(unread)) : n + 1 \in 1..Len(unread) /\ Tail(unread)[n] = unread[n + 1]
  BY <1>2, <1>3
<1>5. FramesOK(open, unread, next_request_id) /\ SearchOK(open, unread, held, text)
  BY <1>1 DEF Outstanding, Asked
<1>6. \A n \in 1..Len(unread') : \E m \in 1..Len(unread) : unread'[n] = unread[m]
  BY <1>3, <1>4
<1>7. /\ unread[1].kind = "Scan" /\ unread[1].part = "Last" /\ held' = [held EXCEPT !["Scan"] = 0] /\ scanning' = FALSE
      /\ UNCHANGED <<next_request_id, open, tab, pending, sending, rows>>
  BY <1>4 DEF ApplyScanEnd, Matches, Release, UnavailableOr
<1>8. \A k \in HeldKinds : held'[k] = IF k = unread[1].kind THEN 0 ELSE held[k]
  BY <1>2, <1>7
<1>9. WindowOK'
  <2>1. scanning' \in BOOLEAN
    BY <1>3, <1>7 DEF ApplyScanEnd, Matches, Release, UnavailableOr, WindowOK
  <2>2. UNCHANGED <<socket, service, available, connection_state, auto_start_attempted, retrying,
                    deadline, tab, pending, sending, choosing, text, debouncing, rows>>
    BY <1>3, <1>7 DEF ApplyScanEnd, Matches, Release, UnavailableOr
  <2> QED BY <1>1, <2>1, <2>2 DEF WindowOK
<1>10. Outstanding'
  <2>1. unread[1].part = "Last" /\ unread[1].kind \in AwaitedKinds
    BY <1>4, <1>5, <1>7 DEF FramesOK, Frames, AwaitedKinds, HeldKinds, Kinds, TransferKinds
  <2>2. open' = open /\ held' = [held EXCEPT ![unread[1].kind] = 0] /\ next_request_id' = next_request_id
    BY <1>4, <1>7 DEF ApplyScanEnd, Matches, Release, UnavailableOr
  <2>3. Asked(open, Tail(unread), [held EXCEPT ![unread[1].kind] = 0], next_request_id, text)
    BY <1>1, <1>3, <1>4, <2>1, AskedShrinks DEF Outstanding
  <2> QED BY <1>3, <2>2, <2>3 DEF Outstanding
<1>11. StateIsTrue'
  BY <1>1, <1>3 DEF StateIsTrue, IsConnected
<1>12. ControlsAreTrue'
    BY <1>1, <1>3, <1>7, <1>8 DEF WindowOK, ControlsAreTrue, TransferInv, IsConnected, HeldKinds,
     Kinds, TransferKinds
<1>13. ResultsMatchText'
  BY <1>1, <1>3, <1>7 DEF ResultsMatchText
<1>14. TransferInv'
    BY <1>1, <1>3, <1>4, <1>6, <1>7, <1>8 DEF WindowOK, ControlsAreTrue, TransferInv, IsConnected,
     HeldKinds, Kinds, TransferKinds
<1>15. Alone'
  BY <1>3 DEF Alone, IsConnected
<1> QED BY <1>9, <1>10, <1>11, <1>12, <1>13, <1>14, <1>15 DEF Parts

\* The transfer status is known.
LEMMA StatusKeeps ==
  ASSUME Parts, HandleFrame, ApplyTransferStatus(Head(unread))
  PROVE  Parts'
<1>1. WindowOK /\ Outstanding /\ StateIsTrue /\ ControlsAreTrue /\ ResultsMatchText /\ TransferInv /\ Alone
  BY DEF Parts
<1>2. held \in [HeldKinds -> Nat] /\ unread \in Seq(Frames) /\ next_request_id \in Nat \ {0}
  BY <1>1 DEF Outstanding, Asked
<1>3. /\ IsConnected /\ unread # << >> /\ unread' = Tail(unread)
      /\ UNCHANGED <<socket, service, available, connection_state, auto_start_attempted, retrying, deadline,
                     choosing, text, debouncing>>
  BY DEF HandleFrame, retryVars
<1>4. /\ Head(unread) = unread[1] /\ 1 \in 1..Len(unread) /\ unread[1] \in Frames
      /\ \A n \in 1..Len(Tail(unread)) : n + 1 \in 1..Len(unread) /\ Tail(unread)[n] = unread[n + 1]
  BY <1>2, <1>3
<1>5. FramesOK(open, unread, next_request_id) /\ SearchOK(open, unread, held, text)
  BY <1>1 DEF Outstanding, Asked
<1>6. \A n \in 1..Len(unread') : \E m \in 1..Len(unread) : unread'[n] = unread[m]
  BY <1>3, <1>4
<1>7. /\ unread[1].kind = "Status" /\ held["Status"] # 0 /\ held' = [held EXCEPT !["Status"] = 0] /\ pending' = FALSE
      /\ sending' \in {sending, FALSE} /\ (sending' = sending \/ (~available /\ ~unread[1].ok))
      /\ IF unread[1].ok THEN tab' = unread[1].data ELSE IF available THEN tab' = tab ELSE tab' = "Unavailable"
      /\ UNCHANGED <<next_request_id, open, scanning, rows>>
  BY <1>4 DEF ApplyTransferStatus, Matches, Release, UnavailableOr
<1>8. \A k \in HeldKinds : held'[k] = IF k = unread[1].kind THEN 0 ELSE held[k]
  BY <1>2, <1>7
<1>9. unread[1].ok => available /\ tab' \in {"Enabled", "Disabled"}
  BY <1>1, <1>4, <1>5, <1>7 DEF FramesOK, TransferInv, HeldKinds, Kinds, TransferKinds
<1>10. tab' \in {"Offline", "Unavailable", "Disabled", "Enabled"} /\ sending' = sending
  BY <1>1, <1>7, <1>9 DEF WindowOK, ControlsAreTrue, TransferInv
<1>11. WindowOK'
  <2>1. tab' \in {"Offline", "Unavailable", "Disabled", "Enabled"} /\ pending' \in BOOLEAN
    BY <1>3, <1>7, <1>10 DEF ApplyTransferStatus, Matches, Release, UnavailableOr, WindowOK
  <2>2. UNCHANGED <<socket, service, available, connection_state, auto_start_attempted, retrying,
                    deadline, scanning, sending, choosing, text, debouncing, rows>>
    BY <1>3, <1>7, <1>10 DEF ApplyTransferStatus, Matches, Release, UnavailableOr
  <2> QED BY <1>1, <2>1, <2>2 DEF WindowOK
<1>12. Outstanding'
  <2>1. unread[1].part = "Last" /\ unread[1].kind \in AwaitedKinds
    BY <1>4, <1>5, <1>7 DEF FramesOK, Frames, AwaitedKinds, HeldKinds, Kinds, TransferKinds
  <2>2. open' = open /\ held' = [held EXCEPT ![unread[1].kind] = 0] /\ next_request_id' = next_request_id
    BY <1>4, <1>7 DEF ApplyTransferStatus, Matches, Release, UnavailableOr
  <2>3. Asked(open, Tail(unread), [held EXCEPT ![unread[1].kind] = 0], next_request_id, text)
    BY <1>1, <1>3, <1>4, <2>1, AskedShrinks DEF Outstanding
  <2> QED BY <1>3, <2>2, <2>3 DEF Outstanding
<1>13. StateIsTrue'
  BY <1>1, <1>3 DEF StateIsTrue, IsConnected
<1>14. ControlsAreTrue'
    BY <1>1, <1>3, <1>7, <1>8, <1>10 DEF WindowOK, ControlsAreTrue, TransferInv, IsConnected,
     HeldKinds, Kinds, TransferKinds
<1>15. ResultsMatchText'
  BY <1>1, <1>3, <1>7 DEF ResultsMatchText
<1>16. TransferInv'
    BY <1>1, <1>3, <1>4, <1>6, <1>7, <1>8, <1>9, <1>10 DEF WindowOK, ControlsAreTrue, TransferInv,
     IsConnected, HeldKinds, Kinds, TransferKinds
<1>17. Alone'
  BY <1>3 DEF Alone, IsConnected
<1> QED BY <1>11, <1>12, <1>13, <1>14, <1>15, <1>16, <1>17 DEF Parts

\* The file is accepted for sending.
LEMMA SendAcceptedKeeps ==
  ASSUME Parts, HandleFrame, ApplySendFile(Head(unread)), Head(unread).part = "Accepted"
  PROVE  Parts'
<1>1. WindowOK /\ Outstanding /\ StateIsTrue /\ ControlsAreTrue /\ ResultsMatchText /\ TransferInv /\ Alone
  BY DEF Parts
<1>2. held \in [HeldKinds -> Nat] /\ unread \in Seq(Frames) /\ next_request_id \in Nat \ {0}
  BY <1>1 DEF Outstanding, Asked
<1>3. /\ IsConnected /\ unread # << >> /\ unread' = Tail(unread)
      /\ UNCHANGED <<socket, service, available, connection_state, auto_start_attempted, retrying, deadline,
                     choosing, text, debouncing>>
  BY DEF HandleFrame, retryVars
<1>4. /\ Head(unread) = unread[1] /\ 1 \in 1..Len(unread) /\ unread[1] \in Frames
      /\ \A n \in 1..Len(Tail(unread)) : n + 1 \in 1..Len(unread) /\ Tail(unread)[n] = unread[n + 1]
  BY <1>2, <1>3
<1>5. FramesOK(open, unread, next_request_id) /\ SearchOK(open, unread, held, text)
  BY <1>1 DEF Outstanding, Asked
<1>6. \A n \in 1..Len(unread') : \E m \in 1..Len(unread) : unread'[n] = unread[m]
  BY <1>3, <1>4
<1>7. /\ unread[1].kind = "Send" /\ unread[1].part = "Accepted" /\ held["Send"] # 0 /\ sending'
      /\ UNCHANGED <<next_request_id, open, held, scanning, tab, pending, rows>>
  BY <1>4 DEF ApplySendFile, Matches, Release, UnavailableOr
<1>8. sending' = sending
  BY <1>1, <1>7 DEF ApplySendFile, ControlsAreTrue, WindowOK
<1>9. WindowOK'
  BY <1>1, <1>3, <1>7, <1>8 DEF WindowOK
<1>10. Outstanding'
  <2>1. unread[1].part # "Last" \/ unread[1].kind \notin AwaitedKinds
    BY <1>7
  <2>2. open' = open /\ held' = held /\ next_request_id' = next_request_id
    BY <1>4, <1>7 DEF ApplySendFile, Matches, Release, UnavailableOr
  <2>3. Asked(open, Tail(unread), held, next_request_id, text)
    BY <1>1, <1>3, <1>4, <2>1, AskedShrinks DEF Outstanding
  <2> QED BY <1>3, <2>2, <2>3 DEF Outstanding
<1>11. StateIsTrue'
  BY <1>1, <1>3 DEF StateIsTrue, IsConnected
<1>12. ControlsAreTrue'
    BY <1>1, <1>3, <1>7, <1>8 DEF WindowOK, ControlsAreTrue, TransferInv, IsConnected, HeldKinds,
     Kinds, TransferKinds
<1>13. ResultsMatchText'
  BY <1>1, <1>3, <1>7 DEF ResultsMatchText
<1>14. TransferInv'
    BY <1>1, <1>3, <1>4, <1>6, <1>7, <1>8 DEF WindowOK, ControlsAreTrue, TransferInv, IsConnected,
     HeldKinds, Kinds, TransferKinds
<1>15. Alone'
  BY <1>3 DEF Alone, IsConnected
<1> QED BY <1>9, <1>10, <1>11, <1>12, <1>13, <1>14, <1>15 DEF Parts

\* The file is sent, or not.
LEMMA SendResultKeeps ==
  ASSUME Parts, HandleFrame, ApplySendFile(Head(unread)), Head(unread).part # "Accepted"
  PROVE  Parts'
<1>1. WindowOK /\ Outstanding /\ StateIsTrue /\ ControlsAreTrue /\ ResultsMatchText /\ TransferInv /\ Alone
  BY DEF Parts
<1>2. held \in [HeldKinds -> Nat] /\ unread \in Seq(Frames) /\ next_request_id \in Nat \ {0}
  BY <1>1 DEF Outstanding, Asked
<1>3. /\ IsConnected /\ unread # << >> /\ unread' = Tail(unread)
      /\ UNCHANGED <<socket, service, available, connection_state, auto_start_attempted, retrying, deadline,
                     choosing, text, debouncing>>
  BY DEF HandleFrame, retryVars
<1>4. /\ Head(unread) = unread[1] /\ 1 \in 1..Len(unread) /\ unread[1] \in Frames
      /\ \A n \in 1..Len(Tail(unread)) : n + 1 \in 1..Len(unread) /\ Tail(unread)[n] = unread[n + 1]
  BY <1>2, <1>3
<1>5. FramesOK(open, unread, next_request_id) /\ SearchOK(open, unread, held, text)
  BY <1>1 DEF Outstanding, Asked
<1>6. \A n \in 1..Len(unread') : \E m \in 1..Len(unread) : unread'[n] = unread[m]
  BY <1>3, <1>4
<1>7. /\ unread[1].kind = "Send" /\ unread[1].part # "Accepted" /\ held["Send"] # 0
      /\ held' = [held EXCEPT !["Send"] = 0] /\ sending' = FALSE
      /\ ((tab' = tab /\ pending' = pending) \/ ~available)
      /\ UNCHANGED <<next_request_id, open, scanning, rows>>
  BY <1>4 DEF ApplySendFile, Matches, Release, UnavailableOr
<1>8. \A k \in HeldKinds : held'[k] = IF k = unread[1].kind THEN 0 ELSE held[k]
  BY <1>2, <1>7
<1>9. available /\ tab' = tab /\ pending' = pending
  BY <1>1, <1>7 DEF TransferInv, WindowOK
<1>10. WindowOK'
  <2>1. sending' \in BOOLEAN
    BY <1>3, <1>7, <1>9 DEF ApplySendFile, Matches, Release, UnavailableOr, WindowOK
  <2>2. UNCHANGED <<socket, service, available, connection_state, auto_start_attempted, retrying,
                    deadline, scanning, tab, pending, choosing, text, debouncing, rows>>
    BY <1>3, <1>7, <1>9 DEF ApplySendFile, Matches, Release, UnavailableOr
  <2> QED BY <1>1, <2>1, <2>2 DEF WindowOK
<1>11. Outstanding'
  <2>1. unread[1].part = "Last" /\ unread[1].kind \in AwaitedKinds
    BY <1>4, <1>5, <1>7 DEF FramesOK, Frames, AwaitedKinds, HeldKinds, Kinds, TransferKinds
  <2>2. open' = open /\ held' = [held EXCEPT ![unread[1].kind] = 0] /\ next_request_id' = next_request_id
    BY <1>4, <1>7 DEF ApplySendFile, Matches, Release, UnavailableOr
  <2>3. Asked(open, Tail(unread), [held EXCEPT ![unread[1].kind] = 0], next_request_id, text)
    BY <1>1, <1>3, <1>4, <2>1, AskedShrinks DEF Outstanding
  <2> QED BY <1>3, <2>2, <2>3 DEF Outstanding
<1>12. StateIsTrue'
  BY <1>1, <1>3 DEF StateIsTrue, IsConnected
<1>13. ControlsAreTrue'
    BY <1>1, <1>3, <1>7, <1>8, <1>9 DEF WindowOK, ControlsAreTrue, TransferInv, IsConnected,
     HeldKinds, Kinds, TransferKinds
<1>14. ResultsMatchText'
  BY <1>1, <1>3, <1>7 DEF ResultsMatchText
<1>15. TransferInv'
    BY <1>1, <1>3, <1>4, <1>6, <1>7, <1>8, <1>9 DEF WindowOK, ControlsAreTrue, TransferInv,
     IsConnected, HeldKinds, Kinds, TransferKinds
<1>16. Alone'
  BY <1>3 DEF Alone, IsConnected
<1> QED BY <1>10, <1>11, <1>12, <1>13, <1>14, <1>15, <1>16 DEF Parts

\* A frame that is not awaited.
LEMMA StrayFrameKeeps ==
  ASSUME Parts, HandleFrame, ~Matches(Head(unread))
  PROVE  Parts'
<1>1. WindowOK /\ Outstanding /\ StateIsTrue /\ ControlsAreTrue /\ ResultsMatchText /\ TransferInv /\ Alone
  BY DEF Parts
<1>2. held \in [HeldKinds -> Nat] /\ unread \in Seq(Frames) /\ next_request_id \in Nat \ {0}
  BY <1>1 DEF Outstanding, Asked
<1>3. /\ IsConnected /\ unread # << >> /\ unread' = Tail(unread)
      /\ UNCHANGED <<socket, service, available, connection_state, auto_start_attempted, retrying, deadline,
                     choosing, text, debouncing>>
  BY DEF HandleFrame, retryVars
<1>4. /\ Head(unread) = unread[1] /\ 1 \in 1..Len(unread) /\ unread[1] \in Frames
      /\ \A n \in 1..Len(Tail(unread)) : n + 1 \in 1..Len(unread) /\ Tail(unread)[n] = unread[n + 1]
  BY <1>2, <1>3
<1>5. FramesOK(open, unread, next_request_id) /\ SearchOK(open, unread, held, text)
  BY <1>1 DEF Outstanding, Asked
<1>6. \A n \in 1..Len(unread') : \E m \in 1..Len(unread) : unread'[n] = unread[m]
  BY <1>3, <1>4
<1>7. /\ ~Matches(unread[1])
      /\ UNCHANGED <<next_request_id, open, held, scanning, tab, pending, sending, rows>>
  BY <1>4 DEF HandleFrame, ApplySearchResponse, ApplyScanProgress, ApplyScanEnd,
               ApplyTransferResponse, ApplyTransferStatus, ApplySendFile
<1>8. held' = held
  BY <1>7
<1>9. WindowOK'
  BY <1>1, <1>3, <1>7 DEF WindowOK
<1>10. Outstanding'
  <2>1. unread[1].part # "Last" \/ unread[1].kind \notin AwaitedKinds
    <3> SUFFICES ASSUME unread[1].part = "Last", unread[1].kind \in AwaitedKinds
                 PROVE  FALSE
      OBVIOUS
    <3>1. unread[1].kind \in HeldKinds /\ unread[1].id \in 1..next_request_id - 1
      BY <1>4, <1>5 DEF AwaitedKinds, FramesOK
    <3>2. Owing(open, unread, unread[1].kind, unread[1].id)
      BY <1>4 DEF Owing
    <3>3. held[unread[1].kind] = unread[1].id
      BY <1>1, <3>1, <3>2 DEF Outstanding, Asked
    <3> QED BY <1>2, <1>7, <3>1, <3>3 DEF Matches
  <2>2. open' = open /\ held' = held /\ next_request_id' = next_request_id
    BY <1>4, <1>7 DEF Matches, Release, UnavailableOr
  <2>3. Asked(open, Tail(unread), held, next_request_id, text)
    BY <1>1, <1>3, <1>4, <2>1, AskedShrinks DEF Outstanding
  <2> QED BY <1>3, <2>2, <2>3 DEF Outstanding
<1>11. StateIsTrue'
  BY <1>1, <1>3 DEF StateIsTrue, IsConnected
<1>12. ControlsAreTrue'
    BY <1>1, <1>3, <1>7, <1>8 DEF WindowOK, ControlsAreTrue, TransferInv, IsConnected, HeldKinds,
     Kinds, TransferKinds
<1>13. ResultsMatchText'
  BY <1>1, <1>3, <1>7 DEF ResultsMatchText
<1>14. TransferInv'
    BY <1>1, <1>3, <1>4, <1>6, <1>7, <1>8 DEF WindowOK, ControlsAreTrue, TransferInv, IsConnected,
     HeldKinds, Kinds, TransferKinds
<1>15. Alone'
  BY <1>3 DEF Alone, IsConnected
<1> QED BY <1>9, <1>10, <1>11, <1>12, <1>13, <1>14, <1>15 DEF Parts

\* A transfer operation is over, and the status requested.
LEMMA TransferResponseKeeps ==
  ASSUME Parts, HandleFrame, ApplyTransferResponse(Head(unread))
  PROVE  Parts'
<1>1. WindowOK /\ Outstanding /\ StateIsTrue /\ ControlsAreTrue /\ ResultsMatchText /\ TransferInv /\ Alone
  BY DEF Parts
<1>2. held \in [HeldKinds -> Nat] /\ unread \in Seq(Frames) /\ next_request_id \in Nat \ {0}
  BY <1>1 DEF Outstanding, Asked
<1>3. /\ IsConnected /\ unread # << >> /\ unread' = Tail(unread)
      /\ UNCHANGED <<socket, service, available, connection_state, auto_start_attempted, retrying, deadline,
                     choosing, text, debouncing>>
  BY DEF HandleFrame, retryVars
<1>4. /\ Head(unread) = unread[1] /\ 1 \in 1..Len(unread) /\ unread[1] \in Frames
      /\ \A n \in 1..Len(Tail(unread)) : n + 1 \in 1..Len(unread) /\ Tail(unread)[n] = unread[n + 1]
  BY <1>2, <1>3
<1>5. FramesOK(open, unread, next_request_id) /\ SearchOK(open, unread, held, text)
  BY <1>1 DEF Outstanding, Asked
<1>6. \A n \in 1..Len(unread') : \E m \in 1..Len(unread) : unread'[n] = unread[m]
  BY <1>3, <1>4
<1>7. /\ unread[1].kind \in TransferKinds \ {"Status"} /\ held[unread[1].kind] # 0
      /\ next_request_id' = next_request_id + 1
      /\ open' = open \cup {[kind |-> "Status", id |-> next_request_id, query |-> NoData, accepted |-> FALSE]}
      /\ held' = [held EXCEPT ![unread[1].kind] = 0, !["Status"] = next_request_id] /\ pending' = TRUE
      /\ IF ~unread[1].ok /\ ~available THEN tab' = "Unavailable" /\ sending' = FALSE ELSE UNCHANGED <<tab, sending>>
      /\ UNCHANGED <<scanning, rows>>
  BY <1>4 DEF ApplyTransferResponse, Matches, SendFrame
<1>8. /\ \A k \in HeldKinds : held'[k] = IF k = "Status" THEN next_request_id ELSE IF k = unread[1].kind THEN 0 ELSE held[k]
      /\ pending /\ pending' = TRUE
      /\ sending' = sending /\ tab' \in {"Offline", "Unavailable", "Disabled", "Enabled"}
      /\ tab' # "Offline" => IsConnected
    BY <1>1, <1>2, <1>3, <1>7 DEF WindowOK, ControlsAreTrue, TransferInv, HeldKinds, Kinds,
     TransferKinds
<1>9. WindowOK'
  BY <1>1, <1>3, <1>7, <1>8 DEF WindowOK
<1>10. Outstanding'
  <2>1. unread[1].part = "Last" /\ unread[1].kind \in AwaitedKinds
    BY <1>4, <1>5, <1>7 DEF FramesOK, Frames, AwaitedKinds, HeldKinds, Kinds, TransferKinds
  <2> DEFINE he == [held EXCEPT ![unread[1].kind] = 0]
  <2>2. Asked(open, Tail(unread), he, next_request_id, text)
    BY <1>1, <1>3, <1>4, <2>1, AskedShrinks DEF Outstanding
  <2>3. "Status" \in AwaitedKinds /\ "Status" \in Kinds /\ he["Status"] = 0
    BY <1>1, <1>2, <1>7 DEF TransferInv, AwaitedKinds, HeldKinds, Kinds, TransferKinds
  <2>4. held' = [he EXCEPT !["Status"] = next_request_id]
    BY <1>7
  <2> HIDE DEF he
  <2>5. Asked(open \cup {[kind |-> "Status", id |-> next_request_id, query |-> NoData, accepted |-> FALSE]}, Tail(unread),
              [he EXCEPT !["Status"] = next_request_id], next_request_id + 1, text)
    BY <2>2, <2>3, AskedGrows
  <2> QED BY <1>3, <1>7, <2>4, <2>5 DEF Outstanding
<1>11. StateIsTrue'
  BY <1>1, <1>3 DEF StateIsTrue, IsConnected
<1>12. ControlsAreTrue'
    BY <1>1, <1>2, <1>3, <1>7, <1>8 DEF WindowOK, ControlsAreTrue, IsConnected, HeldKinds, Kinds,
     TransferKinds
<1>13. ResultsMatchText'
  BY <1>1, <1>3, <1>7 DEF ResultsMatchText
<1>14. TransferInv'
    BY <1>1, <1>2, <1>3, <1>4, <1>6, <1>7, <1>8 DEF WindowOK, ControlsAreTrue, TransferInv,
     IsConnected, HeldKinds, Kinds, TransferKinds
<1>15. Alone'
  BY <1>3 DEF Alone, IsConnected
<1> QED BY <1>9, <1>10, <1>11, <1>12, <1>13, <1>14, <1>15 DEF Parts

\* One more frame.
LEMMA OneMoreFrame ==
  ASSUME NEW un \in Seq(Frames), NEW f \in Frames
  PROVE  \A n \in 1..Len(Append(un, f)) :
            (n \in 1..Len(un) /\ Append(un, f)[n] = un[n]) \/ Append(un, f)[n] = f
OBVIOUS

\* A request is accepted.
LEMMA AcceptKeeps ==
  ASSUME Parts, UNCHANGED <<connection_state, auto_start_attempted, retrying, deadline, held, scanning, tab, pending,
                   sending, choosing, text, debouncing, rows>>,
         NEW r \in open, ServiceAccepts(r)
  PROVE  Parts'
<1> DEFINE f == Reply(r, "Accepted", TRUE, NoData)
           r2 == [r EXCEPT !.accepted = TRUE]
<1>1. WindowOK /\ Outstanding /\ StateIsTrue /\ ControlsAreTrue /\ ResultsMatchText /\ TransferInv /\ Alone
  BY DEF Parts
<1>2. held \in [HeldKinds -> Nat] /\ unread \in Seq(Frames) /\ next_request_id \in Nat \ {0}
  BY <1>1 DEF Outstanding, Asked
<1>3. /\ socket = "Connected" /\ UNCHANGED <<socket, next_request_id, service, available>>
  BY DEF ServiceAccepts
<1>4. r \in Requests
  BY <1>1 DEF Outstanding, Asked
<1>5. f \in Frames /\ unread' = Append(unread, f)
  BY <1>4 DEF ServiceAccepts, Frames, Reply, Requests, Data
<1>6. f.kind \notin TransferKinds
  BY DEF ServiceAccepts, Reply, TransferKinds
<1>7. \A n \in 1..Len(unread') : (n \in 1..Len(unread) /\ unread'[n] = unread[n]) \/ unread'[n] = f
  BY <1>2, <1>5, OneMoreFrame
<1>8. WindowOK'
  BY <1>1, <1>2, <1>3, <1>4, <1>5, <1>6, <1>7 DEF WindowOK
<1>9. Outstanding'
  <2>1. f.part = "Accepted" /\ r.kind \in {"Scan", "Send"} /\ f.kind = r.kind /\ f.id = r.id
    BY DEF ServiceAccepts, Reply
  <2>2. r2 \in Requests /\ r2.kind = r.kind /\ r2.id = r.id /\ r2.query = r.query
    BY <1>4 DEF Requests
  <2>3. open' = (open \ {r}) \cup {r2}
    BY DEF ServiceAccepts
  <2> HIDE DEF f, r2
  <2>4. Asked((open \ {r}) \cup {r2}, Append(unread, f), held, next_request_id, text)
    BY <1>1, <1>5, <2>1, <2>2, AskedGoesOn DEF Outstanding
  <2> QED BY <1>3, <1>5, <2>3, <2>4 DEF Outstanding
<1>10. StateIsTrue'
  BY <1>1, <1>2, <1>3, <1>4, <1>5, <1>6, <1>7 DEF WindowOK, StateIsTrue, IsConnected
<1>11. ControlsAreTrue'
  BY <1>1, <1>2, <1>3, <1>4, <1>5, <1>6, <1>7 DEF ControlsAreTrue, IsConnected
<1>12. ResultsMatchText'
  BY <1>1, <1>2, <1>3, <1>4, <1>5, <1>6, <1>7 DEF ResultsMatchText
<1>13. TransferInv'
  BY <1>1, <1>3, <1>6, <1>7 DEF TransferInv
<1>14. Alone'
  BY <1>3 DEF Alone, IsConnected
<1> QED BY <1>8, <1>9, <1>10, <1>11, <1>12, <1>13, <1>14 DEF Parts

\* A scan goes on.
LEMMA ProgressKeeps ==
  ASSUME Parts, UNCHANGED <<connection_state, auto_start_attempted, retrying, deadline, held, scanning, tab, pending,
                   sending, choosing, text, debouncing, rows>>,
         NEW r \in open, ServiceReportsProgress(r)
  PROVE  Parts'
<1> DEFINE f == Reply(r, "Progress", TRUE, NoData)
<1>1. WindowOK /\ Outstanding /\ StateIsTrue /\ ControlsAreTrue /\ ResultsMatchText /\ TransferInv /\ Alone
  BY DEF Parts
<1>2. held \in [HeldKinds -> Nat] /\ unread \in Seq(Frames) /\ next_request_id \in Nat \ {0}
  BY <1>1 DEF Outstanding, Asked
<1>3. /\ socket = "Connected" /\ UNCHANGED <<socket, next_request_id, service, available>>
  BY DEF ServiceReportsProgress
<1>4. r \in Requests
  BY <1>1 DEF Outstanding, Asked
<1>5. f \in Frames /\ unread' = Append(unread, f)
  BY <1>4 DEF ServiceReportsProgress, Frames, Reply, Requests, Data
<1>6. f.kind \notin TransferKinds
  BY DEF ServiceReportsProgress, Reply, TransferKinds
<1>7. \A n \in 1..Len(unread') : (n \in 1..Len(unread) /\ unread'[n] = unread[n]) \/ unread'[n] = f
  BY <1>2, <1>5, OneMoreFrame
<1>8. WindowOK'
  BY <1>1, <1>2, <1>3, <1>4, <1>5, <1>6, <1>7 DEF WindowOK
<1>9. Outstanding'
  <2>1. f.part = "Progress" /\ r.kind = "Scan" /\ f.kind = r.kind /\ f.id = r.id
    BY DEF ServiceReportsProgress, Reply
  <2>2. open' = (open \ {r}) \cup {r}
    BY DEF ServiceReportsProgress
  <2> HIDE DEF f
  <2>3. Asked((open \ {r}) \cup {r}, Append(unread, f), held, next_request_id, text)
    BY <1>1, <1>4, <1>5, <2>1, AskedGoesOn DEF Outstanding
  <2> QED BY <1>3, <1>5, <2>2, <2>3 DEF Outstanding
<1>10. StateIsTrue'
  BY <1>1, <1>2, <1>3, <1>4, <1>5, <1>6, <1>7 DEF WindowOK, StateIsTrue, IsConnected
<1>11. ControlsAreTrue'
  BY <1>1, <1>2, <1>3, <1>4, <1>5, <1>6, <1>7 DEF ControlsAreTrue, IsConnected
<1>12. ResultsMatchText'
  BY <1>1, <1>2, <1>3, <1>4, <1>5, <1>6, <1>7 DEF ResultsMatchText
<1>13. TransferInv'
  BY <1>1, <1>3, <1>6, <1>7 DEF TransferInv
<1>14. Alone'
  BY <1>3 DEF Alone, IsConnected
<1> QED BY <1>8, <1>9, <1>10, <1>11, <1>12, <1>13, <1>14 DEF Parts

\* What a last reply is.
LEMMA LastRepliesAreFrames ==
  ASSUME NEW r \in Requests, NEW f \in LastReplies(r), available \in BOOLEAN
  PROVE  /\ f \in Frames /\ f.kind = r.kind /\ f.id = r.id /\ f.part = "Last"
         /\ r.kind = "Search" /\ f.ok => f.data = r.query
         /\ r.kind = "Status" /\ f.ok => f.data \in {"Enabled", "Disabled"}
         /\ r.kind \in TransferKinds /\ ~available => ~f.ok
<1>1. PICK ok \in BOOLEAN, data \in Data : f = Reply(r, "Last", ok, data)
  BY DEF LastReplies, Data, Requests
<1>2. f \in Frames /\ f.kind = r.kind /\ f.id = r.id /\ f.part = "Last" /\ f.ok = ok /\ f.data = data
  BY <1>1 DEF Reply, Frames, Requests
<1>3. ASSUME r.kind = "Search", f.ok
      PROVE  f.data = r.query
  BY <1>2, <1>3 DEF LastReplies, Reply, TransferKinds
<1>4. ASSUME r.kind = "Status", f.ok
      PROVE  f.data \in {"Enabled", "Disabled"}
  BY <1>2, <1>4 DEF LastReplies, Reply, TransferKinds
<1>5. ASSUME r.kind \in TransferKinds, ~available
      PROVE  ~f.ok
  BY <1>5 DEF LastReplies, Reply
<1> QED BY <1>2, <1>3, <1>4, <1>5

\* A request is answered.
LEMMA AnswerKeeps ==
  ASSUME Parts, UNCHANGED <<connection_state, auto_start_attempted, retrying, deadline, held, scanning, tab, pending,
                   sending, choosing, text, debouncing, rows>>,
         NEW r \in open, NEW f \in LastReplies(r),
         socket = "Connected", open' = open \ {r}, unread' = Append(unread, f),
         UNCHANGED <<socket, next_request_id, service, available>>
  PROVE  Parts'
<1>1. WindowOK /\ Outstanding /\ StateIsTrue /\ ControlsAreTrue /\ ResultsMatchText /\ TransferInv /\ Alone
  BY DEF Parts
<1>2. held \in [HeldKinds -> Nat] /\ unread \in Seq(Frames) /\ next_request_id \in Nat \ {0}
  BY <1>1 DEF Outstanding, Asked
<1>3. r \in Requests /\ available \in BOOLEAN
  BY <1>1 DEF Outstanding, Asked, WindowOK
<1>4. /\ f \in Frames /\ f.kind = r.kind /\ f.id = r.id /\ f.part = "Last"
      /\ r.kind = "Search" /\ f.ok => f.data = r.query
      /\ r.kind = "Status" /\ f.ok => f.data \in {"Enabled", "Disabled"}
      /\ r.kind \in TransferKinds /\ ~available => ~f.ok
  BY <1>3, LastRepliesAreFrames
<1>5. \A n \in 1..Len(unread') : (n \in 1..Len(unread) /\ unread'[n] = unread[n]) \/ unread'[n] = f
  BY <1>2, <1>4
<1>6. WindowOK'
  BY <1>1 DEF WindowOK
<1>7. Outstanding'
  <2>1. Asked(open \ {r}, Append(unread, f), held, next_request_id, text)
    BY <1>1, <1>4, AskedEnds DEF Outstanding
  <2> QED BY <2>1 DEF Outstanding
<1>8. StateIsTrue'
  BY <1>1 DEF StateIsTrue, IsConnected
<1>9. ControlsAreTrue'
  BY <1>1 DEF ControlsAreTrue, IsConnected
<1>10. ResultsMatchText'
  BY <1>1 DEF ResultsMatchText
<1>11. TransferInv'
  BY <1>1, <1>4, <1>5 DEF TransferInv
<1>12. Alone'
  BY DEF Alone, IsConnected
<1> QED BY <1>6, <1>7, <1>8, <1>9, <1>10, <1>11, <1>12 DEF Parts

\* A scan is cancelled, which has no answer of its own.
LEMMA CancelledKeeps ==
  ASSUME Parts, UNCHANGED <<connection_state, auto_start_attempted, retrying, deadline, held, scanning, tab, pending,
                   sending, choosing, text, debouncing, rows>>,
         NEW r \in open, r.kind = "Cancel",
         socket = "Connected", open' = open \ {r}, unread' = unread,
         UNCHANGED <<socket, next_request_id, service, available>>
  PROVE  Parts'
<1>1. WindowOK /\ Outstanding /\ StateIsTrue /\ ControlsAreTrue /\ ResultsMatchText /\ TransferInv /\ Alone
  BY DEF Parts
<1>2. held \in [HeldKinds -> Nat] /\ unread \in Seq(Frames) /\ next_request_id \in Nat \ {0}
  BY <1>1 DEF Outstanding, Asked
<1>3. r \in Requests
  BY <1>1 DEF Outstanding, Asked
<1>4. WindowOK'
  BY <1>1 DEF WindowOK
<1>5. Outstanding'
  <2> DEFINE f == Reply(r, "Last", FALSE, NoData)
  <2>1. f \in Frames /\ f.kind = r.kind /\ f.id = r.id /\ f.part = "Last" /\ ~f.ok
    BY <1>3 DEF Reply, Frames, Requests, Data
  <2> HIDE DEF f
  <2>2. Asked(open \ {r}, unread, held, next_request_id, text)
    BY <1>1, <2>1, AskedEnds DEF Outstanding
  <2> QED BY <2>2 DEF Outstanding
<1>6. StateIsTrue'
  BY <1>1 DEF StateIsTrue, IsConnected
<1>7. ControlsAreTrue'
  BY <1>1 DEF ControlsAreTrue, IsConnected
<1>8. ResultsMatchText'
  BY <1>1 DEF ResultsMatchText
<1>9. TransferInv'
  BY <1>1 DEF TransferInv
<1>10. Alone'
  BY DEF Alone, IsConnected
<1> QED BY <1>4, <1>5, <1>6, <1>7, <1>8, <1>9, <1>10 DEF Parts

\* The service comes up or dies, or the connection breaks.
LEMMA FailureKeeps ==
  ASSUME Parts, UNCHANGED <<connection_state, auto_start_attempted, retrying, deadline, held, scanning, tab, pending,
                   sending, choosing, text, debouncing, rows>>,
         ServiceComesUp \/ ServiceDies \/ ConnectionBreaks
  PROVE  Parts'
<1>1. WindowOK /\ Outstanding /\ StateIsTrue /\ ControlsAreTrue /\ ResultsMatchText /\ TransferInv /\ Alone
  BY DEF Parts
<1>2. held \in [HeldKinds -> Nat] /\ unread \in Seq(Frames) /\ next_request_id \in Nat \ {0}
  BY <1>1 DEF Outstanding, Asked
<1>3. /\ UNCHANGED <<next_request_id, open, unread, available>>
      /\ service' \in {"down", "starting", "up"}
      /\ socket' = socket \/ (socket = "Connected" /\ socket' = "Broken")
  BY <1>1 DEF ServiceComesUp, ServiceDies, ConnectionBreaks, WindowOK
<1>4. WindowOK'
  BY <1>1, <1>3 DEF WindowOK
<1>5. Outstanding'
  BY <1>1, <1>3 DEF Outstanding
<1>6. StateIsTrue'
  BY <1>1, <1>3 DEF StateIsTrue, IsConnected
<1>7. ControlsAreTrue'
  BY <1>1, <1>3 DEF ControlsAreTrue, IsConnected
<1>8. ResultsMatchText'
  BY <1>1 DEF ResultsMatchText
<1>9. TransferInv'
  BY <1>1, <1>3 DEF TransferInv
<1>10. Alone'
  BY <1>1, <1>3 DEF Alone, IsConnected
<1> QED BY <1>4, <1>5, <1>6, <1>7, <1>8, <1>9, <1>10 DEF Parts

-----------------------------------------------------------------------------
\* The theorems.

LEMMA InitEstablishes == Init => Parts
<1> SUFFICES ASSUME Init
             PROVE  Parts
  OBVIOUS
<1>1. WindowOK /\ StateIsTrue /\ ResultsMatchText /\ Alone
  BY DEF Init, ClientInit, WindowOK, Deadlines, StateIsTrue, ResultsMatchText, Alone, IsConnected
<1>2. open = {} /\ unread = << >> /\ held = NoneHeld /\ next_request_id \in Nat \ {0}
  BY DEF Init, ClientInit
<1>3. Outstanding
  BY <1>2, NothingAsked DEF Outstanding
<1>4. \A k \in HeldKinds : held[k] = 0
  BY <1>2 DEF NoneHeld
<1>5. ControlsAreTrue
  BY <1>4 DEF Init, ControlsAreTrue, HeldKinds, Kinds, TransferKinds
<1>6. TransferInv
  BY <1>2, <1>4 DEF Init, TransferInv, HeldKinds, Kinds, TransferKinds
<1> QED BY <1>1, <1>3, <1>5, <1>6 DEF Parts

LEMMA ServiceKeeps ==
  ASSUME Parts, Service
  PROVE  Parts'
<1>1. UNCHANGED <<connection_state, auto_start_attempted, retrying, deadline, held, scanning, tab, pending,
                  sending, choosing, text, debouncing, rows>>
  BY DEF Service, retryVars, transferVars, searchVars
<1>2. ASSUME NEW r \in open, ServiceAnswers(r)
      PROVE  Parts'
  <2>1. CASE \E f \in LastReplies(r) : unread' = Append(unread, f)
    BY <1>1, <1>2, <2>1, AnswerKeeps DEF ServiceAnswers
  <2>2. CASE r.kind = "Cancel" /\ UNCHANGED unread
    BY <1>1, <1>2, <2>2, CancelledKeeps DEF ServiceAnswers
  <2> QED BY <1>2, <2>1, <2>2 DEF ServiceAnswers
<1>3. ASSUME NEW r \in open, ServiceAccepts(r)
      PROVE  Parts'
  BY <1>1, <1>3, AcceptKeeps
<1>4. ASSUME NEW r \in open, ServiceReportsProgress(r)
      PROVE  Parts'
  BY <1>1, <1>4, ProgressKeeps
<1>5. ASSUME ServiceComesUp \/ ServiceDies \/ ConnectionBreaks
      PROVE  Parts'
  BY <1>1, <1>5, FailureKeeps
<1> QED BY <1>2, <1>3, <1>4, <1>5 DEF Service

LEMMA FrameKeeps ==
  ASSUME Parts, HandleFrame
  PROVE  Parts'
<1>1. ASSUME ApplySendFile(Head(unread))
      PROVE  Parts'
  BY <1>1, SendAcceptedKeeps, SendResultKeeps
<1>2. ASSUME Matches(Head(unread))
      PROVE  \/ ApplySearchResponse(Head(unread))
             \/ ApplyScanProgress(Head(unread)) \/ ApplyScanEnd(Head(unread))
             \/ ApplyTransferResponse(Head(unread)) \/ ApplyTransferStatus(Head(unread))
             \/ ApplySendFile(Head(unread))
  BY <1>2 DEF HandleFrame
<1> QED BY <1>1, <1>2, SearchResponseKeeps, ScanProgressKeeps, ScanEndKeeps, TransferResponseKeeps,
           StatusKeeps, StrayFrameKeeps

LEMMA StepKeeps ==
  ASSUME Parts, [Next]_desktopVars
  PROVE  Parts'
<1>1. CASE User
  <2>1. ASSUME Click, ~choosing
        PROVE  Parts'
    <3>1. ASSUME ClickScan
          PROVE  Parts'
      BY <3>1, ScanKeeps, NoScanKeeps
    <3> QED BY <2>1, <3>1, TextKeeps, RetryKeeps, CancelKeeps, TransferKeeps, ChooseKeeps, SendKeeps DEF Click
  <2>2. ASSUME DirectoryChosen
        PROVE  Parts'
    BY <2>2, DirectoryIsSentKeeps, NoDirectoryKeeps
  <2> QED BY <1>1, <2>1, <2>2 DEF User
<1>2. CASE DebounceFires
  BY <1>2, SearchIsSentKeeps, SearchIsNotSentKeeps
<1>3. CASE RetryTimerFires \/ DeadlineComes \/ MidnightComes
  BY <1>3, RetryTimerKeeps, ClockKeeps
<1>4. CASE HandleConnected \/ HandleConnectionError \/ HandleDisconnected
  BY <1>4, ConnectedKeeps, ConnectionErrorKeeps, DisconnectedKeeps
<1>5. CASE HandleFrame
  BY <1>5, FrameKeeps
<1>6. CASE Service
  BY <1>6, ServiceKeeps
<1>7. CASE UNCHANGED desktopVars
    BY <1>7 DEF desktopVars, clientVars, retryVars, transferVars, searchVars, Parts, WindowOK,
     Outstanding,
              StateIsTrue, ControlsAreTrue, ResultsMatchText, TransferInv, Alone, IsConnected
<1> QED BY <1>1, <1>2, <1>3, <1>4, <1>5, <1>6, <1>7 DEF Next

\* The invariant of the window, which no click, timer, signal or frame breaks, and
\* no crash of the service.
THEOREM DesktopInvariant == Spec => []IInv
<1>1. Spec => []Parts
  BY InitEstablishes, StepKeeps, PTL DEF Spec
<1> QED BY <1>1, IInvIsItsParts, PTL

\* The window waits for no reply that does not come, and drops none it has asked for:
\* with any number of requests, across any number of connections.
THEOREM WindowAwaitsReplies == Spec => []RepliesAreAwaited
<1>1. IInv => RepliesAreAwaited
  BY DEF IInv
<1> QED BY <1>1, DesktopInvariant, PTL

\* The controls show what is under way.
THEOREM WindowShowsWhatIs == Spec => []ControlsAreTrue
<1>1. IInv => ControlsAreTrue
  BY DEF IInv
<1> QED BY <1>1, DesktopInvariant, PTL

\* The table answers the text above it.
THEOREM TableAnswersTheText == Spec => []ResultsMatchText
<1>1. IInv => ResultsMatchText
  BY DEF IInv
<1> QED BY <1>1, DesktopInvariant, PTL
=============================================================================

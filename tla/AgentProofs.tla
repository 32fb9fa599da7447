---------------------------- MODULE AgentProofs -----------------------------
(***************************************************************************)
(* Proofs about the agent's dispatch, for any number of connections, any   *)
(* callers and any requests, served in any interleaving.                   *)
(***************************************************************************)
EXTENDS Agent, FiniteSetTheorems, SequenceTheorems, TLAPS

-----------------------------------------------------------------------------
(* The course of a connection.                                             *)

Effects == {"Changed", "Refused", "Observed"}
Replies == {"none", "Ok", "Error", "Stopped"}

\* The steps of the handlers that take several.
DecoyPlaces == {"look", "again", "write", "watch", "unlink"}
CachePlaces == {"root", "list", "empty", "dir"}
HandlerPlaces == {"handle", "remove"} \cup DecoyPlaces \cup CachePlaces
Places == {"idle", "record", "reply"} \cup HandlerPlaces

\* A connection's variables have their types.
ShapeInv ==
    /\ pc \in [Conns -> Places]
    /\ caller \in [Conns -> Clients \cup {Nobody}]
    /\ req \in [Conns -> Requests \cup {NoRequest}]
    /\ due \in [Conns -> Seq(Effects)]
    /\ wrote \in [Conns -> Seq(Effects)]
    /\ lost \in [Conns -> BOOLEAN]
    /\ did \in [Conns -> BOOLEAN]
    /\ ans \in [Conns -> Replies]
    /\ served \in 0..MaxServed

\* Everything in the log for this request, or owed to it.
Owed(c) == Elements(due[c]) \cup Elements(wrote[c])

\* What a handler has done and what it owes the log agree.
AuditInv ==
    \A c \in Conns :
        /\ pc[c] = "record" <=> due[c] # <<>>
        /\ pc[c] \notin {"record", "reply"} => wrote[c] = <<>> /\ ~lost[c]
        /\ pc[c] \in {"idle", "handle", "remove"} => ~did[c]
        /\ pc[c] \in {"record", "reply"} /\ req[c].kind \notin Partly =>
              /\ did[c] /\ ~lost[c] => "Changed" \in Owed(c)
              /\ "Refused" \in Owed(c) => ~did[c]

\* Which step belongs to which request.
Fits(where, request) ==
    /\ where = "remove" => request.kind = "UnblockProgram"
    /\ where \in DecoyPlaces => request.kind = "SetCanaries"
    /\ where \in CachePlaces => request.kind = "ClearCache" /\ request.id \in DOMAIN Catalogue

\* The requests that need an administrator whatever they name.
ForTheMachine(request) == NeedsAdministrator(request, FALSE)

\* A request that is being handled has a caller who may ask for it.
RightsInv ==
    \A c \in Conns :
        /\ pc[c] \in HandlerPlaces =>
              /\ req[c] \in Requests /\ Fits(pc[c], req[c])
              /\ caller[c].trusted
              /\ ForTheMachine(req[c]) => caller[c].elevated
        /\ req[c] # NoRequest => caller[c].user \in Users
        /\ pc[c] \in HandlerPlaces => caller[c].user \in Users
        /\ pc[c] = "idle" => req[c] = NoRequest

ConnInv == ShapeInv /\ AuditInv /\ RightsInv

\* What a sequence holds after its first element is taken, or one is added.
LEMMA ElementsFacts ==
  ASSUME NEW S, NEW s \in Seq(S)
  PROVE  /\ Elements(s) \subseteq S
         /\ s # <<>> => /\ Head(s) \in Elements(s) /\ Head(s) \in S
                        /\ Tail(s) \in Seq(S)
                        /\ Elements(s) = {Head(s)} \cup Elements(Tail(s))
                        /\ Len(s) = 1 <=> Tail(s) = <<>>
         /\ \A x : Elements(Append(s, x)) = Elements(s) \cup {x}
         /\ Elements(<<>>) = {}
<1>1. Elements(s) \subseteq S
  BY DEF Elements
<1>2. ASSUME s # <<>>
      PROVE  /\ Head(s) \in Elements(s) /\ Head(s) \in S /\ Tail(s) \in Seq(S)
             /\ Len(s) = 1 <=> Tail(s) = <<>>
  <2>1. Len(s) \in Nat \ {0} /\ 1 \in DOMAIN s /\ Head(s) = s[1] /\ s[1] \in S
    BY <1>2
  <2>2. Head(s) \in Elements(s) /\ Head(s) \in S
    BY <2>1 DEF Elements
  <2>3. Tail(s) \in Seq(S) /\ Len(Tail(s)) = Len(s) - 1
    BY <1>2
  <2>4. Tail(s) = <<>> <=> Len(Tail(s)) = 0
    BY <2>3, EmptySeq
  <2>5. Len(s) - 1 = 0 <=> Len(s) = 1
    BY <2>1
  <2> QED BY <2>2, <2>3, <2>4, <2>5
<1>3. ASSUME s # <<>> PROVE Elements(s) = {Head(s)} \cup Elements(Tail(s))
  <2>1. ASSUME NEW x \in Elements(s) PROVE x \in {Head(s)} \cup Elements(Tail(s))
    <3>1. PICK i \in DOMAIN s : x = s[i]
      BY <2>1 DEF Elements
    <3>2. CASE i = 1
      BY <1>3, <3>1, <3>2
    <3>3. CASE i # 1
      <4>1. i - 1 \in DOMAIN Tail(s) /\ Tail(s)[i - 1] = x
        BY <1>3, <3>1, <3>3
      <4> QED BY <4>1 DEF Elements
    <3> QED BY <3>2, <3>3
  <2>2. ASSUME NEW x \in Elements(Tail(s)) PROVE x \in Elements(s)
    <3>1. PICK i \in DOMAIN Tail(s) : x = Tail(s)[i]
      BY <2>2 DEF Elements
    <3>2. i + 1 \in DOMAIN s /\ s[i + 1] = x
      BY <1>3, <3>1
    <3> QED BY <3>2 DEF Elements
  <2> QED BY <1>2, <1>3, <2>1, <2>2
<1>4. ASSUME NEW x PROVE Elements(Append(s, x)) = Elements(s) \cup {x}
  <2>1. /\ DOMAIN Append(s, x) = DOMAIN s \cup {Len(s) + 1}
        /\ Append(s, x)[Len(s) + 1] = x
        /\ \A i \in DOMAIN s : Append(s, x)[i] = s[i]
    OBVIOUS
  <2> QED BY <2>1 DEF Elements
<1>5. Elements(<<>>) = {}
  BY DEF Elements
<1> QED BY <1>1, <1>2, <1>3, <1>4, <1>5

\* What a handler's last step does to its connection: the entries it owes say
\* what it did.
LEMMA FinishConn ==
  ASSUME ConnInv, NEW c \in Conns, pc[c] \in HandlerPlaces,
         NEW changed \in BOOLEAN, NEW entries \in Seq(Effects), NEW answer \in Replies,
         Finish(c, changed, entries, answer),
         req[c].kind \in Partly \/ (did[c] \/ changed => "Changed" \in Elements(entries)),
         req[c].kind \in Partly \/ ("Refused" \in Elements(entries) => ~did[c] /\ ~changed)
  PROVE  ConnInv'
<1>0. ShapeInv /\ AuditInv /\ RightsInv
  BY DEF ConnInv
<1> DEFINE where == IF entries = <<>> THEN "reply" ELSE "record"
<1>1. /\ pc' = [pc EXCEPT ![c] = where] /\ due' = [due EXCEPT ![c] = entries]
      /\ did' = [did EXCEPT ![c] = did[c] \/ changed] /\ ans' = [ans EXCEPT ![c] = answer]
      /\ UNCHANGED <<caller, req, wrote, lost, served>>
  BY Zenon DEF Finish
<1>2. where \in {"record", "reply"} /\ (where = "record" <=> entries # <<>>)
  OBVIOUS
<1> HIDE DEF where
<1>3. ShapeInv'
  <2>1. did' \in [Conns -> BOOLEAN]
    BY <1>0, <1>1 DEF ShapeInv
  <2>2. pc' \in [Conns -> Places] /\ due' \in [Conns -> Seq(Effects)] /\ ans' \in [Conns -> Replies]
    BY <1>0, <1>1, <1>2 DEF ShapeInv, Places
  <2> QED BY <1>0, <1>1, <2>1, <2>2, Zenon DEF ShapeInv
<1>4. /\ pc'[c] = where /\ due'[c] = entries /\ (did'[c] <=> did[c] \/ changed)
      /\ \A d \in Conns \ {c} : pc'[d] = pc[d] /\ due'[d] = due[d] /\ did'[d] = did[d]
  BY <1>0, <1>1 DEF ShapeInv
<1>5. wrote[c] = <<>> /\ ~lost[c]
  BY <1>0 DEF AuditInv, HandlerPlaces, DecoyPlaces, CachePlaces
<1>6. AuditInv'
  <2> SUFFICES ASSUME NEW d \in Conns
               PROVE  /\ pc'[d] = "record" <=> due'[d] # <<>>
                      /\ pc'[d] \notin {"record", "reply"} => wrote[d] = <<>> /\ ~lost[d]
                      /\ pc'[d] \in {"idle", "handle", "remove"} => ~did'[d]
                      /\ pc'[d] \in {"record", "reply"} /\ req[d].kind \notin Partly =>
                            /\ did'[d] /\ ~lost[d] => "Changed" \in Owed(d)'
                            /\ "Refused" \in Owed(d)' => ~did'[d]
    BY <1>1, Zenon DEF AuditInv
  <2>1. CASE d # c
    <3>1. Owed(d)' = Owed(d)
      BY <1>1, <1>4, <2>1 DEF Owed, Elements
    <3> QED BY <1>0, <1>4, <2>1, <3>1 DEF AuditInv
  <2>2. CASE d = c
    <3>1. Owed(c)' = Elements(entries)
      BY <1>1, <1>4, <1>5 DEF Owed, Elements
    <3> QED BY <1>2, <1>4, <1>5, <2>2, <3>1
  <2> QED BY <2>1, <2>2
<1>7. RightsInv'
  <2>2. \A d \in Conns : pc'[d] = pc[d] \/ pc'[d] \notin HandlerPlaces \cup {"idle"}
    BY <1>2, <1>4 DEF HandlerPlaces, DecoyPlaces, CachePlaces
  <2> QED BY <1>0, <1>1, <2>2 DEF RightsInv
<1> QED BY <1>3, <1>6, <1>7 DEF ConnInv

\* What a handler's other steps do to it.
LEMMA OnwardConn ==
  ASSUME ConnInv, NEW c \in Conns, pc[c] \in HandlerPlaces,
         NEW changed \in BOOLEAN, NEW where \in HandlerPlaces \ {"handle"},
         Onward(c, changed, where), Fits(where, req[c]),
         where = "remove" => ~did[c] /\ ~changed
  PROVE  ConnInv'
<1>0. ShapeInv /\ AuditInv /\ RightsInv
  BY DEF ConnInv
<1>1. /\ pc' = [pc EXCEPT ![c] = where] /\ did' = [did EXCEPT ![c] = did[c] \/ changed]
      /\ UNCHANGED <<caller, req, due, wrote, lost, ans, served>>
  BY Zenon DEF Onward
<1>2. where \notin {"idle", "handle", "record", "reply"}
      /\ pc[c] \notin {"idle", "record", "reply"} /\ where \in HandlerPlaces /\ where \in Places
  BY DEF HandlerPlaces, DecoyPlaces, CachePlaces, Places
<1>3. ShapeInv'
  <2>1. did' \in [Conns -> BOOLEAN]
    BY <1>0, <1>1 DEF ShapeInv
  <2>2. pc' \in [Conns -> Places]
    BY <1>0, <1>1, <1>2 DEF ShapeInv
  <2> QED BY <1>0, <1>1, <2>1, <2>2, Zenon DEF ShapeInv
<1>4. /\ pc'[c] = where /\ (did'[c] <=> did[c] \/ changed)
      /\ \A d \in Conns \ {c} : pc'[d] = pc[d] /\ did'[d] = did[d]
  BY <1>0, <1>1 DEF ShapeInv
<1>5. wrote[c] = <<>> /\ ~lost[c] /\ due[c] = <<>>
  BY <1>0, <1>2 DEF AuditInv
<1>6. AuditInv'
  <2>1. \A d \in Conns : Owed(d)' = Owed(d)
    BY <1>1 DEF Owed, Elements
  <2>2. ASSUME NEW d \in Conns
        PROVE  /\ pc'[d] = "record" <=> due[d] # <<>>
               /\ pc'[d] \notin {"record", "reply"} => wrote[d] = <<>> /\ ~lost[d]
               /\ pc'[d] \in {"idle", "handle", "remove"} => ~did'[d]
               /\ pc'[d] \in {"record", "reply"} /\ req[d].kind \notin Partly =>
                     /\ did'[d] /\ ~lost[d] => "Changed" \in Owed(d)
                     /\ "Refused" \in Owed(d) => ~did'[d]
    <3>1. CASE d # c
      BY <1>0, <1>4, <3>1 DEF AuditInv
    <3>2. CASE d = c
      BY <1>2, <1>4, <1>5, <3>2
    <3> QED BY <3>1, <3>2
  <2> QED BY <1>1, <2>1, <2>2, Zenon DEF AuditInv
<1>7. RightsInv'
  <2>2. \A d \in Conns \ {c} : pc'[d] = pc[d]
    BY <1>4
  <2> QED BY <1>0, <1>1, <1>2, <1>4, <2>2 DEF RightsInv
<1> QED BY <1>3, <1>6, <1>7 DEF ConnInv

\* An entry is written, or lost, and the log knows of it.
LEMMA RecordConn ==
  ASSUME ConnInv, NEW c \in Conns, RecordEntry(c)
  PROVE  ConnInv'
<1>0. ShapeInv /\ AuditInv /\ RightsInv /\ due[c] \in Seq(Effects) /\ wrote[c] \in Seq(Effects)
  BY DEF ConnInv, ShapeInv
<1>1. pc[c] = "record" /\ due[c] # <<>>
  BY <1>0 DEF RecordEntry, AuditInv
<1>2. PICK written \in BOOLEAN :
         /\ wrote' = IF written THEN [wrote EXCEPT ![c] = Append(wrote[c], Head(due[c]))] ELSE wrote
         /\ lost' = [lost EXCEPT ![c] = lost[c] \/ ~written]
  BY Zenon DEF RecordEntry
<1> DEFINE where == IF Len(due[c]) = 1 THEN "reply" ELSE "record"
<1>3. /\ due' = [due EXCEPT ![c] = Tail(due[c])] /\ pc' = [pc EXCEPT ![c] = where]
      /\ UNCHANGED <<caller, req, did, ans, served>>
  BY Zenon DEF RecordEntry
<1>4. /\ Head(due[c]) \in Effects /\ Tail(due[c]) \in Seq(Effects)
      /\ Elements(due[c]) = {Head(due[c])} \cup Elements(Tail(due[c]))
      /\ Elements(Append(wrote[c], Head(due[c]))) = Elements(wrote[c]) \cup {Head(due[c])}
      /\ (Len(due[c]) = 1 <=> Tail(due[c]) = <<>>)
      /\ Append(wrote[c], Head(due[c])) \in Seq(Effects)
  BY <1>0, <1>1, ElementsFacts
<1>5. where \in {"record", "reply"} /\ (where = "record" <=> Tail(due[c]) # <<>>)
  BY <1>4
<1> HIDE DEF where
<1>6. ShapeInv'
  <2>1. lost' \in [Conns -> BOOLEAN]
    BY <1>0, <1>2 DEF ShapeInv
  <2>2. wrote' \in [Conns -> Seq(Effects)]
    BY <1>0, <1>2, <1>4 DEF ShapeInv
  <2>3. pc' \in [Conns -> Places] /\ due' \in [Conns -> Seq(Effects)]
    BY <1>0, <1>3, <1>4, <1>5 DEF ShapeInv, Places
  <2> QED BY <1>0, <1>3, <2>1, <2>2, <2>3, Zenon DEF ShapeInv
<1>7. /\ pc'[c] = where /\ due'[c] = Tail(due[c]) /\ (lost'[c] <=> lost[c] \/ ~written)
      /\ wrote'[c] = IF written THEN Append(wrote[c], Head(due[c])) ELSE wrote[c]
      /\ \A d \in Conns \ {c} : /\ pc'[d] = pc[d] /\ due'[d] = due[d] /\ lost'[d] = lost[d]
                                /\ wrote'[d] = wrote[d]
  BY <1>0, <1>2, <1>3 DEF ShapeInv
<1>8. AuditInv'
  <2> SUFFICES ASSUME NEW d \in Conns
               PROVE  /\ pc'[d] = "record" <=> due'[d] # <<>>
                      /\ pc'[d] \notin {"record", "reply"} => wrote'[d] = <<>> /\ ~lost'[d]
                      /\ pc'[d] \in {"idle", "handle", "remove"} => ~did[d]
                      /\ pc'[d] \in {"record", "reply"} /\ req[d].kind \notin Partly =>
                            /\ did[d] /\ ~lost'[d] => "Changed" \in Owed(d)'
                            /\ "Refused" \in Owed(d)' => ~did[d]
    BY <1>3, Zenon DEF AuditInv
  <2>1. CASE d # c
    <3>1. Owed(d)' = Owed(d)
      BY <1>7, <2>1 DEF Owed, Elements
    <3> QED BY <1>0, <1>7, <2>1, <3>1 DEF AuditInv
  <2>2. CASE d = c
    <3>1. Owed(c)' = Elements(Tail(due[c])) \cup Elements(wrote'[c])
      BY <1>7 DEF Owed, Elements
    <3>2. Owed(c)' \subseteq Owed(c) /\ (written => Owed(c)' = Owed(c))
      BY <1>4, <1>7, <3>1 DEF Owed
    <3>3. req[c].kind \notin Partly =>
             /\ did[c] /\ ~lost[c] => "Changed" \in Owed(c)
             /\ "Refused" \in Owed(c) => ~did[c]
      BY <1>0, <1>1 DEF AuditInv
    <3>4. ~lost'[c] => ~lost[c] /\ written
      BY <1>7
    <3> QED BY <1>5, <1>7, <2>2, <3>2, <3>3, <3>4
  <2> QED BY <2>1, <2>2
<1>9. RightsInv'
  <2>2. \A d \in Conns : pc'[d] = pc[d] \/ pc'[d] \notin HandlerPlaces \cup {"idle"}
    BY <1>5, <1>7 DEF HandlerPlaces, DecoyPlaces, CachePlaces
  <2> QED BY <1>0, <1>3, <2>2 DEF RightsInv
<1> QED BY <1>6, <1>8, <1>9 DEF ConnInv

\* A connection that is answered is as it was before anybody called.
LEMMA ReplyConn ==
  ASSUME ConnInv, NEW c \in Conns, ReplyDone(c)
  PROVE  ConnInv'
<1>0. ShapeInv /\ AuditInv /\ RightsInv
  BY DEF ConnInv
<1>1. ShapeInv'
  BY <1>0, EmptySeq DEF ReplyDone, ShapeInv, Places, Replies
<1>2. /\ pc[c] = "reply" /\ due' = due
      /\ pc'[c] = "idle" /\ req'[c] = NoRequest /\ wrote'[c] = <<>> /\ ~lost'[c] /\ ~did'[c]
      /\ \A d \in Conns \ {c} : /\ pc'[d] = pc[d] /\ req'[d] = req[d] /\ wrote'[d] = wrote[d]
                                /\ lost'[d] = lost[d] /\ did'[d] = did[d] /\ caller'[d] = caller[d]
  BY <1>0 DEF ReplyDone, ShapeInv
<1>3. AuditInv'
  <2> SUFFICES ASSUME NEW d \in Conns
               PROVE  /\ pc'[d] = "record" <=> due[d] # <<>>
                      /\ pc'[d] \notin {"record", "reply"} => wrote'[d] = <<>> /\ ~lost'[d]
                      /\ pc'[d] \in {"idle", "handle", "remove"} => ~did'[d]
                      /\ pc'[d] \in {"record", "reply"} /\ req'[d].kind \notin Partly =>
                            /\ did'[d] /\ ~lost'[d] => "Changed" \in Owed(d)'
                            /\ "Refused" \in Owed(d)' => ~did'[d]
    BY <1>2, Zenon DEF AuditInv
  <2>1. CASE d # c
    <3>1. Owed(d)' = Owed(d)
      BY <1>2, <2>1 DEF Owed, Elements
    <3> QED BY <1>0, <1>2, <2>1, <3>1 DEF AuditInv
  <2>2. CASE d = c
    BY <1>0, <1>2, <2>2 DEF AuditInv
  <2> QED BY <2>1, <2>2
<1>4. RightsInv'
  <2>2. "idle" \notin HandlerPlaces
    BY DEF HandlerPlaces, DecoyPlaces, CachePlaces
  <2> QED BY <1>0, <1>2, <2>2 DEF RightsInv
<1> QED BY <1>1, <1>3, <1>4 DEF ConnInv

\* Only a trusted caller with a profile, and the rights the request needs,
\* reaches a handler.
LEMMA AcceptConn ==
  ASSUME ConnInv, NEW c \in Conns, NEW who \in Clients, NEW request \in Requests,
         Accept(c, who, request)
  PROVE  ConnInv'
<1> DEFINE wide == request.kind = "ClearCache" /\ IsMachineWide(request.id, who.user)
           refused == /\ pc' = [pc EXCEPT ![c] = "record"] /\ ans' = [ans EXCEPT ![c] = "Error"]
                      /\ due' = [due EXCEPT ![c] = <<"Refused">>]
           ended == /\ pc' = [pc EXCEPT ![c] = "reply"] /\ ans' = [ans EXCEPT ![c] = "Error"]
                    /\ due' = due
           handled == pc' = [pc EXCEPT ![c] = "handle"] /\ due' = due /\ ans' = ans
<1>0. ShapeInv /\ AuditInv /\ RightsInv
  BY DEF ConnInv
<1>1. /\ pc[c] = "idle" /\ served < MaxServed /\ served' = served + 1
      /\ caller' = [caller EXCEPT ![c] = who] /\ UNCHANGED <<wrote, lost, did>>
      /\ \/ refused /\ req' = req
         \/ ended /\ req' = req
         \/ /\ who.trusted /\ who.user # "nobody" /\ req' = [req EXCEPT ![c] = request]
            /\ \/ refused
               \/ handled /\ (NeedsAdministrator(request, wide) => who.elevated)
  BY DEF Accept, Connect, IsTrustedClient
<1>2. wrote[c] = <<>> /\ ~lost[c] /\ ~did[c] /\ due[c] = <<>> /\ req[c] = NoRequest
  BY <1>0, <1>1 DEF AuditInv, RightsInv
<1>3. ShapeInv'
  <2>1. <<"Refused">> \in Seq(Effects)
    BY DEF Effects
  <2>2. served' \in 0..MaxServed
    BY <1>0, <1>1, ConnAssumption DEF ShapeInv
  <2>3. caller' \in [Conns -> Clients \cup {Nobody}] /\ req' \in [Conns -> Requests \cup {NoRequest}]
    BY <1>0, <1>1 DEF ShapeInv
  <2>4. /\ pc' \in [Conns -> Places] /\ due' \in [Conns -> Seq(Effects)]
        /\ ans' \in [Conns -> Replies]
    <3>1. {"record", "reply", "handle"} \subseteq Places /\ "Error" \in Replies
      BY DEF Places, HandlerPlaces, Replies
    <3>2. ASSUME refused \/ ended \/ handled
          PROVE  /\ pc' \in [Conns -> Places] /\ due' \in [Conns -> Seq(Effects)]
                 /\ ans' \in [Conns -> Replies]
      <4>1. CASE refused
        BY <1>0, <2>1, <3>1, <4>1 DEF ShapeInv
      <4>2. CASE ended
        BY <1>0, <2>1, <3>1, <4>2 DEF ShapeInv
      <4>3. CASE handled
        BY <1>0, <2>1, <3>1, <4>3 DEF ShapeInv
      <4> QED BY <3>2, <4>1, <4>2, <4>3
    <3> HIDE DEF refused, ended, handled
    <3> QED BY <1>1, <3>2
  <2> QED BY <1>0, <1>1, <2>2, <2>3, <2>4, Zenon DEF ShapeInv
<1>4. /\ \A d \in Conns \ {c} : pc'[d] = pc[d] /\ due'[d] = due[d] /\ req'[d] = req[d] /\ caller'[d] = caller[d]
      /\ caller'[c] = who
      /\ \/ pc'[c] = "record" /\ due'[c] = <<"Refused">>
         \/ pc'[c] \in {"reply", "handle"} /\ due'[c] = <<>>
      /\ req'[c] \in {request, NoRequest}
      /\ req'[c] # req[c] => who.user # "nobody"
      /\ pc'[c] = "handle" => /\ req'[c] = request /\ who.trusted /\ who.user # "nobody"
                              /\ NeedsAdministrator(request, wide) => who.elevated
  <2> HIDE DEF wide
  <2> QED BY <1>0, <1>1, <1>2 DEF ShapeInv
<1>5. AuditInv'
  <2> SUFFICES ASSUME NEW d \in Conns
               PROVE  /\ pc'[d] = "record" <=> due'[d] # <<>>
                      /\ pc'[d] \notin {"record", "reply"} => wrote[d] = <<>> /\ ~lost[d]
                      /\ pc'[d] \in {"idle", "handle", "remove"} => ~did[d]
                      /\ pc'[d] \in {"record", "reply"} /\ req'[d].kind \notin Partly =>
                            /\ did[d] /\ ~lost[d] => "Changed" \in Owed(d)'
                            /\ "Refused" \in Owed(d)' => ~did[d]
    BY <1>1, Zenon DEF AuditInv
  <2>1. CASE d # c
    <3>1. Owed(d)' = Owed(d)
      BY <1>1, <1>4, <2>1 DEF Owed, Elements
    <3> QED BY <1>0, <1>4, <2>1, <3>1 DEF AuditInv
  <2>2. CASE d = c
    BY <1>2, <1>4, <2>2
  <2> QED BY <2>1, <2>2
<1>6. RightsInv'
  <2>3. /\ pc'[c] \in HandlerPlaces => pc'[c] = "handle"
        /\ pc'[c] # "idle"
        /\ \A r : Fits("handle", r)
    BY <1>4 DEF HandlerPlaces, DecoyPlaces, CachePlaces, Fits
  <2>4. who.user # "nobody" => who.user \in Users
    BY ConnAssumption
  <2>5. ASSUME NEW d \in Conns \ {c}
        PROVE  /\ pc'[d] \in HandlerPlaces =>
                     /\ req'[d] \in Requests /\ Fits(pc'[d], req'[d])
                     /\ caller'[d].trusted
                     /\ ForTheMachine(req'[d]) => caller'[d].elevated
               /\ req'[d] # NoRequest => caller'[d].user \in Users
               /\ pc'[d] \in HandlerPlaces => caller'[d].user \in Users
               /\ pc'[d] = "idle" => req'[d] = NoRequest
    BY <1>0, <1>4 DEF RightsInv
  <2>6. /\ pc'[c] \in HandlerPlaces =>
                     /\ req'[c] \in Requests /\ Fits(pc'[c], req'[c])
                     /\ caller'[c].trusted
                     /\ ForTheMachine(req'[c]) => caller'[c].elevated
        /\ req'[c] # NoRequest => caller'[c].user \in Users
        /\ pc'[c] \in HandlerPlaces => caller'[c].user \in Users
        /\ pc'[c] = "idle" => req'[c] = NoRequest
    <3> HIDE DEF wide
    <3> QED BY <1>2, <1>4, <2>3, <2>4 DEF ForTheMachine, NeedsAdministrator
  <2> QED BY <2>5, <2>6 DEF RightsInv
<1> QED BY <1>3, <1>5, <1>6 DEF ConnInv

-----------------------------------------------------------------------------
(* The handlers that are known by their ends.                              *)

Shaped(end) ==
    end.changed \in BOOLEAN /\ end.entries \in Seq(Effects) /\ end.answer \in Replies

\* The entries say what was done.
Faithful(end) ==
    /\ Shaped(end)
    /\ end.changed => "Changed" \in Elements(end.entries)
    /\ "Refused" \in Elements(end.entries) => ~end.changed

\* One entry, or none, and what it says.
LEMMA OneEntry ==
  /\ \A e : Elements(<<e>>) = {e}
  /\ Elements(<<>>) = {}
  /\ \A e, f : Elements(<<e, f>>) = {e, f}
  /\ \A e, f, g : Elements(<<e, f, g>>) = {e, f, g}
  /\ \A e \in Effects : <<e>> \in Seq(Effects) /\ \A f \in Effects : <<e, f>> \in Seq(Effects)
  /\ <<>> \in Seq(Effects)
<1>1. \A e : Elements(<<e>>) = {e}
  BY DEF Elements
<1>2. Elements(<<>>) = {}
  BY DEF Elements
<1>3. ASSUME NEW e, NEW f PROVE Elements(<<e, f>>) = {e, f}
  <2>1. DOMAIN <<e, f>> = {1, 2} /\ <<e, f>>[1] = e /\ <<e, f>>[2] = f
    OBVIOUS
  <2> QED BY <2>1 DEF Elements
<1>4. ASSUME NEW e, NEW f, NEW g PROVE Elements(<<e, f, g>>) = {e, f, g}
  <2>1. DOMAIN <<e, f, g>> = {1, 2, 3} /\ <<e, f, g>>[1] = e /\ <<e, f, g>>[2] = f
        /\ <<e, f, g>>[3] = g
    OBVIOUS
  <2> QED BY <2>1 DEF Elements
<1>5. \A e \in Effects : <<e>> \in Seq(Effects) /\ \A f \in Effects : <<e, f>> \in Seq(Effects)
  OBVIOUS
<1> QED BY <1>1, <1>2, <1>3, <1>4, <1>5, EmptySeq

\* Two runs of entries, one after the other.
LEMMA ElementsConcat ==
  ASSUME NEW S, NEW s \in Seq(S), NEW t \in Seq(S)
  PROVE  s \o t \in Seq(S) /\ Elements(s \o t) = Elements(s) \cup Elements(t)
<1>1. /\ s \o t \in Seq(S) /\ Len(s \o t) = Len(s) + Len(t)
      /\ \A k \in 1 .. Len(s) + Len(t) :
           (s \o t)[k] = IF k =< Len(s) THEN s[k] ELSE t[k - Len(s)]
  BY ConcatProperties
<1>2. /\ DOMAIN s = 1 .. Len(s) /\ DOMAIN t = 1 .. Len(t) /\ DOMAIN (s \o t) = 1 .. Len(s \o t)
      /\ Len(s) \in Nat /\ Len(t) \in Nat
  BY <1>1
<1>3. ASSUME NEW x \in Elements(s \o t) PROVE x \in Elements(s) \cup Elements(t)
  <2>1. PICK k \in 1 .. Len(s) + Len(t) : x = (s \o t)[k]
    BY <1>1, <1>2, <1>3 DEF Elements
  <2>2. CASE k =< Len(s)
    BY <1>1, <1>2, <2>1, <2>2 DEF Elements
  <2>3. CASE ~(k =< Len(s))
    <3>1. k - Len(s) \in 1 .. Len(t) /\ x = t[k - Len(s)]
      BY <1>1, <1>2, <2>1, <2>3
    <3> QED BY <1>2, <3>1 DEF Elements
  <2> QED BY <2>2, <2>3
<1>4. ASSUME NEW x \in Elements(s) PROVE x \in Elements(s \o t)
  <2>1. PICK k \in 1 .. Len(s) : x = s[k]
    BY <1>2, <1>4 DEF Elements
  <2>2. k \in 1 .. Len(s \o t) /\ (s \o t)[k] = x
    BY <1>1, <1>2, <2>1
  <2> QED BY <1>2, <2>2 DEF Elements
<1>5. ASSUME NEW x \in Elements(t) PROVE x \in Elements(s \o t)
  <2>1. PICK k \in 1 .. Len(t) : x = t[k]
    BY <1>2, <1>5 DEF Elements
  <2>2. k + Len(s) \in 1 .. Len(s \o t) /\ (s \o t)[k + Len(s)] = x
    BY <1>1, <1>2, <2>1
  <2> QED BY <1>2, <2>2 DEF Elements
<1> QED BY <1>1, <1>3, <1>4, <1>5

\* Every end of every handler has the shape of one, and the entries of those
\* that cannot be left half done say what was done.
LEMMA HandlersFaithful ==
  ASSUME NEW k \in DOMAIN Handlers, NEW end \in Handlers[k]
  PROVE  Shaped(end) /\ (k \notin Partly => Faithful(end))
<1>1. /\ Faithful(Answered) /\ Faithful(Failed) /\ Faithful(Examined) /\ Faithful(Done)
      /\ Faithful(RefusedWith("Error"))
      /\ Faithful(Ends(FALSE, <<>>, "Stopped")) /\ Faithful(Ends(FALSE, <<"Observed">>, "Stopped"))
      /\ Faithful(Ends(FALSE, <<"Changed">>, "Ok"))
  BY OneEntry DEF Faithful, Shaped, Answered, Failed, Examined, Done, RefusedWith, Ends, Effects, Replies
<1>2. \A e \in RunCheck : Faithful(e)
  <2> SUFFICES ASSUME NEW found \in {<<>>, <<"Observed">>, <<"Refused">>, <<"Refused", "Observed">>}
               PROVE  Faithful(Ends(FALSE, found \o <<"Observed">>, "Ok"))
    BY DEF RunCheck
  <2>1. found \in Seq(Effects) /\ <<"Observed">> \in Seq(Effects)
    BY OneEntry DEF Effects
  <2>2. found \o <<"Observed">> \in Seq(Effects)
    BY <2>1
  <2> QED BY <2>2 DEF Faithful, Shaped, Ends, Replies
<1>h. ASSUME NEW answer \in {"Ok", "Error"} PROVE \A e \in HalfDone(answer) : Shaped(e)
  <2> SUFFICES ASSUME NEW part \in BOOLEAN PROVE Shaped(Ends(part, <<"Refused">>, answer))
    BY DEF HalfDone
  <2>1. <<"Refused">> \in Seq(Effects) /\ answer \in Replies
    BY OneEntry DEF Effects, Replies
  <2> QED BY <2>1 DEF Shaped, Ends
<1>3. \A e \in DeleteQuarantined : Shaped(e)
  BY <1>1, <1>h DEF DeleteQuarantined, Faithful
<1>4. \A e \in UndoMove \cup RestoreQuarantined : Shaped(e)
  BY <1>1, <1>h DEF UndoMove, RestoreQuarantined, Faithful
<1>5. \A e \in EmptyQuarantine : Shaped(e)
  <2> SUFFICES ASSUME NEW a \in DeleteQuarantined, NEW b \in DeleteQuarantined
               PROVE  Shaped(Ends(a.changed \/ b.changed, a.entries \o b.entries, "Ok"))
    BY <1>1, <1>3 DEF EmptyQuarantine, Faithful
  <2>1. a.entries \o b.entries \in Seq(Effects)
    BY <1>3, ElementsConcat DEF Shaped
  <2> QED BY <2>1 DEF Shaped, Ends, Replies
<1> DEFINE plain == {Answered, Failed, Examined, Done, RefusedWith("Error"),
                     Ends(FALSE, <<>>, "Stopped"), Ends(FALSE, <<"Observed">>, "Stopped"),
                     Ends(FALSE, <<"Changed">>, "Ok")}
<1>k. k \in Partly \cup {"RunCheck"} \cup
        {"GetSystemStatus", "GetRecentAudit", "ListVolumes", "GetSchedule",
         "FindOrganiseProposals", "ListMoves", "GetDefenderStatus", "FindRemnants",
         "GetFirewall", "CancelJob", "GetDefenderThreats", "GetBehaviourEvents",
         "ListQuarantine", "GetHardening", "GetProtection", "GetCanaries", "GetConnections",
         "ListApplications", "FindDuplicates", "SurveyProvenance", "SurveyCaches", "ScanPath",
         "SweepForChanges", "DefenderScan", "GetExtensions", "RecordLookup", "RecordRecycle",
         "NoteUninstallLaunched", "QuarantinePath", "QuarantineCopy", "ApplyMove"}
  BY DEF Handlers, Partly
<1>a. /\ Handlers["GetSystemStatus"] \subseteq plain
      /\ Handlers["GetRecentAudit"] \subseteq plain
      /\ Handlers["ListVolumes"] \subseteq plain
      /\ Handlers["GetSchedule"] \subseteq plain
      /\ Handlers["FindOrganiseProposals"] \subseteq plain
      /\ Handlers["ListMoves"] \subseteq plain
      /\ Handlers["GetDefenderStatus"] \subseteq plain
      /\ Handlers["FindRemnants"] \subseteq plain
      /\ Handlers["GetFirewall"] \subseteq plain
      /\ Handlers["CancelJob"] \subseteq plain
      /\ Handlers["GetDefenderThreats"] \subseteq plain
  BY DEF Handlers,
         GetSystemStatus, GetRecentAudit, ListVolumes, GetSchedule, FindOrganiseProposals,
         ListMoves, GetDefenderStatus, FindRemnants, GetFirewall, CancelJob, GetDefenderThreats
<1>b. /\ Handlers["GetBehaviourEvents"] \subseteq plain
      /\ Handlers["ListQuarantine"] \subseteq plain
      /\ Handlers["GetHardening"] \subseteq plain
      /\ Handlers["GetProtection"] \subseteq plain
      /\ Handlers["GetCanaries"] \subseteq plain
      /\ Handlers["GetConnections"] \subseteq plain
      /\ Handlers["ListApplications"] \subseteq plain
      /\ Handlers["FindDuplicates"] \subseteq plain
      /\ Handlers["SurveyProvenance"] \subseteq plain
      /\ Handlers["SurveyCaches"] \subseteq plain
      /\ Handlers["ScanPath"] \subseteq plain
  BY DEF Handlers,
         GetBehaviourEvents, ListQuarantine, Questions, ListApplications, FindDuplicates,
         SurveyProvenance, SurveyCaches, ScanPath
<1>c. /\ Handlers["SweepForChanges"] \subseteq plain
      /\ Handlers["DefenderScan"] \subseteq plain
      /\ Handlers["GetExtensions"] \subseteq plain
      /\ Handlers["RecordLookup"] \subseteq plain
      /\ Handlers["RecordRecycle"] \subseteq plain
      /\ Handlers["NoteUninstallLaunched"] \subseteq plain
      /\ Handlers["QuarantinePath"] \subseteq plain
      /\ Handlers["QuarantineCopy"] \subseteq plain
      /\ Handlers["ApplyMove"] \subseteq plain
  BY DEF Handlers,
         SweepForChanges, DefenderScan, GetExtensions, RecordLookup, RecordRecycle,
         NoteUninstallLaunched, QuarantinePath, QuarantineCopy, ApplyMove
<1>6. k \notin Partly \cup {"RunCheck"} => Handlers[k] \subseteq plain
  <2> HIDE DEF plain
  <2> QED BY <1>k, <1>a, <1>b, <1>c
<1>7. /\ Handlers["RunCheck"] = RunCheck /\ Handlers["UndoMove"] = UndoMove
      /\ Handlers["RestoreQuarantined"] = RestoreQuarantined
      /\ Handlers["DeleteQuarantined"] = DeleteQuarantined
      /\ Handlers["EmptyQuarantine"] = EmptyQuarantine
  BY DEF Handlers
<1>8. CASE k \notin Partly \cup {"RunCheck"}
  <2>1. \A e \in plain : Faithful(e)
    BY <1>1
  <2> HIDE DEF plain
  <2> QED BY <1>6, <1>8, <2>1 DEF Faithful
<1>9. CASE k \in Partly \cup {"RunCheck"}
  BY <1>2, <1>3, <1>4, <1>5, <1>7, <1>9 DEF Partly, Faithful
<1> QED BY <1>8, <1>9

\* A step of this connection and no other.
Alone(c) == caller' = caller /\ req' = req /\ \A d \in Conns \ {c} : pc'[d] = pc[d]

\* What every handler's step leaves alone.
LEMMA StepFrame ==
  ASSUME ConnInv, NEW c \in Conns, NEW changed, NEW entries, NEW answer, NEW where,
         Finish(c, changed, entries, answer) \/ Onward(c, changed, where)
  PROVE  /\ Alone(c) /\ pc'[c] \in {"record", "reply", where}
         /\ Finish(c, changed, entries, answer) => pc'[c] \in {"record", "reply"}
         /\ Onward(c, changed, where) => pc'[c] = where
BY DEF Alone, ConnInv, ShapeInv, Finish, Onward

\* A request is handled by one of these, or its thread could not be started.
LEMMA ElsewhereConn ==
  ASSUME ConnInv, NEW c \in Conns, HandleElsewhere(c) \/ JobNotStarted(c)
  PROVE  ConnInv'
<1>1. pc[c] = "handle" /\ pc[c] \in HandlerPlaces /\ ~did[c]
  BY DEF HandleElsewhere, JobNotStarted, HandlerPlaces, ConnInv, AuditInv
<1>2. CASE JobNotStarted(c)
  <2>1. Finish(c, FALSE, <<>>, "Error") /\ "Error" \in Replies
    BY <1>2 DEF JobNotStarted, Replies
  <2> QED BY <1>1, <2>1, FinishConn, OneEntry
<1>3. CASE HandleElsewhere(c)
  <2>1. PICK end \in Handlers[req[c].kind] : Finish(c, end.changed, end.entries, end.answer)
    BY <1>3 DEF HandleElsewhere
  <2>2. req[c].kind \in DOMAIN Handlers
    BY <1>3 DEF HandleElsewhere
  <2>3. Shaped(end) /\ (req[c].kind \notin Partly => Faithful(end))
    BY <2>1, <2>2, HandlersFaithful
  <2>4. end.changed \in BOOLEAN /\ end.entries \in Seq(Effects) /\ end.answer \in Replies
    BY <2>3 DEF Shaped
  <2>5. req[c].kind \in Partly \/ (did[c] \/ end.changed => "Changed" \in Elements(end.entries))
    BY <1>1, <2>3 DEF Faithful
  <2>6. req[c].kind \in Partly \/ ("Refused" \in Elements(end.entries) => ~did[c] /\ ~end.changed)
    BY <1>1, <2>3 DEF Faithful
  <2> QED BY <1>1, <2>1, <2>4, <2>5, <2>6, FinishConn
<1> QED BY <1>2, <1>3

\* A handler that ends after one step, or that has done nothing before its
\* last: it is recorded as Changed, or has done nothing.
LEMMA SoleStep ==
  ASSUME ConnInv, NEW c \in Conns, pc[c] \in {"handle", "remove"},
         NEW changed \in BOOLEAN, NEW answer \in {"Ok", "Error"},
         \/ Finish(c, changed, <<"Changed">>, answer)
         \/ Finish(c, changed, <<"Refused">>, answer) /\ ~changed
         \/ Finish(c, changed, <<>>, answer) /\ ~changed
  PROVE  ConnInv'
<1>1. pc[c] \in HandlerPlaces /\ ~did[c] /\ answer \in Replies
  BY DEF HandlerPlaces, ConnInv, AuditInv, Replies
<1>2. /\ <<"Changed">> \in Seq(Effects) /\ <<"Refused">> \in Seq(Effects) /\ <<>> \in Seq(Effects)
      /\ Elements(<<"Changed">>) = {"Changed"} /\ Elements(<<"Refused">>) = {"Refused"}
      /\ Elements(<<>>) = {}
  BY OneEntry DEF Effects
<1>3. CASE Finish(c, changed, <<"Changed">>, answer)
  BY <1>1, <1>2, <1>3, FinishConn
<1>4. CASE Finish(c, changed, <<"Refused">>, answer) /\ ~changed
  BY <1>1, <1>2, <1>4, FinishConn
<1>5. CASE Finish(c, changed, <<>>, answer) /\ ~changed
  BY <1>1, <1>2, <1>5, FinishConn
<1> QED BY <1>3, <1>4, <1>5

-----------------------------------------------------------------------------
(* Settings.                                                               *)

\* A settings request keeps the connection's invariant and the types, and what
\* is the machine's it changes for an administrator only.
LEMMA SettingsStep ==
  ASSUME ConnInv, SettingsTypeOK, NEW c \in Conns, SettingsNext(c)
  PROVE  /\ ConnInv' /\ SettingsTypeOK'
         /\ Alone(c) /\ pc'[c] \in {"record", "reply"} /\ pc[c] = "handle"
         /\ <<protection, hardening, auditing>>' # <<protection, hardening, auditing>> =>
               caller[c].trusted /\ caller[c].elevated
<1>0. /\ pc[c] = "handle" /\ req[c] \in Requests /\ caller[c].trusted /\ caller[c].user \in Users
      /\ ForTheMachine(req[c]) => caller[c].elevated
  BY DEF SettingsNext, SetProtection, SetHardening, SetCanaryAuditing, DisableSchedule,
         EnableSchedule, Handling, ConnInv, RightsInv, HandlerPlaces
<1>1. CASE SetProtection(c)
  <2>1. req[c].kind = "SetProtection" /\ req[c].on \in BOOLEAN
    BY <1>0, <1>1, SettingsAssumption DEF SetProtection, Handling
  <2>2. PICK changed \in BOOLEAN :
            \/ Finish(c, changed, <<"Changed">>, "Ok")
            \/ Finish(c, changed, <<>>, "Error") /\ ~changed
    <3>1. (protection' # protection) \in BOOLEAN /\ FALSE \in BOOLEAN
      OBVIOUS
    <3> QED BY <1>1, <3>1, Zenon DEF SetProtection
  <2>3. ConnInv' /\ Alone(c) /\ pc'[c] \in {"record", "reply"}
    BY <1>0, <2>2, SoleStep, StepFrame
  <2>4. protection' \in BOOLEAN /\ UNCHANGED <<hardening, auditing, task, folder>>
    BY <1>1, <2>1 DEF SetProtection, SettingsTypeOK
  <2>5. SettingsTypeOK'
    BY <2>4 DEF SettingsTypeOK
  <2>6. caller[c].elevated
    BY <1>0, <2>1 DEF ForTheMachine, NeedsAdministrator
  <2> QED BY <1>0, <2>3, <2>5, <2>6
<1>2. CASE SetHardening(c)
  <2>1. req[c].kind = "SetHardening" /\ req[c].wanted \in {"off", "audit", "block"}
    BY <1>0, <1>2, SettingsAssumption DEF SetHardening, Handling
  <2>2. PICK ok \in BOOLEAN :
            /\ HardeningRequest(req[c].rule, req[c].wanted, ok)
            /\ Finish(c, hardening' # hardening, IF ok THEN <<"Changed">> ELSE <<"Refused">>,
                      IF ok THEN "Ok" ELSE "Error")
    BY <1>2, Zenon DEF SetHardening
  <2>3. ~ok => hardening' = hardening
    BY <2>2 DEF HardeningRequest, RunDefenderCmdlet
  <2>4. PICK changed \in BOOLEAN : changed = (hardening' # hardening)
    OBVIOUS
  <2>5. \/ Finish(c, changed, <<"Changed">>, "Ok")
        \/ Finish(c, changed, <<"Refused">>, "Error") /\ ~changed
    <3>1. CASE ok
      BY <2>2, <2>4, <3>1, Zenon
    <3>2. CASE ~ok
      <4>1. Finish(c, changed, <<"Refused">>, "Error")
        BY <2>2, <2>4, <3>2, Zenon
      <4> QED BY <2>3, <2>4, <3>2, <4>1
    <3> QED BY <3>1, <3>2
  <2>6. ConnInv' /\ Alone(c) /\ pc'[c] \in {"record", "reply"}
    BY <1>0, <2>5, SoleStep, StepFrame
  <2>7. SettingsTypeOK'
    <3>1. hardening' \in [KnownRules -> {"off", "audit", "block"}]
      BY <2>1, <2>2 DEF HardeningRequest, RunDefenderCmdlet, SettingsTypeOK
    <3> QED BY <1>2, <3>1 DEF SetHardening, SettingsTypeOK
  <2>8. caller[c].elevated
    BY <1>0, <2>1 DEF ForTheMachine, NeedsAdministrator
  <2> QED BY <1>0, <2>6, <2>7, <2>8
<1>3. CASE SetCanaryAuditing(c)
  <2>1. req[c].kind = "SetCanaryAuditing" /\ req[c].on \in BOOLEAN
    BY <1>0, <1>3, SettingsAssumption DEF SetCanaryAuditing, Handling
  <2>2. PICK ok \in BOOLEAN :
            /\ SetAuditing(req[c].on, ok)
            /\ Finish(c, auditing' # auditing, IF ok THEN <<"Changed">> ELSE <<"Refused">>,
                      IF ok THEN "Ok" ELSE "Error")
    BY <1>3, Zenon DEF SetCanaryAuditing, EnableSecurityPrivilege
  <2>3. ~ok => auditing' = auditing
    BY <2>2 DEF SetAuditing
  <2>4. PICK changed \in BOOLEAN : changed = (auditing' # auditing)
    OBVIOUS
  <2>5. \/ Finish(c, changed, <<"Changed">>, "Ok")
        \/ Finish(c, changed, <<"Refused">>, "Error") /\ ~changed
    <3>1. CASE ok
      BY <2>2, <2>4, <3>1, Zenon
    <3>2. CASE ~ok
      <4>1. Finish(c, changed, <<"Refused">>, "Error")
        BY <2>2, <2>4, <3>2, Zenon
      <4> QED BY <2>3, <2>4, <3>2, <4>1
    <3> QED BY <3>1, <3>2
  <2>6. ConnInv' /\ Alone(c) /\ pc'[c] \in {"record", "reply"}
    BY <1>0, <2>5, SoleStep, StepFrame
  <2>7. SettingsTypeOK'
    <3>1. auditing' \in [Subcategories -> BOOLEAN]
      BY <2>1, <2>2 DEF SetAuditing, SettingsTypeOK
    <3> QED BY <1>3, <3>1 DEF SetCanaryAuditing, SettingsTypeOK
  <2>8. caller[c].elevated
    BY <1>0, <2>1 DEF ForTheMachine, NeedsAdministrator
  <2> QED BY <1>0, <2>6, <2>7, <2>8
<1>4. CASE DisableSchedule(c)
  <2>1. UNCHANGED <<protection, hardening, auditing>>
    BY <1>4 DEF DisableSchedule
  <2>2. PICK changed \in BOOLEAN, answer \in {"Ok", "Error"} :
            \/ Finish(c, changed, <<"Changed">>, answer)
            \/ Finish(c, changed, <<"Refused">>, answer) /\ ~changed
    <3>1. (task' # task) \in BOOLEAN /\ FALSE \in BOOLEAN
      OBVIOUS
    <3> QED BY <1>4, <3>1, Zenon DEF DisableSchedule, ReadBack
  <2>3. ConnInv' /\ Alone(c) /\ pc'[c] \in {"record", "reply"}
    BY <1>0, <2>2, SoleStep, StepFrame
  <2>4. task' \in Users \cup {"nobody"} /\ folder' \in BOOLEAN
    BY <1>4 DEF DisableSchedule, Disable, SettingsTypeOK
  <2>5. SettingsTypeOK'
    BY <2>1, <2>4 DEF SettingsTypeOK
  <2> QED BY <1>0, <2>1, <2>3, <2>5
<1>5. CASE EnableSchedule(c)
  <2>1. UNCHANGED <<protection, hardening, auditing>>
    BY <1>5 DEF EnableSchedule
  <2>2. \/ UNCHANGED <<task, folder>> /\ Finish(c, FALSE, <<>>, "Error")
        \/ \E ok \in BOOLEAN :
             /\ Enable(caller[c].user, ok)
             /\ Finish(c, ok, IF ok THEN <<"Changed">> ELSE <<"Refused">>, IF ok THEN "Ok" ELSE "Error")
    BY <1>5, Zenon DEF EnableSchedule
  <2>3. PICK changed \in BOOLEAN, answer \in {"Ok", "Error"} :
            \/ Finish(c, changed, <<"Changed">>, answer)
            \/ Finish(c, changed, <<"Refused">>, answer) /\ ~changed
            \/ Finish(c, changed, <<>>, answer) /\ ~changed
    <3>1. CASE Finish(c, FALSE, <<>>, "Error")
      BY <3>1, Zenon
    <3>2. ASSUME NEW ok \in BOOLEAN,
                 Finish(c, ok, IF ok THEN <<"Changed">> ELSE <<"Refused">>, IF ok THEN "Ok" ELSE "Error")
          PROVE  \E ch \in BOOLEAN, answer \in {"Ok", "Error"} :
                    \/ Finish(c, ch, <<"Changed">>, answer)
                    \/ Finish(c, ch, <<"Refused">>, answer) /\ ~ch
      BY <3>2, Zenon
    <3> QED BY <2>2, <3>1, <3>2, Zenon
  <2>4. ConnInv' /\ Alone(c) /\ pc'[c] \in {"record", "reply"}
    BY <1>0, <2>3, SoleStep, StepFrame
  <2>5. task' \in Users \cup {"nobody"} /\ folder' \in BOOLEAN
    BY <1>0, <2>2 DEF Enable, SettingsTypeOK
  <2>6. SettingsTypeOK'
    BY <2>1, <2>5 DEF SettingsTypeOK
  <2> QED BY <1>0, <2>1, <2>4, <2>6
<1> QED BY <1>1, <1>2, <1>3, <1>4, <1>5 DEF SettingsNext

-----------------------------------------------------------------------------
(* Firewall rules.                                                         *)

Counts == [ours : 0..MaxRules, theirs : 0..MaxRules]

\* A removal that is under way counted no rule of anybody else's.
FirewallInv ==
    /\ rules \in [Names -> Counts] /\ counted \in [Conns -> Counts]
    /\ \A c \in Conns : pc[c] = "remove" => counted[c].theirs = 0

\* A firewall request keeps the invariants, changes rules for administrators
\* only, and takes no rule of others' that its walk could have met.
LEMMA FirewallStep ==
  ASSUME ConnInv, FirewallInv, NEW c \in Conns, FirewallNext(c)
  PROVE  /\ ConnInv' /\ FirewallInv' /\ Alone(c)
         /\ pc[c] \in {"handle", "remove"} /\ pc'[c] \in {"remove", "record", "reply"}
         /\ rules' # rules => caller[c].trusted /\ caller[c].elevated
         /\ ForeignRulesStay
<1>0. /\ pc[c] \in {"handle", "remove"} /\ req[c] \in Requests /\ caller[c].trusted
      /\ ForTheMachine(req[c]) => caller[c].elevated
      /\ req[c].kind \in {"BlockProgram", "UnblockProgram"}
  BY DEF FirewallNext, BlockProgram, CountRules, RemoveRule, Handling, ConnInv, RightsInv,
         HandlerPlaces
<1>a. caller[c].elevated
  BY <1>0 DEF ForTheMachine, NeedsAdministrator
<1>z. NotCounted \in Counts /\ NotCounted.theirs = 0
  BY FirewallAssumption DEF NotCounted, Counts
<1>1. CASE BlockProgram(c)
  <2>1. PICK n \in Names : n = BlockRuleName(req[c].program)
    BY <1>0, <1>1, FirewallAssumption DEF BlockProgram, Handling, BlockRuleName
  <2>2. /\ counted' = counted /\ pc[c] = "handle"
        /\ \/ /\ rules[n].ours < MaxRules /\ rules[n].theirs < MaxRules
              /\ \E tagged \in BOOLEAN : AddRule(n, tagged)
              /\ Finish(c, TRUE, <<"Changed">>, "Ok")
           \/ rules' = rules /\ Finish(c, FALSE, <<"Refused">>, "Error")
    BY <1>1, <2>1 DEF BlockProgram, Handling
  <2>3. PICK changed \in BOOLEAN, answer \in {"Ok", "Error"} :
            \/ Finish(c, changed, <<"Changed">>, answer)
            \/ Finish(c, changed, <<"Refused">>, answer) /\ ~changed
    BY <2>2, Zenon
  <2>4. ConnInv' /\ Alone(c) /\ pc'[c] \in {"record", "reply"}
    BY <1>0, <2>3, SoleStep, StepFrame
  <2>5. rules' \in [Names -> Counts] /\ \A m \in Names : rules'[m].theirs >= rules[m].theirs
    <3>1. rules[n] \in Counts /\ \A m \in Names : rules[m].theirs \in 0..MaxRules
      BY DEF FirewallInv, Counts
    <3>2. CASE rules' = rules
      BY <3>1, <3>2, FirewallAssumption DEF FirewallInv
    <3>3. ASSUME AddRule(n, TRUE), rules[n].ours < MaxRules
          PROVE  rules' \in [Names -> Counts] /\ \A m \in Names : rules'[m].theirs = rules[m].theirs
      BY <3>1, <3>3, FirewallAssumption DEF AddRule, FirewallInv, Counts
    <3>4. ASSUME AddRule(n, FALSE), rules[n].theirs < MaxRules
          PROVE  rules' \in [Names -> Counts] /\ \A m \in Names : rules'[m].theirs >= rules[m].theirs
      BY <3>1, <3>4, FirewallAssumption DEF AddRule, FirewallInv, Counts
    <3>5. rules' = rules \/ /\ rules[n].ours < MaxRules /\ rules[n].theirs < MaxRules
                            /\ AddRule(n, TRUE) \/ AddRule(n, FALSE)
      BY <2>2 DEF AddRule
    <3>6. \A m \in Names : rules[m].theirs >= rules[m].theirs
      BY <3>1, FirewallAssumption
    <3> QED BY <3>2, <3>3, <3>4, <3>5, <3>6
  <2>6. FirewallInv'
    BY <2>2, <2>4, <2>5 DEF FirewallInv, Alone
  <2>7. ForeignRulesStay
    <3>1. \A m \in Names : rules[m].theirs \in Nat /\ rules'[m].theirs \in Nat
      BY <2>5, FirewallAssumption DEF FirewallInv, Counts
    <3> QED BY <2>5, <3>1 DEF ForeignRulesStay
  <2> QED BY <1>0, <1>a, <2>4, <2>6, <2>7
<1>2. CASE CountRules(c)
  <2>1. pc[c] = "handle" /\ rules' = rules /\ req[c].kind = "UnblockProgram" /\ req[c].rule \in Names
    BY <1>0, <1>2, FirewallAssumption DEF CountRules, Handling
  <2>2. \/ /\ MayRemove(rules[req[c].rule])
           /\ counted' = [counted EXCEPT ![c] = rules[req[c].rule]]
           /\ Onward(c, FALSE, "remove")
        \/ counted' = counted /\ Finish(c, FALSE, <<"Refused">>, "Error")
    <3>1. PICK walk \in WalkRules(req[c].rule) :
              IF walk.whole /\ MayRemove(walk.groups)
              THEN counted' = [counted EXCEPT ![c] = walk.groups] /\ Onward(c, FALSE, "remove")
              ELSE UNCHANGED counted /\ Finish(c, FALSE, <<"Refused">>, "Error")
      BY <1>2, Zenon DEF CountRules
    <3>2. walk.whole => walk.groups = rules[req[c].rule]
      BY DEF WalkRules
    <3> QED BY <3>1, <3>2
  <2>3. ForeignRulesStay
    BY <2>1, FirewallAssumption DEF ForeignRulesStay, FirewallInv, Counts
  <2>4. CASE /\ MayRemove(rules[req[c].rule])
             /\ counted' = [counted EXCEPT ![c] = rules[req[c].rule]]
             /\ Onward(c, FALSE, "remove")
    <3>1. pc[c] \in HandlerPlaces /\ "remove" \in HandlerPlaces \ {"handle"} /\ ~did[c]
          /\ Fits("remove", req[c])
      BY <2>1 DEF HandlerPlaces, ConnInv, AuditInv, Fits, DecoyPlaces, CachePlaces
    <3>2. ConnInv' /\ Alone(c) /\ pc'[c] = "remove"
      BY <2>4, <3>1, OnwardConn, StepFrame
    <3>3. FirewallInv'
      BY <2>1, <2>4, <3>2 DEF FirewallInv, MayRemove, Alone
    <3> QED BY <1>0, <2>1, <2>3, <3>2, <3>3
  <2>5. CASE counted' = counted /\ Finish(c, FALSE, <<"Refused">>, "Error")
    <3>1. ConnInv' /\ Alone(c) /\ pc'[c] \in {"record", "reply"}
      BY <1>0, <2>5, SoleStep, StepFrame
    <3>2. FirewallInv'
      BY <2>1, <2>5, <3>1 DEF FirewallInv, Alone
    <3> QED BY <1>0, <2>1, <2>3, <3>1, <3>2
  <2> QED BY <2>2, <2>4, <2>5
<1>3. CASE RemoveRule(c)
  <2>1. PICK n \in Names : n = req[c].rule
    BY <1>0, <1>3, FirewallAssumption DEF RemoveRule
  <2>2. pc[c] = "remove" /\ counted' = [counted EXCEPT ![c] = NotCounted] /\ counted[c].theirs = 0
    BY <1>3 DEF RemoveRule, FirewallInv
  <2>3. /\ \/ \E owner \in {"ours", "theirs"} :
                rules[n][owner] > 0 /\ rules' = [rules EXCEPT ![n][owner] = rules[n][owner] - 1]
           \/ rules' = rules
        /\ \E changed \in BOOLEAN, answer \in {"Ok", "Error"} :
             \/ Finish(c, changed, <<"Changed">>, answer)
             \/ Finish(c, changed, <<"Refused">>, answer) /\ ~changed
    <3>1. TRUE \in BOOLEAN /\ FALSE \in BOOLEAN /\ ~FALSE /\ "Ok" \in {"Ok", "Error"}
          /\ "Error" \in {"Ok", "Error"}
      OBVIOUS
    <3> QED BY <1>3, <2>1, <3>1, Zenon DEF RemoveRule
  <2>4. ConnInv' /\ Alone(c) /\ pc'[c] \in {"record", "reply"}
    BY <1>0, <2>3, SoleStep, StepFrame
  <2>5. /\ rules' \in [Names -> Counts] /\ \A m \in Names \ {n} : rules'[m] = rules[m]
        /\ rules[n].theirs \in Nat /\ rules'[n].theirs \in Nat
        /\ rules'[n].theirs < rules[n].theirs => rules[n].theirs > 0
    <3>1. /\ rules[n] \in Counts /\ rules[n].ours \in 0..MaxRules /\ rules[n].theirs \in 0..MaxRules
      BY DEF FirewallInv, Counts
    <3>2. CASE rules' = rules
      BY <3>1, <3>2, FirewallAssumption DEF FirewallInv
    <3>3. ASSUME rules[n].ours > 0, rules' = [rules EXCEPT ![n]["ours"] = rules[n]["ours"] - 1]
          PROVE  /\ rules' \in [Names -> Counts] /\ \A m \in Names \ {n} : rules'[m] = rules[m]
                 /\ rules'[n].theirs = rules[n].theirs
      BY <3>1, <3>3, FirewallAssumption DEF FirewallInv, Counts
    <3>4. ASSUME rules[n].theirs > 0, rules' = [rules EXCEPT ![n]["theirs"] = rules[n]["theirs"] - 1]
          PROVE  /\ rules' \in [Names -> Counts] /\ \A m \in Names \ {n} : rules'[m] = rules[m]
                 /\ rules'[n].theirs = rules[n].theirs - 1
      BY <3>1, <3>4, FirewallAssumption DEF FirewallInv, Counts
    <3> QED BY <2>3, <3>1, <3>2, <3>3, <3>4, FirewallAssumption
  <2>6. FirewallInv'
    BY <1>z, <2>2, <2>4, <2>5 DEF FirewallInv, Alone
  <2>7. ForeignRulesStay
    <3> SUFFICES ASSUME NEW m \in Names, rules'[m].theirs < rules[m].theirs
                 PROVE  \E d \in Conns : /\ pc[d] = "remove" /\ req[d].rule = m
                                         /\ counted[d].theirs < rules[m].theirs
      BY DEF ForeignRulesStay
    <3>1. rules[m].theirs \in Nat
      BY FirewallAssumption DEF FirewallInv, Counts
    <3>2. m = n
      BY <2>5, <3>1
    <3> QED BY <2>1, <2>2, <2>5, <3>2
  <2> QED BY <1>0, <1>a, <2>4, <2>6, <2>7
<1> QED BY <1>1, <1>2, <1>3 DEF FirewallNext

-----------------------------------------------------------------------------
(* Decoys.                                                                 *)

DecoyTypes ==
    /\ at \in [Users -> [AllDecoys -> {"none", "ours", "owner"}]]
    /\ watched \in [Users -> [AllDecoys -> BOOLEAN]]
    /\ left \in [Conns -> Seq(AllDecoys)]
    /\ claimed \in [Conns -> SUBSET AllDecoys] /\ armed \in [Conns -> SUBSET AllDecoys]
    /\ disturbed \in [Conns -> SUBSET AllDecoys]

\* A request that goes through the decoys has one in hand, and what it saw at
\* its path is there still unless somebody else was at it.
InHand(c) ==
    /\ pc[c] \in DecoyPlaces =>
          /\ left[c] # <<>>
          /\ req[c].on => Elements(left[c]) \subseteq Elements(PlantList)
    /\ pc[c] \in {"again", "write", "watch"} => req[c].on
    /\ pc[c] = "unlink" => ~req[c].on
    /\ pc[c] \in {"again", "write", "watch", "unlink"} /\ Head(left[c]) \notin disturbed[c] =>
          /\ at[caller[c].user][Head(left[c])] # "owner"
          /\ pc[c] = "watch" => at[caller[c].user][Head(left[c])] = "ours"

\* What the report of a plant lists so far is so.
Listed(c) ==
    /\ armed[c] \subseteq claimed[c]
    /\ pc[c] = "idle" => claimed[c] = {}
    /\ req[c].kind = "SetCanaries" /\ req[c].on =>
          \A d \in claimed[c] \ disturbed[c] :
              /\ d \in Elements(PlantList) /\ at[caller[c].user][d] = "ours"
              /\ d \in armed[c] => watched[caller[c].user][d]

DecoyInv == DecoyTypes /\ \A c \in Conns : InHand(c) /\ Listed(c)

\* What a change at one decoy's path does, and to whom it is known.
LEMMA PutFacts ==
  ASSUME DecoyTypes, NEW u \in Users, NEW d \in AllDecoys,
         NEW what \in {"none", "ours", "owner"}, NEW self, Put(u, d, what, self)
  PROVE  /\ at' \in [Users -> [AllDecoys -> {"none", "ours", "owner"}]]
         /\ \A v \in Users, e \in AllDecoys :
              at'[v][e] = IF v = u /\ e = d THEN what ELSE at[v][e]
         /\ disturbed' \in [Conns -> SUBSET AllDecoys]
         /\ \A x \in Conns :
              /\ disturbed[x] \subseteq disturbed'[x]
              /\ x # self /\ caller[x].user = u /\ req[x].kind = "SetCanaries" =>
                    d \in disturbed'[x]
              /\ x = self => disturbed'[x] = disturbed[x]
<1>1. at' = [at EXCEPT ![u][d] = what]
  BY DEF Put
<1>2. \A x \in Conns : disturbed'[x] = IF x # self /\ caller[x].user = u /\ req[x].kind = "SetCanaries"
                                       THEN disturbed[x] \cup {d} ELSE disturbed[x]
  BY DEF Put
<1>3. disturbed' \in [Conns -> SUBSET AllDecoys]
  BY DEF Put, DecoyTypes
<1> QED BY <1>1, <1>2, <1>3 DEF DecoyTypes

\* A connection whose own notes are left alone, and that is told what becomes
\* of the decoys.
LEMMA DecoyKeptFor ==
  ASSUME ConnInv, DecoyInv, NEW x \in Conns, DecoyTypes',
         pc'[x] = pc[x], caller'[x] = caller[x], req'[x] = req[x],
         left'[x] = left[x], claimed'[x] = claimed[x], armed'[x] = armed[x],
         disturbed[x] \subseteq disturbed'[x],
         req[x].kind = "SetCanaries" =>
            \A e \in AllDecoys \ disturbed'[x] :
               /\ at'[caller[x].user][e] = at[caller[x].user][e]
               /\ watched[caller[x].user][e] => watched'[caller[x].user][e]
  PROVE  InHand(x)' /\ Listed(x)'
<1>1. InHand(x) /\ Listed(x) /\ left[x] \in Seq(AllDecoys) /\ claimed[x] \subseteq AllDecoys
  BY DEF DecoyInv, DecoyTypes
<1>2. pc[x] \in DecoyPlaces => req[x].kind = "SetCanaries"
  BY DEF ConnInv, RightsInv, Fits, HandlerPlaces
<1>3. InHand(x)'
  <2>1. pc[x] \in DecoyPlaces => Head(left[x]) \in AllDecoys
    BY <1>1, ElementsFacts DEF InHand
  <2>2. {"again", "write", "watch", "unlink"} \subseteq DecoyPlaces
    BY DEF DecoyPlaces
  <2>3. pc[x] \in {"again", "write", "watch", "unlink"} /\ Head(left[x]) \notin disturbed'[x] =>
          /\ at'[caller[x].user][Head(left[x])] = at[caller[x].user][Head(left[x])]
          /\ Head(left[x]) \notin disturbed[x]
    BY <1>1, <1>2, <2>1, <2>2
  <2>4. pc[x] \in {"again", "write", "watch", "unlink"} /\ Head(left[x]) \notin disturbed'[x] =>
          /\ at'[caller[x].user][Head(left[x])] # "owner"
          /\ pc[x] = "watch" => at'[caller[x].user][Head(left[x])] = "ours"
    BY <1>1, <2>3 DEF InHand
  <2>5. /\ pc[x] \in DecoyPlaces =>
             left[x] # <<>> /\ (req[x].on => Elements(left[x]) \subseteq Elements(PlantList))
        /\ pc[x] \in {"again", "write", "watch"} => req[x].on
        /\ pc[x] = "unlink" => ~req[x].on
    BY <1>1 DEF InHand
  <2>6. left'[x] = left[x]
    OBVIOUS
  <2> QED BY <1>1, <2>4, <2>5, <2>6 DEF InHand
<1>4. Listed(x)'
  <2>1. armed'[x] \subseteq claimed'[x] /\ (pc'[x] = "idle" => claimed'[x] = {})
    BY <1>1 DEF Listed
  <2>2. ASSUME req[x].kind = "SetCanaries", req[x].on, NEW d \in claimed[x] \ disturbed'[x]
        PROVE  /\ d \in Elements(PlantList) /\ at'[caller[x].user][d] = "ours"
               /\ d \in armed[x] => watched'[caller[x].user][d]
    <3>1. d \in AllDecoys \ disturbed'[x] /\ d \in claimed[x] \ disturbed[x]
      BY <1>1, <2>2
    <3>2. /\ d \in Elements(PlantList) /\ at[caller[x].user][d] = "ours"
          /\ d \in armed[x] => watched[caller[x].user][d]
      BY <1>1, <2>2, <3>1 DEF Listed
    <3> QED BY <2>2, <3>1, <3>2
  <2>3. claimed'[x] = claimed[x] /\ armed'[x] = armed[x]
    OBVIOUS
  <2> QED BY <1>1, <2>1, <2>2, <2>3 DEF Listed
<1> QED BY <1>3, <1>4

\* A step of one connection that only disturbs what it tells the others of.
LEMMA DecoyKept ==
  ASSUME ConnInv, DecoyInv, NEW c \in Conns, Alone(c), DecoyTypes',
         \A x \in Conns \ {c} :
            /\ left'[x] = left[x] /\ claimed'[x] = claimed[x] /\ armed'[x] = armed[x]
            /\ disturbed[x] \subseteq disturbed'[x]
            /\ req[x].kind = "SetCanaries" =>
                  \A e \in AllDecoys \ disturbed'[x] :
                     /\ at'[caller[x].user][e] = at[caller[x].user][e]
                     /\ watched[caller[x].user][e] => watched'[caller[x].user][e],
         InHand(c)', Listed(c)'
  PROVE  DecoyInv'
<1> SUFFICES ASSUME NEW x \in Conns \ {c} PROVE InHand(x)' /\ Listed(x)'
  BY DEF DecoyInv
<1>1. pc'[x] = pc[x] /\ caller'[x] = caller[x] /\ req'[x] = req[x]
  BY DEF Alone
<1> QED BY <1>1, DecoyKeptFor

\* Steps that have nothing to do with decoys leave them alone.
LEMMA DecoyFrame ==
  ASSUME ConnInv, DecoyInv, NEW c \in Conns, Alone(c), UNCHANGED decoyVars,
         pc'[c] \notin DecoyPlaces \cup {"idle"}
  PROVE  DecoyInv'
<1>1. DecoyTypes' /\ UNCHANGED <<at, watched, left, claimed, armed, disturbed>>
  BY DEF decoyVars, DecoyInv, DecoyTypes
<1>2. InHand(c)'
  BY DEF InHand, DecoyPlaces
<1>3. Listed(c)'
  BY <1>1 DEF DecoyInv, Listed, Alone
<1> QED BY <1>1, <1>2, <1>3, DecoyKept

\* On to the next decoy.
LEMMA NextDecoyFacts ==
  ASSUME ConnInv, DecoyInv, NEW c \in Conns, pc[c] \in DecoyPlaces,
         NEW changed \in BOOLEAN, NextDecoy(c, changed)
  PROVE  /\ ConnInv' /\ Alone(c)
         /\ left' \in [Conns -> Seq(AllDecoys)] /\ \A x \in Conns \ {c} : left'[x] = left[x]
         /\ InHand(c)' /\ pc'[c] \in {"look", "record", "reply"}
<1>1. /\ left[c] \in Seq(AllDecoys) /\ left[c] # <<>>
      /\ req[c].on => Elements(left[c]) \subseteq Elements(PlantList)
  BY DEF DecoyInv, DecoyTypes, InHand
<1>2. Tail(left[c]) \in Seq(AllDecoys) /\ Elements(Tail(left[c])) \subseteq Elements(left[c])
      /\ (Len(left[c]) = 1 <=> Tail(left[c]) = <<>>) /\ Len(left[c]) \in Nat \ {0}
  BY <1>1, ElementsFacts, EmptySeq
<1>3. left' = [left EXCEPT ![c] = Tail(left[c])]
  BY DEF NextDecoy
<1>4. /\ left' \in [Conns -> Seq(AllDecoys)] /\ left'[c] = Tail(left[c])
      /\ \A x \in Conns \ {c} : left'[x] = left[x]
  BY <1>2, <1>3 DEF DecoyInv, DecoyTypes
<1>5. pc[c] \in HandlerPlaces /\ req[c].kind = "SetCanaries"
  BY DEF HandlerPlaces, ConnInv, RightsInv, Fits
<1>6. CASE Len(left[c]) > 1
  <2>1. Onward(c, changed, "look")
    BY <1>6 DEF NextDecoy
  <2>2. "look" \in HandlerPlaces \ {"handle"} /\ Fits("look", req[c]) /\ "look" # "remove"
    BY <1>5 DEF HandlerPlaces, DecoyPlaces, CachePlaces, Fits
  <2>3. ConnInv' /\ Alone(c) /\ pc'[c] = "look"
    BY <1>5, <2>1, <2>2, OnwardConn, StepFrame
  <2>4. InHand(c)'
    <3>1. left'[c] # <<>>
      BY <1>2, <1>4, <1>6
    <3>2. req'[c].on => Elements(left'[c]) \subseteq Elements(PlantList)
      BY <1>1, <1>2, <1>4, <2>3 DEF Alone
    <3> QED BY <2>3, <3>1, <3>2 DEF InHand
  <2> QED BY <1>4, <2>3, <2>4
<1>7. CASE ~(Len(left[c]) > 1)
  <2>1. Finish(c, changed, <<"Changed">>, "Ok")
    BY <1>7 DEF NextDecoy
  <2>2. /\ <<"Changed">> \in Seq(Effects) /\ Elements(<<"Changed">>) = {"Changed"} /\ "Ok" \in Replies
    BY OneEntry DEF Effects, Replies
  <2>3. ConnInv' /\ Alone(c) /\ pc'[c] \in {"record", "reply"}
    BY <1>5, <2>1, <2>2, FinishConn, StepFrame
  <2>4. InHand(c)'
    BY <2>3 DEF InHand, DecoyPlaces
  <2> QED BY <1>4, <2>3, <2>4
<1> QED BY <1>6, <1>7

\* A step that looks and writes nothing, and goes on with the same decoy or
\* the next.
LEMMA LookStep ==
  ASSUME ConnInv, DecoyInv, NEW c \in Conns, pc[c] \in DecoyPlaces,
         UNCHANGED <<at, disturbed, watched, claimed, armed>>,
         \/ NextDecoy(c, FALSE)
         \/ /\ \E where \in DecoyPlaces : Onward(c, FALSE, where)
            /\ left' = left /\ InHand(c)'
  PROVE  ConnInv' /\ DecoyInv' /\ Alone(c) /\ pc'[c] \in {"record", "reply"} \cup DecoyPlaces
<1>1. /\ ConnInv' /\ Alone(c) /\ pc'[c] \in {"record", "reply"} \cup DecoyPlaces /\ InHand(c)'
      /\ left' \in [Conns -> Seq(AllDecoys)] /\ \A x \in Conns \ {c} : left'[x] = left[x]
  <2>1. CASE NextDecoy(c, FALSE)
    BY <2>1, NextDecoyFacts DEF DecoyPlaces
  <2>2. ASSUME NEW where \in DecoyPlaces, Onward(c, FALSE, where), left' = left, InHand(c)'
        PROVE  <1>1!:
    <3>1. pc[c] \in HandlerPlaces /\ req[c].kind = "SetCanaries"
      BY DEF HandlerPlaces, ConnInv, RightsInv, Fits
    <3>2. where \in HandlerPlaces \ {"handle"} /\ Fits(where, req[c]) /\ where # "remove"
      BY <3>1 DEF HandlerPlaces, DecoyPlaces, CachePlaces, Fits
    <3>3. ConnInv' /\ Alone(c) /\ pc'[c] = where
      BY <2>2, <3>1, <3>2, OnwardConn, StepFrame
    <3> QED BY <2>2, <3>3 DEF DecoyInv, DecoyTypes
  <2> QED BY <2>1, <2>2
<1>2. DecoyTypes'
  BY <1>1 DEF DecoyInv, DecoyTypes
<1>3. Listed(c)'
  <2>1. "idle" \notin {"record", "reply"} \cup DecoyPlaces
    BY DEF DecoyPlaces
  <2> QED BY <1>1, <2>1 DEF DecoyInv, Listed, Alone
<1>4. DecoyInv'
  BY <1>1, <1>2, <1>3, DecoyKept
<1> QED BY <1>1, <1>4

\* A request for decoys keeps the invariants, and leaves alone an owner's file
\* that nobody put there while it ran.
LEMMA DecoyStep ==
  ASSUME ConnInv, DecoyInv, NEW c \in Conns, DecoysNext(c)
  PROVE  /\ ConnInv' /\ DecoyInv' /\ Alone(c) /\ OwnersFileStays
         /\ pc'[c] \in {"record", "reply"} \cup DecoyPlaces
         /\ pc[c] \in {"handle"} \cup DecoyPlaces
<1>0. /\ pc[c] \in {"handle"} \cup DecoyPlaces /\ req[c].kind = "SetCanaries"
      /\ DecoyTypes /\ InHand(c) /\ Listed(c)
  BY DEF DecoysNext, BeginDecoys, PlantLook, PlantAgain, PlantWrite, PlantWatch, RemoveLook, Unlink,
         Handling, Planting, Removing, DecoyPlaces, DecoyInv
<1>1. pc[c] \in HandlerPlaces /\ caller[c].user \in Users /\ req[c] \in Requests /\ req[c].on \in BOOLEAN
  BY <1>0, DecoysAssumption DEF ConnInv, RightsInv, HandlerPlaces
<1>2. PICK u \in Users : u = caller[c].user
  BY <1>1
<1>s. at' = at => OwnersFileStays
  BY DEF OwnersFileStays
<1>3. CASE BeginDecoys(c)
  <2> DEFINE list == IF req[c].on THEN PlantList ELSE Files \o Keys
  <2>1. /\ left' = [left EXCEPT ![c] = list] /\ claimed' = [claimed EXCEPT ![c] = {}]
        /\ armed' = [armed EXCEPT ![c] = {}] /\ disturbed' = [disturbed EXCEPT ![c] = {}]
        /\ Onward(c, FALSE, "look") /\ UNCHANGED <<at, watched>> /\ pc[c] = "handle"
    BY <1>3 DEF BeginDecoys, Handling
  <2>2. /\ list \in Seq(AllDecoys) /\ list # <<>>
        /\ req[c].on => Elements(list) \subseteq Elements(PlantList)
    <3>1. Files \o Keys \in Seq(STRING) /\ Elements(Files \o Keys) = Elements(Files) \cup Elements(Keys)
      BY DecoysAssumption, ElementsConcat
    <3>2. Files \in Seq(AllDecoys) /\ Keys \in Seq(AllDecoys)
      <4>1. ASSUME NEW q \in Seq(STRING), Elements(q) \subseteq AllDecoys PROVE q \in Seq(AllDecoys)
        <5>1. Len(q) \in Nat /\ q \in [1 .. Len(q) -> STRING] /\ \A k \in 1 .. Len(q) : q[k] \in AllDecoys
          BY <4>1 DEF Elements
        <5>2. q \in [1 .. Len(q) -> AllDecoys]
          BY <5>1
        <5> QED BY <5>1, <5>2, SeqDef
      <4> QED BY <3>1, <4>1, DecoysAssumption DEF AllDecoys
    <3>3. PlantList = Files
      BY DecoysAssumption DEF PlantList, RegistryDecoysEnabled
    <3>4. Len(Files) \in Nat \ {0} /\ Len(Keys) \in Nat /\ Len(Files \o Keys) = Len(Files) + Len(Keys)
      BY <3>2, DecoysAssumption, EmptySeq
    <3>5. Files \o Keys # <<>> /\ Files \o Keys \in Seq(AllDecoys)
      BY <3>2, <3>4
    <3> QED BY <3>2, <3>3, <3>5, DecoysAssumption
  <2> HIDE DEF list
  <2>3. "look" \in HandlerPlaces \ {"handle"} /\ Fits("look", req[c]) /\ "look" \in DecoyPlaces
    BY <1>0 DEF HandlerPlaces, DecoyPlaces, CachePlaces, Fits
  <2>4. ConnInv' /\ Alone(c) /\ pc'[c] = "look"
    BY <1>1, <2>1, <2>3, OnwardConn, StepFrame
  <2>5. /\ DecoyTypes' /\ left'[c] = list /\ claimed'[c] = {} /\ armed'[c] = {}
        /\ \A x \in Conns \ {c} : /\ left'[x] = left[x] /\ claimed'[x] = claimed[x]
                                  /\ armed'[x] = armed[x] /\ disturbed'[x] = disturbed[x]
    BY <1>0, <2>1, <2>2 DEF DecoyTypes
  <2>6. InHand(c)' /\ Listed(c)'
    BY <2>2, <2>4, <2>5 DEF InHand, Listed, Alone
  <2>7. DecoyInv'
    BY <2>1, <2>4, <2>5, <2>6, DecoyKept
  <2> QED BY <1>0, <1>s, <2>1, <2>3, <2>4, <2>7
<1>4. ASSUME pc[c] \in DecoyPlaces
      PROVE  /\ left[c] \in Seq(AllDecoys) /\ left[c] # <<>> /\ Head(left[c]) \in AllDecoys
             /\ Head(left[c]) \in Elements(left[c])
             /\ at[u][Head(left[c])] \in {"none", "ours", "owner"}
  BY <1>0, <1>4, ElementsFacts DEF InHand, DecoyTypes
<1>5. ASSUME pc[c] \in DecoyPlaces, UNCHANGED <<at, disturbed, watched, claimed, armed>>,
             \/ NextDecoy(c, FALSE)
             \/ /\ \E where \in DecoyPlaces : Onward(c, FALSE, where)
                /\ left' = left /\ InHand(c)'
      PROVE  /\ ConnInv' /\ DecoyInv' /\ Alone(c) /\ OwnersFileStays
             /\ pc'[c] \in {"record", "reply"} \cup DecoyPlaces
             /\ pc[c] \in {"handle"} \cup DecoyPlaces
  BY <1>5, <1>s, LookStep
<1>l. {"again", "write", "watch", "unlink", "look"} \subseteq DecoyPlaces
  BY DEF DecoyPlaces
<1>6. ASSUME NEW where \in DecoyPlaces \ {"look"}, Onward(c, FALSE, where), pc[c] \in DecoyPlaces,
             UNCHANGED <<left, at, disturbed>>,
             (where \in {"again", "write", "watch"}) <=> req[c].on,
             Head(left[c]) \notin disturbed[c] => /\ at[u][Head(left[c])] # "owner"
                                                  /\ where = "watch" => at[u][Head(left[c])] = "ours"
      PROVE  InHand(c)'
  <2>1. Alone(c) /\ pc'[c] = where
    BY <1>6, StepFrame
  <2>2. where \in {"again", "write", "watch", "unlink"}
    BY DEF DecoyPlaces
  <2>3. left[c] # <<>> /\ (req[c].on => Elements(left[c]) \subseteq Elements(PlantList))
    BY <1>0, <1>6 DEF InHand
  <2> QED BY <1>2, <1>6, <2>1, <2>2, <2>3 DEF InHand, Alone
<1>7. CASE PlantLook(c)
  <2>1. /\ pc[c] = "look" /\ req[c].on /\ UNCHANGED <<at, disturbed, watched, claimed, armed>>
        /\ IF at[u][Head(left[c])] # "none" /\ at[u][Head(left[c])] # "ours"
           THEN NextDecoy(c, FALSE)
           ELSE Onward(c, FALSE, "again") /\ UNCHANGED left
    BY <1>2, <1>7 DEF PlantLook, Planting, Untouched, Mine, IsOurs
  <2>2. CASE NextDecoy(c, FALSE)
    BY <1>5, <1>l, <2>1, <2>2
  <2>3. CASE ~NextDecoy(c, FALSE)
    <3>1. /\ at[u][Head(left[c])] # "owner" /\ Onward(c, FALSE, "again") /\ UNCHANGED left
          /\ pc[c] \in DecoyPlaces
      BY <1>l, <2>1, <2>3
    <3>2. InHand(c)'
      BY <1>6, <1>l, <2>1, <3>1
    <3> QED BY <1>5, <1>l, <2>1, <3>1, <3>2
  <2> QED BY <2>2, <2>3
<1>8. CASE PlantAgain(c)
  <2>1. /\ pc[c] = "again" /\ req[c].on /\ UNCHANGED <<at, disturbed, watched, claimed, armed>>
        /\ \/ at[u][Head(left[c])] # "none" /\ Onward(c, FALSE, "watch") /\ UNCHANGED left
           \/ at[u][Head(left[c])] = "none" /\ Onward(c, FALSE, "write") /\ UNCHANGED left
           \/ NextDecoy(c, FALSE)
    BY <1>2, <1>8 DEF PlantAgain, Planting, Untouched, Mine
  <2>2. CASE NextDecoy(c, FALSE)
    BY <1>5, <1>l, <2>1, <2>2
  <2>3. CASE at[u][Head(left[c])] # "none" /\ Onward(c, FALSE, "watch") /\ UNCHANGED left
    <3>1. Head(left[c]) \notin disturbed[c] => at[u][Head(left[c])] = "ours"
      BY <1>0, <1>2, <1>4, <1>l, <2>1, <2>3 DEF InHand
    <3>2. InHand(c)'
      BY <1>6, <1>l, <2>1, <2>3, <3>1
    <3> QED BY <1>5, <1>l, <2>1, <2>3, <3>2
  <2>4. CASE at[u][Head(left[c])] = "none" /\ Onward(c, FALSE, "write") /\ UNCHANGED left
    <3>1. InHand(c)'
      BY <1>6, <1>l, <2>1, <2>4
    <3> QED BY <1>5, <1>l, <2>1, <2>4, <3>1
  <2> QED BY <2>1, <2>2, <2>3, <2>4
<1>9. CASE RemoveLook(c)
  <2>1. /\ pc[c] = "look" /\ ~req[c].on /\ UNCHANGED <<at, disturbed, watched, claimed, armed>>
        /\ IF at[u][Head(left[c])] = "ours"
           THEN Onward(c, FALSE, "unlink") /\ UNCHANGED left
           ELSE NextDecoy(c, FALSE)
    BY <1>2, <1>9 DEF RemoveLook, Removing, Untouched, IsOurs
  <2>2. CASE NextDecoy(c, FALSE)
    BY <1>5, <1>l, <2>1, <2>2
  <2>3. CASE at[u][Head(left[c])] = "ours" /\ Onward(c, FALSE, "unlink") /\ UNCHANGED left
    <3>1. InHand(c)'
      BY <1>6, <1>l, <2>1, <2>3
    <3> QED BY <1>5, <1>l, <2>1, <2>3, <3>1
  <2> QED BY <2>1, <2>2, <2>3
<1>10. CASE PlantWrite(c)
  <2>1. pc[c] = "write" /\ req[c].on /\ UNCHANGED <<watched, claimed, armed>>
    BY <1>10 DEF PlantWrite, Planting
  <2>2. CASE Untouched /\ NextDecoy(c, FALSE)
    BY <1>5, <1>l, <2>1, <2>2 DEF Untouched
  <2>3. ASSUME Put(u, Head(left[c]), "ours", c), Onward(c, TRUE, "watch"), UNCHANGED left
        PROVE  /\ ConnInv' /\ DecoyInv' /\ Alone(c) /\ OwnersFileStays
               /\ pc'[c] \in {"record", "reply"} \cup DecoyPlaces
               /\ pc[c] \in {"handle"} \cup DecoyPlaces
    <3>1. "watch" \in HandlerPlaces \ {"handle"} /\ Fits("watch", req[c]) /\ "watch" # "remove"
      BY <1>0 DEF HandlerPlaces, DecoyPlaces, CachePlaces, Fits
    <3>2. ConnInv' /\ Alone(c) /\ pc'[c] = "watch"
      BY <1>1, <2>3, <3>1, OnwardConn, StepFrame
    <3>3. PICK d \in AllDecoys : d = Head(left[c])
      BY <1>4, <1>l, <2>1
    <3>4. Put(u, d, "ours", c)
      BY <2>3, <3>3
    <3>5. /\ at' \in [Users -> [AllDecoys -> {"none", "ours", "owner"}]]
          /\ \A v \in Users, e \in AllDecoys :
               at'[v][e] = IF v = u /\ e = d THEN "ours" ELSE at[v][e]
          /\ disturbed' \in [Conns -> SUBSET AllDecoys]
          /\ \A x \in Conns :
               /\ disturbed[x] \subseteq disturbed'[x]
               /\ x # c /\ caller[x].user = u /\ req[x].kind = "SetCanaries" => d \in disturbed'[x]
               /\ x = c => disturbed'[x] = disturbed[x]
      BY <1>0, <3>4, PutFacts
    <3>6. DecoyTypes'
      BY <1>0, <2>1, <2>3, <3>5 DEF DecoyTypes
    <3>7. InHand(c)'
      <4>1. at'[u][Head(left[c])] = "ours"
        BY <3>3, <3>5
      <4>2. left[c] # <<>> /\ (req[c].on => Elements(left[c]) \subseteq Elements(PlantList))
        BY <1>0, <1>l, <2>1 DEF InHand
      <4> QED BY <1>2, <2>1, <2>3, <3>2, <4>1, <4>2 DEF InHand, Alone
    <3>8. Listed(c)'
      <4>1. \A e \in claimed[c] \ disturbed[c] :
              /\ e \in Elements(PlantList) /\ at[u][e] = "ours" /\ e \in AllDecoys
              /\ e \in armed[c] => watched[u][e]
        BY <1>0, <1>2, <2>1 DEF Listed, DecoyTypes
      <4>2. \A e \in claimed[c] \ disturbed'[c] : at'[u][e] = "ours" /\ e \in claimed[c] \ disturbed[c]
        BY <3>5, <4>1
      <4>3. armed[c] \subseteq claimed[c]
        BY <1>0 DEF Listed
      <4> QED BY <1>2, <2>1, <3>2, <4>1, <4>2, <4>3 DEF Listed, Alone
    <3>9. ASSUME NEW x \in Conns \ {c}, req[x].kind = "SetCanaries", NEW e \in AllDecoys \ disturbed'[x]
          PROVE  at'[caller[x].user][e] = at[caller[x].user][e]
      <4>1. caller[x].user \in Users
        BY <3>9 DEF ConnInv, RightsInv, NoRequest
      <4> QED BY <3>5, <3>9, <4>1
    <3>10. DecoyInv'
      BY <2>1, <2>3, <3>2, <3>5, <3>6, <3>7, <3>8, <3>9, DecoyKept
    <3>11. OwnersFileStays
      <4> SUFFICES ASSUME NEW v \in Users, NEW e \in AllDecoys, NEW x \in Conns,
                          at[v][e] = "owner", at'[v][e] # "owner",
                          caller[x].user = v, pc'[x] # pc[x]
                   PROVE  e \in disturbed[x]
        BY DEF OwnersFileStays
      <4>1. x = c
        BY <3>2 DEF Alone
      <4>2. v = u /\ e = d
        BY <3>5
      <4> QED BY <1>0, <1>2, <2>1, <3>3, <4>1, <4>2 DEF InHand
    <3> QED BY <1>0, <1>l, <3>2, <3>10, <3>11
  <2> QED BY <1>2, <1>10, <2>2, <2>3 DEF PlantWrite
<1>11. CASE PlantWatch(c)
  <2>1. PICK d \in AllDecoys : d = Head(left[c])
    BY <1>4, <1>l, <1>11 DEF PlantWatch, Planting
  <2>2. PICK took \in WatchObject(u, d) :
            /\ watched' = [watched EXCEPT ![u][d] = watched[u][d] \/ took]
            /\ armed' = [armed EXCEPT ![c] = IF took THEN armed[c] \cup {d} ELSE armed[c]]
            /\ NextDecoy(c, watched' # watched)
    BY <1>2, <1>11, <2>1, Zenon DEF PlantWatch
  <2>3. /\ pc[c] = "watch" /\ req[c].on /\ UNCHANGED <<at, disturbed>>
        /\ claimed' = [claimed EXCEPT ![c] = claimed[c] \cup {d}]
    BY <2>1, <1>11 DEF PlantWatch, Planting, Untouched
  <2>4. took \in BOOLEAN
    BY DEF WatchObject
  <2>5. PICK changed \in BOOLEAN : NextDecoy(c, changed)
    <3>1. (watched' # watched) \in BOOLEAN
      OBVIOUS
    <3> QED BY <2>2, <3>1, Zenon
  <2>6. /\ ConnInv' /\ Alone(c) /\ pc'[c] \in {"look", "record", "reply"} /\ InHand(c)'
        /\ left' \in [Conns -> Seq(AllDecoys)] /\ \A x \in Conns \ {c} : left'[x] = left[x]
    BY <1>l, <2>3, <2>5, NextDecoyFacts
  <2>7. /\ watched' \in [Users -> [AllDecoys -> BOOLEAN]]
        /\ \A v \in Users, e \in AllDecoys : watched[v][e] => watched'[v][e]
        /\ took => watched'[u][d]
    BY <1>0, <2>2, <2>4 DEF DecoyTypes
  <2>8. /\ armed' \in [Conns -> SUBSET AllDecoys] /\ claimed' \in [Conns -> SUBSET AllDecoys]
        /\ claimed'[c] = claimed[c] \cup {d}
        /\ armed'[c] = (IF took THEN armed[c] \cup {d} ELSE armed[c])
        /\ \A x \in Conns \ {c} : claimed'[x] = claimed[x] /\ armed'[x] = armed[x]
    BY <1>0, <2>2, <2>3 DEF DecoyTypes
  <2>9. DecoyTypes'
    BY <1>0, <2>3, <2>6, <2>7, <2>8 DEF DecoyTypes
  <2>10. d \in Elements(PlantList) /\ (d \notin disturbed[c] => at[u][d] = "ours")
    BY <1>0, <1>2, <1>4, <1>l, <2>1, <2>3 DEF InHand
  <2>11. Listed(c)'
    <3>1. armed'[c] \subseteq claimed'[c]
      BY <1>0, <2>8 DEF Listed
    <3>2. ASSUME NEW e \in claimed'[c] \ disturbed[c]
          PROVE  /\ e \in Elements(PlantList) /\ at[u][e] = "ours"
                 /\ e \in armed'[c] => watched'[u][e]
      <4>1. CASE e \in claimed[c]
        <5>1. /\ e \in Elements(PlantList) /\ at[u][e] = "ours" /\ e \in AllDecoys
              /\ e \in armed[c] => watched[u][e]
          BY <1>0, <1>2, <2>3, <3>2, <4>1 DEF Listed, DecoyTypes
        <5>2. e \in armed'[c] => e \in armed[c] \/ (e = d /\ took)
          BY <2>8
        <5> QED BY <2>7, <5>1, <5>2
      <4>2. CASE e \notin claimed[c]
        <5>1. e = d /\ e \notin armed[c]
          BY <1>0, <2>8, <4>2 DEF Listed
        <5>2. e \in armed'[c] => took
          BY <2>8, <5>1
        <5> QED BY <2>7, <2>10, <3>2, <5>1, <5>2
      <4> QED BY <4>1, <4>2
    <3> QED BY <1>2, <2>3, <2>6, <3>1, <3>2 DEF Listed, Alone
  <2>12. \A x \in Conns \ {c} : req[x].kind = "SetCanaries" => caller[x].user \in Users
    BY DEF ConnInv, RightsInv, NoRequest
  <2>13. DecoyInv'
    BY <2>3, <2>6, <2>7, <2>8, <2>9, <2>11, <2>12, DecoyKept
  <2> QED BY <1>0, <1>s, <1>l, <2>3, <2>6, <2>13
<1>12. CASE Unlink(c)
  <2>1. PICK d \in AllDecoys : d = Head(left[c])
    BY <1>4, <1>l, <1>12 DEF Unlink, Removing
  <2>2. pc[c] = "unlink" /\ ~req[c].on /\ UNCHANGED <<claimed, armed>>
    BY <1>12 DEF Unlink, Removing
  <2>3. CASE Untouched /\ UNCHANGED watched /\ NextDecoy(c, FALSE)
    BY <1>5, <1>l, <2>2, <2>3 DEF Untouched
  <2>4. ASSUME Put(u, d, "none", c), watched' = [watched EXCEPT ![u][d] = FALSE], NextDecoy(c, TRUE)
        PROVE  /\ ConnInv' /\ DecoyInv' /\ Alone(c) /\ OwnersFileStays
               /\ pc'[c] \in {"record", "reply"} \cup DecoyPlaces
               /\ pc[c] \in {"handle"} \cup DecoyPlaces
    <3>1. /\ ConnInv' /\ Alone(c) /\ pc'[c] \in {"look", "record", "reply"} /\ InHand(c)'
          /\ left' \in [Conns -> Seq(AllDecoys)] /\ \A x \in Conns \ {c} : left'[x] = left[x]
      BY <1>l, <2>2, <2>4, NextDecoyFacts
    <3>2. /\ at' \in [Users -> [AllDecoys -> {"none", "ours", "owner"}]]
          /\ \A v \in Users, e \in AllDecoys :
               at'[v][e] = IF v = u /\ e = d THEN "none" ELSE at[v][e]
          /\ disturbed' \in [Conns -> SUBSET AllDecoys]
          /\ \A x \in Conns :
               /\ disturbed[x] \subseteq disturbed'[x]
               /\ x # c /\ caller[x].user = u /\ req[x].kind = "SetCanaries" => d \in disturbed'[x]
      BY <1>0, <2>4, PutFacts
    <3>3. /\ watched' \in [Users -> [AllDecoys -> BOOLEAN]]
          /\ \A v \in Users, e \in AllDecoys : (v = u /\ e = d) \/ watched'[v][e] = watched[v][e]
      BY <1>0, <2>4 DEF DecoyTypes
    <3>4. DecoyTypes'
      BY <1>0, <2>2, <3>1, <3>2, <3>3 DEF DecoyTypes
    <3>5. Listed(c)'
      BY <1>0, <2>2, <3>1 DEF Listed, Alone
    <3>6. ASSUME NEW x \in Conns \ {c}, req[x].kind = "SetCanaries", NEW e \in AllDecoys \ disturbed'[x]
          PROVE  /\ at'[caller[x].user][e] = at[caller[x].user][e]
                 /\ watched'[caller[x].user][e] = watched[caller[x].user][e]
      <4>1. caller[x].user \in Users
        BY <3>6 DEF ConnInv, RightsInv, NoRequest
      <4>2. ~(caller[x].user = u /\ e = d)
        BY <3>2, <3>6
      <4> QED BY <3>2, <3>3, <3>6, <4>1, <4>2
    <3>7. DecoyInv'
      BY <2>2, <3>1, <3>2, <3>4, <3>5, <3>6, DecoyKept, SMTT(20)
    <3>8. OwnersFileStays
      <4> SUFFICES ASSUME NEW v \in Users, NEW e \in AllDecoys, NEW x \in Conns,
                          at[v][e] = "owner", at'[v][e] # "owner",
                          caller[x].user = v, pc'[x] # pc[x]
                   PROVE  e \in disturbed[x]
        BY DEF OwnersFileStays
      <4>1. x = c
        BY <3>1 DEF Alone
      <4>2. v = u /\ e = d
        BY <3>2
      <4> QED BY <1>0, <1>2, <2>1, <2>2, <4>1, <4>2 DEF InHand
    <3> QED BY <1>0, <1>l, <3>1, <3>7, <3>8
  <2> QED BY <1>2, <1>12, <2>1, <2>3, <2>4 DEF Unlink
<1> QED BY <1>3, <1>7, <1>8, <1>9, <1>10, <1>11, <1>12 DEF DecoysNext

-----------------------------------------------------------------------------
(* Caches.                                                                 *)

CacheTypes ==
    /\ cache \in [Roots -> SUBSET AllFiles] /\ linked \in SUBSET Roots
    /\ root \in [Roots -> {"dir", "beyond", "link", "absent"}]
    /\ named \in [Users -> SUBSET Roots]
    /\ judged \in [Conns -> SUBSET Roots] /\ roots \in [Conns -> SUBSET Roots]
    /\ mine \in [Conns -> SUBSET Roots] /\ held \in [Conns -> Roots \cup {NoRoot}]
    /\ listing \in [Conns -> SUBSET Entries] /\ measured \in [Conns -> 0..2]
    /\ tally \in [Conns -> Nat] /\ gone \in [Conns -> Nat] /\ misled \in [Conns -> Nat]

\* A root that is held is no link and is one of the request's; and a request
\* whose cache lay outside the profile at the check has rights to match.
Holding(c) ==
    /\ held[c] # NoRoot <=> pc[c] \in {"list", "empty", "dir"}
    /\ held[c] # NoRoot => root[held[c]] # "link" /\ held[c] \in mine[c]
    /\ pc[c] \in CachePlaces => roots[c] \subseteq mine[c]
    /\ pc[c] \in {"handle"} \cup CachePlaces /\ req[c].kind = "ClearCache" =>
          \A r \in judged[c] : r # caller[c].user => caller[c].elevated

\* The folder under a root.
InFolder(r) == Inside["dir"] \cap cache[r]

\* What a request has counted, and is about to count, has left or misled it;
\* what it has measured lies there still, or has left since.
Counting(c) ==
    /\ tally[c] <= gone[c] + misled[c]
    /\ pc[c] = "dir" =>
          tally[c] + measured[c] <= gone[c] + misled[c] + Cardinality(InFolder(held[c]))

\* Where a link is, there is no folder.
LinkedEmpty == \A r \in linked : InFolder(r) = {}

CacheInv == CacheTypes /\ elsewhere /\ LinkedEmpty /\ \A c \in Conns : Holding(c) /\ Counting(c)

\* No file leaves the roots of a request unnoticed.
Noticed(c) ==
    /\ gone'[c] \in Nat /\ gone'[c] >= gone[c]
    /\ \A r \in mine[c] : gone'[c] >= gone[c] + Cardinality(cache[r] \ cache'[r])

AllNoticed == \A c \in Conns : Noticed(c)

\* The notes a request has of its own are as they were.
NotesKept(x) ==
    /\ judged'[x] = judged[x] /\ roots'[x] = roots[x] /\ held'[x] = held[x]
    /\ measured'[x] = measured[x] /\ tally'[x] = tally[x] /\ mine'[x] = mine[x]
    /\ misled'[x] = misled[x] /\ listing'[x] = listing[x]

\* What the entries hold.
LEMMA InsideFacts ==
  /\ Entries = {"file", "dir", "link"} /\ Inside["file"] = {"f"} /\ Inside["dir"] = {"a", "b"}
  /\ AllFiles = {"f", "a", "b"} /\ IsFiniteSet(AllFiles)
  /\ IsFiniteSet({"a", "b"}) /\ Cardinality({"a", "b"}) <= 2
<1>1. /\ Entries = {"file", "dir", "link"} /\ Inside["file"] = {"f"} /\ Inside["dir"] = {"a", "b"}
      /\ Inside["link"] = {}
  BY DEF Entries, Inside
<1>2. AllFiles = {"f", "a", "b"}
  <2>1. \A x \in AllFiles : x \in {"f", "a", "b"}
    BY <1>1 DEF AllFiles
  <2>2. \A e \in Entries : Inside[e] \subseteq AllFiles
    BY DEF AllFiles
  <2> QED BY <1>1, <2>1, <2>2
<1>3. /\ IsFiniteSet({"f"}) /\ Cardinality({"f"}) = 1 /\ IsFiniteSet({"f"} \cup {"a"})
      /\ IsFiniteSet({"a"}) /\ Cardinality({"a"}) = 1
  BY FS_Singleton, FS_AddElement
<1>4. IsFiniteSet({"a"} \cup {"b"}) /\ Cardinality({"a"} \cup {"b"}) <= 2
  BY <1>3, FS_AddElement
<1>5. {"a"} \cup {"b"} = {"a", "b"} /\ ({"f"} \cup {"a"}) \cup {"b"} = {"f", "a", "b"}
  OBVIOUS
<1>6. IsFiniteSet(({"f"} \cup {"a"}) \cup {"b"})
  BY <1>3, FS_AddElement
<1> QED BY <1>1, <1>2, <1>3, <1>4, <1>5, <1>6

\* How many files there may be.
LEMMA FilesCard ==
  /\ \A S \in SUBSET AllFiles : IsFiniteSet(S) /\ Cardinality(S) \in Nat
  /\ \A S \in SUBSET Inside["dir"] : Cardinality(S) \in 0..2
  /\ Cardinality({}) = 0
<1>1. \A S \in SUBSET AllFiles : IsFiniteSet(S) /\ Cardinality(S) \in Nat
  BY InsideFacts, FS_Subset, FS_CardinalityType
<1>2. ASSUME NEW S \in SUBSET Inside["dir"] PROVE Cardinality(S) \in 0..2
  <2>1. Cardinality(S) <= Cardinality({"a", "b"}) /\ Cardinality(S) \in Nat
        /\ Cardinality({"a", "b"}) \in Nat /\ Cardinality({"a", "b"}) <= 2
    BY InsideFacts, FS_Subset, FS_CardinalityType
  <2> QED BY <2>1
<1> QED BY <1>1, <1>2, FS_EmptySet

\* What stays of a folder, and what goes of it, are all of it.
LEMMA FolderParts ==
  ASSUME NEW S \in SUBSET AllFiles, NEW T \in SUBSET AllFiles
  PROVE  Cardinality(S) <= Cardinality(S \cap T) + Cardinality(S \ T)
<1>1. IsFiniteSet(S) /\ IsFiniteSet(S \cap T) /\ S \ T \in SUBSET AllFiles
      /\ Cardinality(S) \in Nat /\ Cardinality(S \cap T) \in Nat
  BY FilesCard
<1>2. Cardinality(S \ T) = Cardinality(S) - Cardinality(S \cap T)
  BY <1>1, FS_Difference
<1> QED BY <1>1, <1>2

\* A connection whose own notes are left alone, whatever happens to the files.
LEMMA CacheKept ==
  ASSUME CacheInv, CacheTypes', NEW x \in Conns, Noticed(x), NotesKept(x),
         pc'[x] = pc[x], req'[x] = req[x], caller'[x] = caller[x],
         held[x] # NoRoot => root'[held[x]] = root[held[x]]
  PROVE  Holding(x)' /\ Counting(x)'
<1>1. Holding(x) /\ Counting(x) /\ CacheTypes
  BY DEF CacheInv
<1>2. Holding(x)'
  BY <1>1 DEF Holding, NotesKept
<1>3. /\ gone[x] \in Nat /\ gone'[x] \in Nat /\ misled[x] \in Nat /\ tally[x] \in Nat
      /\ measured[x] \in Nat /\ gone'[x] >= gone[x]
  <2>1. measured[x] \in 0..2 /\ gone[x] \in Nat /\ misled[x] \in Nat /\ tally[x] \in Nat
    BY <1>1 DEF CacheTypes
  <2> QED BY <2>1 DEF Noticed
<1>4. tally'[x] <= gone'[x] + misled'[x]
  BY <1>1, <1>3 DEF Counting, NotesKept
<1>5. ASSUME pc[x] = "dir"
      PROVE  tally[x] + measured[x] <= gone'[x] + misled[x] + Cardinality(InFolder(held[x])')
  <2>1. held[x] # NoRoot /\ held[x] \in mine[x] /\ held[x] \in Roots
    BY <1>1, <1>5 DEF Holding, CacheTypes
  <2> DEFINE S == InFolder(held[x])
             T == cache'[held[x]]
  <2>2. S \in SUBSET AllFiles /\ T \in SUBSET AllFiles /\ cache[held[x]] \in SUBSET AllFiles
    BY <1>1, <2>1 DEF CacheTypes, InFolder
  <2>3. Cardinality(S) <= Cardinality(S \cap T) + Cardinality(S \ T)
    BY <2>2, FolderParts
  <2>4. S \cap T \subseteq InFolder(held[x])' /\ InFolder(held[x])' \in SUBSET AllFiles
    <3>1. held'[x] = held[x]
      BY DEF NotesKept
    <3> QED BY <2>2, <3>1 DEF InFolder
  <2>5. /\ Cardinality(S \cap T) \in Nat /\ IsFiniteSet(InFolder(held[x])')
        /\ Cardinality(InFolder(held[x])') \in Nat /\ Cardinality(S) \in Nat
    BY <2>2, <2>4, FilesCard
  <2>6. Cardinality(S \cap T) <= Cardinality(InFolder(held[x])')
    BY <2>4, <2>5, FS_Subset
  <2>7. /\ S \ T \subseteq cache[held[x]] \ cache'[held[x]]
        /\ Cardinality(S \ T) \in Nat /\ Cardinality(cache[held[x]] \ cache'[held[x]]) \in Nat
        /\ Cardinality(S \ T) <= Cardinality(cache[held[x]] \ cache'[held[x]])
    <3>1. S \ T \subseteq cache[held[x]] \ cache'[held[x]]
      BY DEF InFolder
    <3>2. S \ T \in SUBSET AllFiles /\ cache[held[x]] \ cache'[held[x]] \in SUBSET AllFiles
      BY <2>2
    <3>3. IsFiniteSet(cache[held[x]] \ cache'[held[x]])
      BY <3>2, FilesCard
    <3> QED BY <3>1, <3>2, <3>3, FilesCard, FS_Subset
  <2>8. gone'[x] >= gone[x] + Cardinality(cache[held[x]] \ cache'[held[x]])
    BY <2>1 DEF Noticed
  <2>9. tally[x] + measured[x] <= gone[x] + misled[x] + Cardinality(S)
    BY <1>1, <1>5 DEF Counting
  <2> HIDE DEF S, T
  <2> QED BY <1>3, <2>3, <2>5, <2>6, <2>7, <2>8, <2>9
<1>6. Counting(x)'
  BY <1>4, <1>5 DEF Counting, NotesKept, InFolder
<1> QED BY <1>2, <1>6

\* A step of one connection that leaves the others' notes and all roots alone.
LEMMA CacheOthers ==
  ASSUME CacheInv, CacheTypes', AllNoticed, NEW c \in Conns, Alone(c), root' = root, elsewhere',
         LinkedEmpty', \A x \in Conns \ {c} : NotesKept(x),
         Holding(c)', Counting(c)'
  PROVE  CacheInv'
<1> SUFFICES ASSUME NEW x \in Conns \ {c} PROVE Holding(x)' /\ Counting(x)'
  BY DEF CacheInv
<1>1. /\ pc'[x] = pc[x] /\ req'[x] = req[x] /\ caller'[x] = caller[x] /\ NotesKept(x)
      /\ Noticed(x)
  BY DEF Alone, AllNoticed
<1> QED BY <1>1, CacheKept

\* Where nothing has gone, nothing need be noticed.
LEMMA NoneGone ==
  ASSUME NEW S, S = {}, NEW m \in Nat, NEW n \in Nat, n >= m
  PROVE  n >= m + Cardinality(S)
<1>1. Cardinality(S) = 0
  BY FilesCard
<1> QED BY <1>1

\* Nothing is lost where nothing happens.
LEMMA NothingLeaves ==
  ASSUME CacheTypes, UNCHANGED <<cache, gone>>
  PROVE  AllNoticed
<1> SUFFICES ASSUME NEW c \in Conns, NEW r \in mine[c]
             PROVE  gone'[c] >= gone[c] + Cardinality(cache[r] \ cache'[r])
  BY DEF AllNoticed, Noticed, CacheTypes
<1>1. cache[r] \ cache'[r] = {} /\ gone[c] \in Nat /\ gone'[c] \in Nat /\ gone'[c] >= gone[c]
  BY DEF CacheTypes
<1> QED BY <1>1, NoneGone

\* What leaves a root is noticed by those whose root it is.
LEMMA LeaveNoticed ==
  ASSUME CacheTypes, NEW r \in Roots, NEW files \in SUBSET cache[r], Leave(r, files)
  PROVE  /\ AllNoticed /\ gone' \in [Conns -> Nat] /\ cache' \in [Roots -> SUBSET AllFiles]
         /\ cache'[r] = cache[r] \ files /\ \A q \in Roots : cache'[q] \subseteq cache[q]
         /\ \A c \in Conns : r \in mine[c] => gone'[c] = gone[c] + Cardinality(files)
<1>1. /\ cache' = [cache EXCEPT ![r] = cache[r] \ files]
      /\ gone' = [c \in Conns |-> IF r \in mine[c] THEN gone[c] + Cardinality(files) ELSE gone[c]]
  BY DEF Leave
<1>2. /\ cache \in [Roots -> SUBSET AllFiles] /\ gone \in [Conns -> Nat]
      /\ mine \in [Conns -> SUBSET Roots]
  BY DEF CacheTypes
<1>3. files \in SUBSET AllFiles /\ Cardinality(files) \in Nat
  BY <1>2, FilesCard
<1>4. /\ gone' \in [Conns -> Nat] /\ cache' \in [Roots -> SUBSET AllFiles]
      /\ cache'[r] = cache[r] \ files /\ \A q \in Roots \ {r} : cache'[q] = cache[q]
  BY <1>1, <1>2, <1>3
<1>5. ASSUME NEW c \in Conns
      PROVE  /\ gone'[c] \in Nat /\ gone'[c] >= gone[c]
             /\ r \in mine[c] => gone'[c] = gone[c] + Cardinality(files)
             /\ \A q \in mine[c] : gone'[c] >= gone[c] + Cardinality(cache[q] \ cache'[q])
  <2>1. /\ gone'[c] \in Nat /\ gone[c] \in Nat /\ gone'[c] >= gone[c]
        /\ r \in mine[c] => gone'[c] = gone[c] + Cardinality(files)
    BY <1>1, <1>2, <1>3
  <2>2. ASSUME NEW q \in mine[c] PROVE gone'[c] >= gone[c] + Cardinality(cache[q] \ cache'[q])
    <3>1. CASE q = r
      <4>1. cache[q] \ cache'[q] = files
        BY <1>4, <3>1
      <4>2. Cardinality(cache[q] \ cache'[q]) = Cardinality(files)
        BY <4>1
      <4>3. gone'[c] = gone[c] + Cardinality(files)
        BY <2>1, <3>1
      <4> QED BY <1>3, <2>1, <4>2, <4>3
    <3>2. CASE q # r
      <4>1. q \in Roots /\ cache[q] \ cache'[q] = {}
        BY <1>2, <1>4, <3>2
      <4> QED BY <2>1, <4>1, NoneGone
    <3> QED BY <3>1, <3>2
  <2> QED BY <2>1, <2>2
<1> QED BY <1>4, <1>5 DEF AllNoticed, Noticed

\* Steps that have nothing to do with caches leave them alone.
LEMMA CacheFrame ==
  ASSUME CacheInv, NEW c \in Conns, Alone(c), UNCHANGED cacheVars,
         pc[c] \notin CachePlaces, pc'[c] \notin CachePlaces \cup {"handle"}
  PROVE  CacheInv'
<1>1. /\ CacheTypes /\ elsewhere /\ LinkedEmpty /\ Holding(c) /\ Counting(c)
      /\ UNCHANGED <<cache, linked, root, named, judged, roots, held, listing, measured, tally, mine,
                     gone, misled>>
      /\ elsewhere' = elsewhere
  BY DEF CacheInv, cacheVars
<1>2. CacheTypes' /\ elsewhere' /\ LinkedEmpty'
  BY <1>1 DEF CacheTypes, LinkedEmpty, InFolder
<1>3. Holding(c)'
  BY <1>1 DEF Holding, CachePlaces
<1>4. Counting(c)'
  BY <1>1 DEF Counting, CachePlaces
<1>5. AllNoticed /\ root' = root /\ \A x \in Conns \ {c} : NotesKept(x)
  BY <1>1, NothingLeaves DEF NotesKept
<1> QED BY <1>2, <1>3, <1>4, <1>5, CacheOthers

\* A clear goes on to its next step.
LEMMA CachePlaceStep ==
  ASSUME ConnInv, NEW c \in Conns, NEW changed \in BOOLEAN, NEW where \in CachePlaces,
         Onward(c, changed, where), pc[c] \in HandlerPlaces,
         req[c].kind = "ClearCache", req[c].id \in DOMAIN Catalogue
  PROVE  ConnInv' /\ Alone(c) /\ pc'[c] = where
<1>1. where \in HandlerPlaces \ {"handle"} /\ where # "remove" /\ Fits(where, req[c])
  BY DEF HandlerPlaces, DecoyPlaces, CachePlaces, Fits
<1> QED BY <1>1, OnwardConn, StepFrame

\* What is known of a clear that is under way.
LEMMA ClearFacts ==
  ASSUME ConnInv, CacheInv, NEW c \in Conns, pc[c] \in CachePlaces
  PROVE  /\ CacheTypes /\ elsewhere /\ LinkedEmpty /\ Holding(c) /\ Counting(c)
         /\ pc[c] \in HandlerPlaces /\ req[c].kind = "ClearCache" /\ req[c].id \in DOMAIN Catalogue
         /\ {"root", "list", "empty", "dir"} \subseteq CachePlaces
         /\ roots[c] \subseteq mine[c]
         /\ pc[c] # "root" => /\ held[c] \in Roots /\ held[c] # NoRoot /\ root[held[c]] # "link"
                              /\ held[c] \in mine[c]
         /\ pc[c] = "root" => held[c] = NoRoot
         /\ \A r \in judged[c] \ {caller[c].user} : caller[c].trusted /\ caller[c].elevated
<1>1. CacheTypes /\ elsewhere /\ LinkedEmpty /\ Holding(c) /\ Counting(c)
  BY DEF CacheInv
<1>2. /\ pc[c] \in HandlerPlaces /\ req[c].kind = "ClearCache" /\ req[c].id \in DOMAIN Catalogue
      /\ {"root", "list", "empty", "dir"} \subseteq CachePlaces /\ caller[c].trusted
  BY DEF ConnInv, RightsInv, Fits, HandlerPlaces, CachePlaces
<1>3. /\ pc[c] # "root" => held[c] # NoRoot
      /\ pc[c] = "root" => held[c] = NoRoot
      /\ roots[c] \subseteq mine[c]
  BY <1>1 DEF Holding, CachePlaces
<1>4. pc[c] # "root" => held[c] \in Roots /\ root[held[c]] # "link" /\ held[c] \in mine[c]
  BY <1>1, <1>3 DEF Holding, CacheTypes
<1>5. \A r \in judged[c] \ {caller[c].user} : caller[c].elevated
  BY <1>1, <1>2 DEF Holding
<1> QED BY <1>1, <1>2, <1>3, <1>4, <1>5

\* What every step of a clear does, apart from the files.
ClearGoes(c) ==
    /\ ConnInv' /\ CacheInv' /\ Alone(c) /\ pc'[c] \in {"record", "reply"} \cup CachePlaces
    /\ \A x \in Conns \ {c} : listing'[x] = listing[x]
    /\ elsewhere' \in BOOLEAN

\* A step of a clear that is under way and keeps to its roots.
LEMMA CacheOnward ==
  ASSUME ConnInv, CacheInv, CacheTypes', AllNoticed, LinkedEmpty', NEW c \in Conns,
         pc[c] \in CachePlaces, NEW where \in CachePlaces, NEW changed \in BOOLEAN,
         Onward(c, changed, where), root' = root, elsewhere' = TRUE,
         UNCHANGED <<judged, mine>>, \A x \in Conns \ {c} : NotesKept(x),
         roots'[c] \subseteq roots[c],
         held'[c] # NoRoot <=> where \in {"list", "empty", "dir"},
         held'[c] # NoRoot => root[held'[c]] # "link" /\ held'[c] \in mine[c],
         tally'[c] <= gone'[c] + misled'[c],
         where = "dir" => tally'[c] + measured'[c] <= gone'[c] + misled'[c] + Cardinality(InFolder(held[c])'),
         where = "dir" => held'[c] = held[c]
  PROVE  ClearGoes(c)
<1>1. /\ CacheTypes /\ Holding(c) /\ pc[c] \in HandlerPlaces
      /\ req[c].kind = "ClearCache" /\ req[c].id \in DOMAIN Catalogue /\ roots[c] \subseteq mine[c]
      /\ \A r \in judged[c] \ {caller[c].user} : caller[c].elevated
  BY ClearFacts
<1>2. ConnInv' /\ Alone(c) /\ pc'[c] = where
  BY <1>1, CachePlaceStep
<1>3. Holding(c)'
  BY <1>1, <1>2 DEF Holding, Alone
<1>4. Counting(c)'
  BY <1>2 DEF Counting, InFolder
<1>5. CacheInv'
  BY <1>2, <1>3, <1>4, CacheOthers
<1>6. \A x \in Conns \ {c} : listing'[x] = listing[x]
  BY DEF NotesKept
<1> QED BY <1>2, <1>5, <1>6 DEF ClearGoes

\* The same of a step that touches no files and counts none.
LEMMA CacheQuiet ==
  ASSUME ConnInv, CacheInv, CacheTypes', NEW c \in Conns,
         pc[c] \in CachePlaces, NEW where \in CachePlaces \ {"dir"}, NEW changed \in BOOLEAN,
         Onward(c, changed, where), UNCHANGED <<cache, gone, root, judged, mine, tally, misled, measured>>,
         linked' \subseteq linked, elsewhere' = TRUE,
         \A x \in Conns \ {c} : roots'[x] = roots[x] /\ held'[x] = held[x] /\ listing'[x] = listing[x],
         roots'[c] \subseteq roots[c],
         held'[c] # NoRoot <=> where \in {"list", "empty", "dir"},
         held'[c] # NoRoot => root[held'[c]] # "link" /\ held'[c] \in mine[c]
  PROVE  ClearGoes(c)
<1>1. CacheTypes /\ LinkedEmpty /\ Counting(c)
  BY DEF CacheInv
<1>2. AllNoticed /\ LinkedEmpty'
  BY <1>1, NothingLeaves DEF LinkedEmpty, InFolder
<1>3. \A x \in Conns \ {c} : NotesKept(x)
  BY DEF NotesKept
<1>4. tally'[c] <= gone'[c] + misled'[c]
  BY <1>1 DEF Counting
<1> QED BY <1>2, <1>3, <1>4, CacheOnward

\* A root is taken in hand, or passed over.
LEMMA HoldRootStep ==
  ASSUME ConnInv, CacheInv, NEW c \in Conns, HoldRoot(c)
  PROVE  ClearGoes(c)
<1>0. /\ pc[c] = "root" /\ pc[c] \in CachePlaces
      /\ UNCHANGED <<cache, linked, root, named, judged, listing, measured, tally, mine, gone, misled>>
      /\ elsewhere' = elsewhere
  BY DEF HoldRoot, CachePlaces
<1>1. PICK r \in roots[c] :
         /\ roots' = [roots EXCEPT ![c] = roots[c] \ {r}]
         /\ \/ root[r] # "link" /\ held' = [held EXCEPT ![c] = r] /\ Onward(c, FALSE, "list")
            \/ held' = held /\ Onward(c, FALSE, "root")
  BY DEF HoldRoot, MayHold
<1>2. /\ CacheTypes /\ elsewhere /\ held[c] = NoRoot /\ r \in Roots /\ r # NoRoot /\ r \in mine[c]
  <2>1. CacheTypes /\ elsewhere /\ held[c] = NoRoot /\ roots[c] \subseteq mine[c]
    BY <1>0, ClearFacts
  <2>2. r \in Roots /\ r \in mine[c]
    BY <2>1 DEF CacheTypes
  <2>3. r # NoRoot
    BY <2>2, CacheAssumption DEF Roots, NoRoot
  <2> QED BY <2>1, <2>2, <2>3
<1>3. PICK where \in {"list", "root"} :
         /\ Onward(c, FALSE, where)
         /\ \/ where = "list" /\ root[r] # "link" /\ held' = [held EXCEPT ![c] = r]
            \/ where = "root" /\ held' = held
  BY <1>1
<1>4. /\ roots' \in [Conns -> SUBSET Roots] /\ held' \in [Conns -> Roots \cup {NoRoot}]
      /\ roots'[c] = roots[c] \ {r} /\ held'[c] = (IF where = "list" THEN r ELSE NoRoot)
      /\ \A x \in Conns \ {c} : roots'[x] = roots[x] /\ held'[x] = held[x] /\ listing'[x] = listing[x]
  BY <1>0, <1>1, <1>2, <1>3 DEF CacheTypes
<1>5. CacheTypes'
  BY <1>0, <1>2, <1>4 DEF CacheTypes
<1>6. where \in CachePlaces \ {"dir"} /\ FALSE \in BOOLEAN
  BY DEF CachePlaces
<1> QED BY <1>0, <1>2, <1>3, <1>4, <1>5, <1>6, CacheQuiet

\* Its entries are listed, or it is let go.
LEMMA ListRootStep ==
  ASSUME ConnInv, CacheInv, NEW c \in Conns, ListRoot(c)
  PROVE  ClearGoes(c)
<1>0. /\ pc[c] = "list" /\ pc[c] \in CachePlaces
      /\ UNCHANGED <<cache, linked, root, named, judged, roots, measured, tally, mine, gone, misled>>
  BY DEF ListRoot, CachePlaces
<1>1. /\ CacheTypes /\ elsewhere = TRUE /\ held[c] # NoRoot /\ root[held[c]] # "link"
      /\ held[c] \in Roots /\ held[c] \in mine[c]
  <2>1. elsewhere \in BOOLEAN /\ elsewhere
    BY <1>0, ClearFacts DEF CacheInv
  <2> QED BY <1>0, <2>1, ClearFacts
<1>2. PICK where \in {"empty", "root"} :
         /\ Onward(c, FALSE, where)
         /\ \/ /\ where = "empty" /\ held' = held
               /\ listing' = [listing EXCEPT ![c] = WhatIsThere(held[c])]
               /\ elsewhere' = (elsewhere /\ root[held[c]] # "link")
            \/ /\ where = "root" /\ held' = [held EXCEPT ![c] = NoRoot] /\ listing' = listing
               /\ elsewhere' = elsewhere
  BY DEF ListRoot
<1>3. elsewhere' = TRUE
  BY <1>1, <1>2
<1>4. WhatIsThere(held[c]) \subseteq Entries
  BY DEF WhatIsThere, Entries
<1>5. /\ listing' \in [Conns -> SUBSET Entries] /\ held' \in [Conns -> Roots \cup {NoRoot}]
      /\ held'[c] = (IF where = "empty" THEN held[c] ELSE NoRoot)
      /\ \A x \in Conns \ {c} : roots'[x] = roots[x] /\ listing'[x] = listing[x] /\ held'[x] = held[x]
  <2>1. CASE where = "empty"
    BY <1>0, <1>1, <1>2, <1>4, <2>1 DEF CacheTypes
  <2>2. CASE where = "root"
    BY <1>0, <1>1, <1>2, <2>2 DEF CacheTypes
  <2> QED BY <2>1, <2>2
<1>6. CacheTypes'
  BY <1>0, <1>1, <1>5 DEF CacheTypes
<1>7. where \in CachePlaces \ {"dir"} /\ FALSE \in BOOLEAN /\ linked' \subseteq linked
      /\ roots'[c] \subseteq roots[c]
  BY <1>0 DEF CachePlaces
<1>8. /\ held'[c] # NoRoot <=> where \in {"list", "empty", "dir"}
      /\ held'[c] # NoRoot => root[held'[c]] # "link" /\ held'[c] \in mine[c]
  BY <1>1, <1>5
<1> QED BY <1>0, <1>2, <1>3, <1>5, <1>6, <1>7, <1>8, CacheQuiet

\* A link among the entries goes, or stays.
LEMMA RemoveLinkStep ==
  ASSUME ConnInv, CacheInv, NEW c \in Conns, RemoveLink(c)
  PROVE  ClearGoes(c)
<1>0. /\ pc[c] = "empty" /\ pc[c] \in CachePlaces
      /\ UNCHANGED <<cache, root, named, judged, roots, held, measured, tally, mine, gone, misled>>
      /\ elsewhere' = elsewhere /\ linked' \in {linked, linked \ {held[c]}}
      /\ listing' = [listing EXCEPT ![c] = listing[c] \ {"link"}]
  BY DEF RemoveLink, CachePlaces
<1>1. /\ CacheTypes /\ elsewhere = TRUE /\ held[c] # NoRoot /\ root[held[c]] # "link"
      /\ held[c] \in mine[c]
  <2>1. elsewhere \in BOOLEAN /\ elsewhere
    BY <1>0, ClearFacts DEF CacheInv
  <2> QED BY <1>0, <2>1, ClearFacts
<1>2. PICK changed \in BOOLEAN : Onward(c, changed, "empty")
  <2>1. (linked' # linked) \in BOOLEAN
    OBVIOUS
  <2> QED BY <2>1 DEF RemoveLink
<1>3. /\ listing' \in [Conns -> SUBSET Entries] /\ linked' \subseteq linked
      /\ \A x \in Conns \ {c} : listing'[x] = listing[x]
  BY <1>0, <1>1 DEF CacheTypes
<1>4. CacheTypes'
  BY <1>0, <1>1, <1>3 DEF CacheTypes
<1>5. "empty" \in CachePlaces \ {"dir"}
  BY DEF CachePlaces
<1> QED BY <1>0, <1>1, <1>2, <1>3, <1>4, <1>5, CacheQuiet

\* The walk of a root is over.
LEMMA DropRootStep ==
  ASSUME ConnInv, CacheInv, NEW c \in Conns, DropRoot(c)
  PROVE  ClearGoes(c)
<1>0. /\ pc[c] = "empty" /\ pc[c] \in CachePlaces /\ Onward(c, FALSE, "root")
      /\ held' = [held EXCEPT ![c] = NoRoot]
      /\ UNCHANGED <<cache, linked, root, named, judged, roots, listing, measured, tally, mine, gone,
                     misled>>
      /\ elsewhere' = elsewhere
  BY DEF DropRoot, CachePlaces
<1>1. CacheTypes /\ elsewhere = TRUE
  <2>1. elsewhere \in BOOLEAN /\ elsewhere
    BY <1>0, ClearFacts DEF CacheInv
  <2> QED BY <1>0, <2>1, ClearFacts
<1>2. "root" \in CachePlaces \ {"dir"} /\ FALSE \in BOOLEAN /\ linked' \subseteq linked
  BY <1>0 DEF CachePlaces
<1>3. /\ held' \in [Conns -> Roots \cup {NoRoot}] /\ held'[c] = NoRoot
      /\ \A x \in Conns \ {c} : roots'[x] = roots[x] /\ held'[x] = held[x] /\ listing'[x] = listing[x]
  BY <1>0, <1>1 DEF CacheTypes
<1>4. CacheTypes'
  BY <1>0, <1>1, <1>3 DEF CacheTypes
<1> QED BY <1>0, <1>1, <1>2, <1>3, <1>4, CacheQuiet

\* A folder is measured, or what a link that is there by now leads to.
LEMMA MeasureDirStep ==
  ASSUME ConnInv, CacheInv, NEW c \in Conns, MeasureDir(c)
  PROVE  ClearGoes(c)
<1>0. /\ pc[c] = "empty" /\ pc[c] \in CachePlaces /\ Onward(c, FALSE, "dir")
      /\ UNCHANGED <<cache, linked, root, named, judged, roots, held, listing, tally, mine, gone>>
      /\ elsewhere' = elsewhere
  BY DEF MeasureDir, CachePlaces
<1>1. /\ CacheTypes /\ elsewhere = TRUE /\ LinkedEmpty /\ held[c] # NoRoot /\ root[held[c]] # "link"
      /\ held[c] \in Roots /\ held[c] \in mine[c] /\ tally[c] <= gone[c] + misled[c]
  <2>1. elsewhere \in BOOLEAN /\ elsewhere
    BY <1>0, ClearFacts DEF CacheInv
  <2> QED BY <1>0, <2>1, ClearFacts DEF Counting
<1>2. /\ tally[c] \in Nat /\ gone[c] \in Nat /\ misled[c] \in Nat
      /\ InFolder(held[c]) \subseteq Inside["dir"] /\ Cardinality(InFolder(held[c])) \in 0..2
  <2>1. InFolder(held[c]) \subseteq Inside["dir"]
    BY DEF InFolder
  <2> QED BY <1>1, <2>1, FilesCard DEF CacheTypes
<1>3. PICK m \in 0..2, more \in Nat :
         /\ measured' = [measured EXCEPT ![c] = m] /\ misled' = [misled EXCEPT ![c] = misled[c] + more]
         /\ m <= more + Cardinality(InFolder(held[c]))
  <2>1. CASE held[c] \in linked
    <3>1. PICK behind \in 0..2 :
             /\ measured' = [measured EXCEPT ![c] = behind]
             /\ misled' = [misled EXCEPT ![c] = misled[c] + behind]
      BY <2>1 DEF MeasureDir
    <3>2. behind \in Nat /\ behind <= behind + Cardinality(InFolder(held[c]))
      BY <1>2
    <3> QED BY <3>1, <3>2
  <2>2. CASE held[c] \notin linked
    <3>1. measured' = [measured EXCEPT ![c] = Cardinality(InFolder(held[c]))] /\ misled' = misled
      BY <2>2 DEF MeasureDir, InFolder
    <3>2. PICK zero \in Nat : zero = 0
      OBVIOUS
    <3>3. misled' = [misled EXCEPT ![c] = misled[c] + zero]
      BY <1>1, <3>1, <3>2 DEF CacheTypes
    <3>4. Cardinality(InFolder(held[c])) <= zero + Cardinality(InFolder(held[c]))
      BY <1>2, <3>2
    <3> QED BY <1>2, <3>1, <3>2, <3>3, <3>4
  <2> QED BY <2>1, <2>2
<1>4. /\ measured' \in [Conns -> 0..2] /\ misled' \in [Conns -> Nat]
      /\ measured'[c] = m /\ misled'[c] = misled[c] + more
      /\ \A x \in Conns \ {c} : measured'[x] = measured[x] /\ misled'[x] = misled[x]
  <2>1. misled[c] + more \in Nat
    BY <1>2
  <2> QED BY <1>1, <1>3, <2>1 DEF CacheTypes
<1>5. CacheTypes'
  BY <1>0, <1>1, <1>4 DEF CacheTypes
<1>6. AllNoticed /\ LinkedEmpty' /\ InFolder(held[c])' = InFolder(held[c])
  BY <1>0, <1>1, NothingLeaves DEF LinkedEmpty, InFolder
<1>7. \A x \in Conns \ {c} : NotesKept(x)
  BY <1>0, <1>4 DEF NotesKept
<1>8. /\ tally'[c] <= gone'[c] + misled'[c]
      /\ tally'[c] + measured'[c] <= gone'[c] + misled'[c] + Cardinality(InFolder(held[c])')
  BY <1>0, <1>1, <1>2, <1>3, <1>4, <1>6
<1>9. "dir" \in CachePlaces /\ FALSE \in BOOLEAN
  BY DEF CachePlaces
<1> QED BY <1>0, <1>1, <1>5, <1>6, <1>7, <1>8, <1>9, CacheOnward

\* What a clear takes from the root it holds is counted at most once.
LEMMA RemovalStep ==
  ASSUME ConnInv, CacheInv, NEW c \in Conns, pc[c] \in {"empty", "dir"},
         NEW taken \in SUBSET cache[held[c]], Leave(held[c], taken),
         NEW n \in Nat, NEW more \in Nat, NEW changed \in BOOLEAN, Onward(c, changed, "empty"),
         tally[c] + n <= gone[c] + Cardinality(taken) + misled[c] + more,
         tally' = [tally EXCEPT ![c] = tally[c] + n],
         misled' = [misled EXCEPT ![c] = misled[c] + more],
         NEW e, listing' = [listing EXCEPT ![c] = listing[c] \ {e}],
         NEW m \in 0..2, measured' = [measured EXCEPT ![c] = m],
         UNCHANGED <<linked, root, named, judged, roots, held, mine>>, elsewhere' = elsewhere
  PROVE  ClearGoes(c)
<1>0. pc[c] \in CachePlaces /\ "empty" \in CachePlaces
  BY DEF CachePlaces
<1>1. /\ CacheTypes /\ elsewhere = TRUE /\ LinkedEmpty /\ held[c] # NoRoot /\ root[held[c]] # "link"
      /\ held[c] \in Roots /\ held[c] \in mine[c]
  <2>1. elsewhere \in BOOLEAN /\ elsewhere
    BY <1>0, ClearFacts DEF CacheInv
  <2> QED BY <1>0, <2>1, ClearFacts
<1>2. /\ AllNoticed /\ gone' \in [Conns -> Nat] /\ cache' \in [Roots -> SUBSET AllFiles]
      /\ \A q \in Roots : cache'[q] \subseteq cache[q]
      /\ gone'[c] = gone[c] + Cardinality(taken)
  BY <1>1, LeaveNoticed
<1>3. /\ tally[c] \in Nat /\ gone[c] \in Nat /\ misled[c] \in Nat /\ Cardinality(taken) \in Nat
  <2>1. taken \in SUBSET AllFiles
    BY <1>1 DEF CacheTypes
  <2> QED BY <1>1, <2>1, FilesCard DEF CacheTypes
<1>4. /\ tally' \in [Conns -> Nat] /\ tally'[c] = tally[c] + n
      /\ misled' \in [Conns -> Nat] /\ misled'[c] = misled[c] + more
      /\ listing' \in [Conns -> SUBSET Entries] /\ measured' \in [Conns -> 0..2]
      /\ \A x \in Conns \ {c} : /\ tally'[x] = tally[x] /\ misled'[x] = misled[x]
                                /\ listing'[x] = listing[x] /\ measured'[x] = measured[x]
  <2>1. tally[c] + n \in Nat /\ misled[c] + more \in Nat
    BY <1>3
  <2> QED BY <1>1, <2>1 DEF CacheTypes
<1>5. CacheTypes'
  BY <1>1, <1>2, <1>4 DEF CacheTypes
<1>6. LinkedEmpty'
  BY <1>1, <1>2 DEF LinkedEmpty, InFolder, CacheTypes
<1>7. \A x \in Conns \ {c} : NotesKept(x)
  BY <1>4 DEF NotesKept
<1>8. tally'[c] <= gone'[c] + misled'[c]
  BY <1>2, <1>3, <1>4
<1> QED BY <1>0, <1>1, <1>2, <1>5, <1>6, <1>7, <1>8, CacheOnward

\* A plain file goes and is one more, or stays.
LEMMA RemoveFileStep ==
  ASSUME ConnInv, CacheInv, NEW c \in Conns, RemoveFile(c)
  PROVE  ClearGoes(c)
<1>0. /\ pc[c] = "empty" /\ pc[c] \in CachePlaces
      /\ listing' = [listing EXCEPT ![c] = listing[c] \ {"file"}]
      /\ UNCHANGED <<linked, root, named, judged, roots, held, measured, mine, misled>>
      /\ elsewhere' = elsewhere
  BY DEF RemoveFile, CachePlaces
<1>1. /\ CacheTypes /\ elsewhere = TRUE /\ held[c] # NoRoot /\ root[held[c]] # "link"
      /\ held[c] \in mine[c] /\ tally[c] <= gone[c] + misled[c]
      /\ tally[c] \in Nat /\ gone[c] \in Nat /\ misled[c] \in Nat
  <2>1. elsewhere \in BOOLEAN /\ elsewhere
    BY <1>0, ClearFacts DEF CacheInv
  <2> QED BY <1>0, <2>1, ClearFacts DEF Counting, CacheTypes
<1>2. CASE /\ "f" \in cache[held[c]] /\ Leave(held[c], {"f"})
           /\ tally' = [tally EXCEPT ![c] = tally[c] + 1] /\ Onward(c, TRUE, "empty")
  <2>1. PICK none \in Nat, one \in Nat : none = 0 /\ one = 1
    OBVIOUS
  <2>2. Cardinality({"f"}) = 1
    BY FS_Singleton
  <2>3. misled' = [misled EXCEPT ![c] = misled[c] + none] /\ tally' = [tally EXCEPT ![c] = tally[c] + one]
    BY <1>0, <1>1, <1>2, <2>1 DEF CacheTypes
  <2>4. PICK m \in 0..2 : measured' = [measured EXCEPT ![c] = m]
    <3>1. measured[c] \in 0..2 /\ measured' = [measured EXCEPT ![c] = measured[c]]
      BY <1>0, <1>1 DEF CacheTypes
    <3> QED BY <3>1
  <2>5. tally[c] + one <= gone[c] + Cardinality({"f"}) + misled[c] + none
    BY <1>1, <2>1, <2>2
  <2>6. {"f"} \in SUBSET cache[held[c]] /\ pc[c] \in {"empty", "dir"} /\ TRUE \in BOOLEAN
    BY <1>0, <1>2
  <2> QED BY <1>0, <1>2, <2>3, <2>4, <2>5, <2>6, RemovalStep
<1>3. CASE UNCHANGED <<cache, gone, tally>> /\ Onward(c, FALSE, "empty")
  <2>1. /\ listing' \in [Conns -> SUBSET Entries]
        /\ \A x \in Conns \ {c} : roots'[x] = roots[x] /\ held'[x] = held[x] /\ listing'[x] = listing[x]
    BY <1>0, <1>1 DEF CacheTypes
  <2>2. CacheTypes'
    BY <1>0, <1>1, <1>3, <2>1 DEF CacheTypes
  <2>3. "empty" \in CachePlaces \ {"dir"} /\ FALSE \in BOOLEAN
    BY DEF CachePlaces
  <2> QED BY <1>0, <1>1, <1>3, <2>1, <2>2, <2>3, CacheQuiet
<1> QED BY <1>2, <1>3 DEF RemoveFile

\* What is taken off never makes more of what was measured.
LEMMA LessFacts ==
  ASSUME NEW m \in Nat, NEW n \in Nat
  PROVE  Less(m, n) \in Nat /\ (Less(m, n) = 0 \/ Less(m, n) = m - n)
BY DEF Less

\* A folder: what was measured before less what is seen after is never more
\* than what has gone since or is not seen.
LEMMA RemoveDirStep ==
  ASSUME ConnInv, CacheInv, NEW c \in Conns, RemoveDir(c)
  PROVE  ClearGoes(c)
<1>0. /\ pc[c] = "dir" /\ pc[c] \in CachePlaces
      /\ listing' = [listing EXCEPT ![c] = listing[c] \ {"dir"}]
      /\ measured' = [measured EXCEPT ![c] = 0]
      /\ UNCHANGED <<root, named, judged, roots, held, mine>> /\ elsewhere' = elsewhere
  BY DEF RemoveDir, CachePlaces
<1>1. /\ CacheTypes /\ elsewhere = TRUE /\ LinkedEmpty /\ held[c] # NoRoot /\ root[held[c]] # "link"
      /\ held[c] \in mine[c] /\ held[c] \in Roots
      /\ tally[c] + measured[c] <= gone[c] + misled[c] + Cardinality(InFolder(held[c]))
      /\ tally[c] <= gone[c] + misled[c]
      /\ tally[c] \in Nat /\ gone[c] \in Nat /\ misled[c] \in Nat /\ measured[c] \in Nat
  <2>1. elsewhere \in BOOLEAN /\ elsewhere
    BY <1>0, ClearFacts DEF CacheInv
  <2> QED BY <1>0, <2>1, ClearFacts DEF Counting, CacheTypes
<1>2. CASE RemoveFolder(c, held[c])
  <2>0. PICK stays \in SUBSET InFolder(held[c]) : \E seen \in SUBSET stays :
           /\ Leave(held[c], InFolder(held[c]) \ stays)
           /\ tally' = [tally EXCEPT ![c] = tally[c] + Less(measured[c], Cardinality(seen))]
           /\ misled' = [misled EXCEPT ![c] = misled[c] + Cardinality(stays \ seen)]
           /\ Onward(c, stays # InFolder(held[c]), "empty")
    BY <1>2, Zenon DEF RemoveFolder, InFolder
  <2>1. PICK seen \in SUBSET stays :
           /\ Leave(held[c], InFolder(held[c]) \ stays)
           /\ tally' = [tally EXCEPT ![c] = tally[c] + Less(measured[c], Cardinality(seen))]
           /\ misled' = [misled EXCEPT ![c] = misled[c] + Cardinality(stays \ seen)]
           /\ Onward(c, stays # InFolder(held[c]), "empty")
    BY <2>0, Zenon
  <2>2. /\ InFolder(held[c]) \in SUBSET AllFiles /\ stays \in SUBSET AllFiles /\ seen \in SUBSET AllFiles
        /\ InFolder(held[c]) \cap stays = stays /\ stays \cap seen = seen
        /\ InFolder(held[c]) \ stays \in SUBSET AllFiles /\ stays \ seen \in SUBSET AllFiles
        /\ InFolder(held[c]) \ stays \in SUBSET cache[held[c]]
    BY <1>1 DEF CacheTypes, InFolder
  <2>3. /\ Cardinality(InFolder(held[c])) <= Cardinality(stays) + Cardinality(InFolder(held[c]) \ stays)
        /\ Cardinality(stays) <= Cardinality(seen) + Cardinality(stays \ seen)
    BY <2>2, FolderParts
  <2>4. /\ Cardinality(InFolder(held[c])) \in Nat /\ Cardinality(stays) \in Nat /\ Cardinality(seen) \in Nat
        /\ Cardinality(InFolder(held[c]) \ stays) \in Nat /\ Cardinality(stays \ seen) \in Nat
    BY <2>2, FilesCard
  <2>5. PICK taken : taken = InFolder(held[c]) \ stays
    OBVIOUS
  <2>6. PICK more \in Nat : more = Cardinality(stays \ seen)
    BY <2>4
  <2>7. PICK n \in Nat : n = Less(measured[c], Cardinality(seen)) /\ (n = 0 \/ n = measured[c] - Cardinality(seen))
    BY <1>1, <2>4, LessFacts
  <2>8. tally[c] + n <= gone[c] + Cardinality(taken) + misled[c] + more
    <3>1. CASE n = 0
      BY <1>1, <2>4, <2>5, <2>6, <3>1
    <3>2. CASE n = measured[c] - Cardinality(seen)
      <4>1. tally[c] + measured[c] <= gone[c] + misled[c] + (Cardinality(seen) + more + Cardinality(taken))
        BY <1>1, <2>3, <2>4, <2>5, <2>6
      <4> QED BY <1>1, <2>4, <2>5, <2>6, <3>2, <4>1
    <3> QED BY <2>7, <3>1, <3>2
  <2>9. PICK changed \in BOOLEAN : Onward(c, changed, "empty")
    <3>1. (stays # InFolder(held[c])) \in BOOLEAN
      OBVIOUS
    <3> QED BY <2>1, <3>1, Zenon
  <2>10. /\ taken \in SUBSET cache[held[c]] /\ Leave(held[c], taken)
         /\ tally' = [tally EXCEPT ![c] = tally[c] + n]
         /\ misled' = [misled EXCEPT ![c] = misled[c] + more]
         /\ 0 \in 0..2 /\ pc[c] \in {"empty", "dir"} /\ linked' = linked
    <3>1. /\ taken \in SUBSET cache[held[c]] /\ Leave(held[c], taken)
          /\ tally' = [tally EXCEPT ![c] = tally[c] + n]
          /\ misled' = [misled EXCEPT ![c] = misled[c] + more]
      BY <2>1, <2>2, <2>5, <2>6, <2>7, Zenon
    <3>2. linked' = linked
      BY <1>2 DEF RemoveFolder
    <3> QED BY <1>0, <3>1, <3>2
  <2> QED BY <1>0, <2>8, <2>9, <2>10, RemovalStep
<1>3. CASE RemoveFolderNowLink(c, held[c])
  <2>1. PICK behind \in 0..2, goes \in BOOLEAN :
           /\ linked' = IF goes THEN linked \ {held[c]} ELSE linked
           /\ tally' = [tally EXCEPT ![c] = tally[c] + Less(measured[c], behind)]
           /\ Onward(c, goes, "empty")
    BY <1>3 DEF RemoveFolderNowLink
  <2>2. held[c] \in linked /\ UNCHANGED <<cache, gone, misled>> /\ linked' \subseteq linked
    BY <1>3, <2>1 DEF RemoveFolderNowLink
  <2>3. Cardinality(InFolder(held[c])) = 0
    <3>1. InFolder(held[c]) = {}
      BY <1>1, <2>2 DEF LinkedEmpty
    <3> QED BY <3>1, FilesCard
  <2>4. PICK n \in Nat : n = Less(measured[c], behind) /\ n <= measured[c]
    <3>0. behind \in Nat
      BY <2>1
    <3>1. behind \in Nat /\ Less(measured[c], behind) \in Nat
          /\ (Less(measured[c], behind) = 0 \/ Less(measured[c], behind) = measured[c] - behind)
      BY <1>1, <3>0, LessFacts
    <3>2. Less(measured[c], behind) <= measured[c]
      BY <1>1, <3>1
    <3> QED BY <3>1, <3>2
  <2>5. tally[c] + n <= gone[c] + misled[c] /\ tally[c] + n \in Nat
    BY <1>1, <2>3, <2>4
  <2>6. /\ tally' \in [Conns -> Nat] /\ tally'[c] = tally[c] + n /\ measured' \in [Conns -> 0..2]
        /\ listing' \in [Conns -> SUBSET Entries] /\ linked' \in SUBSET Roots
        /\ \A x \in Conns \ {c} : /\ tally'[x] = tally[x] /\ listing'[x] = listing[x]
                                  /\ measured'[x] = measured[x]
    BY <1>0, <1>1, <2>1, <2>2, <2>4, <2>5 DEF CacheTypes
  <2>7. CacheTypes'
    BY <1>0, <1>1, <2>2, <2>6 DEF CacheTypes
  <2>8. AllNoticed /\ LinkedEmpty' /\ \A x \in Conns \ {c} : NotesKept(x)
    BY <1>0, <1>1, <2>2, <2>6, NothingLeaves DEF LinkedEmpty, InFolder, NotesKept
  <2>9. "empty" \in CachePlaces /\ tally'[c] <= gone'[c] + misled'[c]
    BY <2>2, <2>5, <2>6 DEF CachePlaces
  <2> QED BY <1>0, <1>1, <2>1, <2>7, <2>8, <2>9, CacheOnward
<1> QED BY <1>2, <1>3 DEF RemoveDir

\* A clear begins, with the roots it finds noted; or it is refused.
LEMMA ClearCacheStep ==
  ASSUME ConnInv, CacheInv, NEW c \in Conns, ClearCache(c)
  PROVE  ClearGoes(c) /\ UNCHANGED <<cache, linked>>
<1>0. /\ pc[c] = "handle" /\ req[c].kind = "ClearCache" /\ pc[c] \in HandlerPlaces
      /\ pc[c] \notin CachePlaces
      /\ UNCHANGED <<cache, linked, root, named, judged, held, listing, measured, tally, gone, misled>>
      /\ elsewhere' = elsewhere
  BY DEF ClearCache, Handling, HandlerPlaces, CachePlaces
<1>1. /\ CacheTypes /\ elsewhere = TRUE /\ LinkedEmpty /\ Holding(c) /\ Counting(c) /\ held[c] = NoRoot
      /\ caller[c].user \in Users
  <2>1. elsewhere \in BOOLEAN /\ elsewhere
    BY DEF CacheInv
  <2> QED BY <1>0, <2>1 DEF CacheInv, Holding, ConnInv, RightsInv
<1>2. CASE UNCHANGED <<roots, mine>> /\ Finish(c, FALSE, <<"Refused">>, "Error")
  <2>1. ConnInv' /\ Alone(c) /\ pc'[c] \in {"record", "reply"}
    BY <1>0, <1>2, SoleStep, StepFrame
  <2>2. UNCHANGED cacheVars /\ pc'[c] \notin CachePlaces \cup {"handle"}
    BY <1>0, <1>2, <2>1 DEF cacheVars, CachePlaces
  <2> QED BY <1>0, <1>1, <2>1, <2>2, CacheFrame DEF ClearGoes
<1>3. CASE /\ req[c].id \in DOMAIN Catalogue
           /\ roots' = [roots EXCEPT ![c] = Locate(req[c].id, caller[c].user)]
           /\ mine' = [mine EXCEPT ![c] = Locate(req[c].id, caller[c].user)]
           /\ Onward(c, FALSE, "root")
  <2>1. "root" \in CachePlaces /\ "root" \notin {"handle", "list", "empty", "dir"}
    BY DEF CachePlaces
  <2>2. ConnInv' /\ Alone(c) /\ pc'[c] = "root"
    BY <1>0, <1>3, <2>1, CachePlaceStep
  <2>3. Locate(req[c].id, caller[c].user) \in SUBSET Roots
    BY DEF Locate
  <2>4. /\ roots' \in [Conns -> SUBSET Roots] /\ mine' \in [Conns -> SUBSET Roots]
        /\ roots'[c] = mine'[c]
        /\ \A x \in Conns \ {c} : roots'[x] = roots[x] /\ mine'[x] = mine[x]
    BY <1>1, <1>3, <2>3 DEF CacheTypes
  <2>5. CacheTypes'
    BY <1>0, <1>1, <2>4 DEF CacheTypes
  <2>6. Holding(c)'
    BY <1>0, <1>1, <2>1, <2>2, <2>4 DEF Holding, Alone
  <2>7. Counting(c)'
    BY <1>0, <1>1, <2>1, <2>2 DEF Counting
  <2>8. AllNoticed /\ LinkedEmpty' /\ \A x \in Conns \ {c} : NotesKept(x)
    BY <1>0, <1>1, <2>4, NothingLeaves DEF LinkedEmpty, InFolder, NotesKept
  <2>9. CacheInv'
    BY <1>0, <1>1, <2>2, <2>5, <2>6, <2>7, <2>8, CacheOthers
  <2> QED BY <1>0, <1>1, <2>1, <2>2, <2>9 DEF ClearGoes
<1> QED BY <1>0, <1>2, <1>3 DEF ClearCache

\* A clear has been through all its roots.
LEMMA CacheClearedStep ==
  ASSUME ConnInv, CacheInv, NEW c \in Conns, CacheCleared(c)
  PROVE  ClearGoes(c)
<1>0. /\ pc[c] = "root" /\ pc[c] \in CachePlaces /\ Finish(c, FALSE, <<"Changed">>, "Ok")
      /\ UNCHANGED <<cache, linked, root, named, judged, roots, held, listing, measured, tally, mine,
                     gone, misled>>
      /\ elsewhere' = elsewhere
  BY DEF CacheCleared, CachePlaces, cacheVars
<1>1. /\ CacheTypes /\ elsewhere = TRUE /\ LinkedEmpty /\ Counting(c) /\ held[c] = NoRoot
      /\ pc[c] \in HandlerPlaces
  <2>1. elsewhere \in BOOLEAN /\ elsewhere
    BY <1>0, ClearFacts DEF CacheInv
  <2> QED BY <1>0, <2>1, ClearFacts
<1>2. <<"Changed">> \in Seq(Effects) /\ Elements(<<"Changed">>) = {"Changed"} /\ "Ok" \in Replies
  BY OneEntry DEF Effects, Replies
<1>3. ConnInv' /\ Alone(c) /\ pc'[c] \in {"record", "reply"}
  BY <1>0, <1>1, <1>2, FinishConn, StepFrame
<1>4. CacheTypes'
  BY <1>0, <1>1 DEF CacheTypes
<1>5. pc'[c] \notin CachePlaces \cup {"list", "empty", "dir", "handle"}
  BY <1>3 DEF CachePlaces
<1>6. Holding(c)'
  BY <1>0, <1>1, <1>3, <1>5 DEF Holding
<1>7. Counting(c)'
  BY <1>0, <1>1, <1>5 DEF Counting
<1>8. AllNoticed /\ LinkedEmpty' /\ \A x \in Conns \ {c} : NotesKept(x)
  BY <1>0, <1>1, NothingLeaves DEF LinkedEmpty, InFolder, NotesKept
<1>9. CacheInv'
  BY <1>0, <1>1, <1>3, <1>4, <1>6, <1>7, <1>8, CacheOthers
<1> QED BY <1>0, <1>1, <1>3, <1>9 DEF ClearGoes

\* A clear keeps the invariants, and touches a root that lay outside its
\* caller's profile at the check for an administrator only.
LEMMA CacheStep ==
  ASSUME ConnInv, CacheInv, NEW c \in Conns, CacheNext(c)
  PROVE  /\ ConnInv' /\ CacheInv' /\ Alone(c) /\ elsewhere' \in BOOLEAN
         /\ pc[c] \in {"handle"} \cup CachePlaces
         /\ pc'[c] \in {"record", "reply"} \cup CachePlaces
         /\ \A x \in Conns \ {c} : listing'[x] = listing[x]
         /\ \A q \in judged[c] \ {caller[c].user} :
              Under(q)' # Under(q) => caller[c].trusted /\ caller[c].elevated
<1>1. pc[c] \in {"handle"} \cup CachePlaces
  BY DEF CacheNext, ClearCache, HoldRoot, ListRoot, RemoveLink, MeasureDir, RemoveFile, RemoveDir,
         DropRoot, CacheCleared, Handling, CachePlaces
<1>2. ClearGoes(c)
  BY ClearCacheStep, HoldRootStep, ListRootStep, RemoveLinkStep, MeasureDirStep, RemoveFileStep,
     RemoveDirStep, DropRootStep, CacheClearedStep DEF CacheNext
<1>3. CASE pc[c] \in CachePlaces
  BY <1>1, <1>2, <1>3, ClearFacts DEF ClearGoes
<1>4. CASE pc[c] = "handle"
  <2>1. ClearCache(c)
    BY <1>4 DEF CacheNext, HoldRoot, ListRoot, RemoveLink, MeasureDir, RemoveFile, RemoveDir,
                DropRoot, CacheCleared
  <2>2. \A q : Under(q)' = Under(q)
    BY <2>1, ClearCacheStep DEF Under
  <2> QED BY <1>1, <1>2, <2>2 DEF ClearGoes
<1> QED BY <1>1, <1>3, <1>4

\* Others at the caches: whatever leaves a root is noticed, a root that is held
\* stays what it is, and where they put a link the folder has gone.
LEMMA OthersCacheStep ==
  ASSUME CacheInv, OthersAtCaches, UNCHANGED <<pc, caller, req>>
  PROVE  CacheInv' /\ elsewhere' \in BOOLEAN
<1>0. /\ CacheTypes /\ elsewhere = elsewhere' /\ elsewhere /\ LinkedEmpty
      /\ UNCHANGED <<judged, roots, held, listing, measured, tally, mine, misled>>
  BY DEF CacheInv, OthersAtCaches, OthersSwapRoot, OthersWrite, OthersSwapFolder, UserRenames
<1>1. ASSUME AllNoticed, LinkedEmpty', gone' \in [Conns -> Nat],
             cache' \in [Roots -> SUBSET AllFiles], linked' \in SUBSET Roots,
             root' \in [Roots -> {"dir", "beyond", "link", "absent"}],
             named' \in [Users -> SUBSET Roots],
             \A x \in Conns : held[x] # NoRoot => root'[held[x]] = root[held[x]]
      PROVE  CacheInv'
  <2>1. CacheTypes'
    BY <1>0, <1>1 DEF CacheTypes
  <2>2. ASSUME NEW x \in Conns PROVE Holding(x)' /\ Counting(x)'
    <3>1. NotesKept(x) /\ Noticed(x)
      BY <1>0, <1>1 DEF NotesKept, AllNoticed
    <3> QED BY <1>1, <2>1, <3>1, CacheKept
  <2> QED BY <1>0, <1>1, <2>1, <2>2 DEF CacheInv
<1>2. CASE OthersSwapRoot
  <2>1. PICK r \in Roots, what \in {"link", "absent", "beyond"}, found \in {{}, {"a", "f"}} :
           /\ \A c \in Conns : held[c] # r
           /\ root' = [root EXCEPT ![r] = what] /\ cache' = [cache EXCEPT ![r] = found]
           /\ linked' = linked \ {r} /\ named' = named
           /\ gone' = [c \in Conns |-> IF r \in mine[c] THEN gone[c] + Cardinality(cache[r])
                                                        ELSE gone[c]]
    BY <1>2 DEF OthersSwapRoot
  <2>2. found \in SUBSET AllFiles
    BY InsideFacts
  <2>3. /\ cache' \in [Roots -> SUBSET AllFiles] /\ linked' \in SUBSET Roots
        /\ root' \in [Roots -> {"dir", "beyond", "link", "absent"}]
        /\ named' \in [Users -> SUBSET Roots]
        /\ \A q \in Roots \ {r} : cache'[q] = cache[q] /\ root'[q] = root[q]
    BY <1>0, <2>1, <2>2 DEF CacheTypes
  <2>4. LinkedEmpty'
    BY <1>0, <2>1, <2>3 DEF LinkedEmpty, InFolder, CacheTypes
  <2>5. /\ \A c \in Conns : gone[c] \in Nat /\ mine[c] \in SUBSET Roots
        /\ \A q \in Roots : cache[q] \in SUBSET AllFiles
    BY <1>0 DEF CacheTypes
  <2>6. IsFiniteSet(cache[r]) /\ Cardinality(cache[r]) \in Nat
    BY <2>5, FilesCard
  <2>7. gone' \in [Conns -> Nat]
    BY <2>1, <2>5, <2>6
  <2>8. ASSUME NEW c \in Conns PROVE Noticed(c)
    <3>1. gone'[c] = IF r \in mine[c] THEN gone[c] + Cardinality(cache[r]) ELSE gone[c]
      BY <2>1
    <3>2. gone'[c] \in Nat /\ gone'[c] >= gone[c]
      BY <2>5, <2>6, <3>1
    <3>3. ASSUME NEW q \in mine[c] PROVE gone'[c] >= gone[c] + Cardinality(cache[q] \ cache'[q])
      <4>1. CASE q = r
        <5>1. cache[r] \ cache'[r] \in SUBSET cache[r]
          OBVIOUS
        <5>2. /\ Cardinality(cache[r] \ cache'[r]) <= Cardinality(cache[r])
              /\ Cardinality(cache[r] \ cache'[r]) \in Nat
          BY <2>5, <2>6, <5>1, FilesCard, FS_Subset
        <5>3. gone'[c] = gone[c] + Cardinality(cache[r])
          BY <3>1, <4>1
        <5> QED BY <2>5, <2>6, <4>1, <5>2, <5>3
      <4>2. CASE q # r
        <5>1. cache[q] \ cache'[q] = {}
          BY <2>3, <2>5, <4>2
        <5> QED BY <2>5, <3>2, <5>1, FilesCard
      <4> QED BY <4>1, <4>2
    <3> QED BY <3>2, <3>3 DEF Noticed
  <2>9. \A x \in Conns : held[x] # NoRoot => root'[held[x]] = root[held[x]]
    BY <1>0, <2>1, <2>3 DEF CacheTypes
  <2>10. AllNoticed
    BY <2>8 DEF AllNoticed
  <2> QED BY <1>0, <1>1, <2>3, <2>4, <2>7, <2>9, <2>10
<1>3. CASE OthersWrite
  <2>1. PICK r \in Roots, f \in AllFiles :
           /\ r \in linked => f \notin Inside["dir"]
           /\ IF f \in cache[r] THEN Leave(r, {f})
              ELSE cache' = [cache EXCEPT ![r] = cache[r] \cup {f}] /\ gone' = gone
           /\ UNCHANGED <<linked, root, named>>
    BY <1>3 DEF OthersWrite
  <2>2. /\ AllNoticed /\ gone' \in [Conns -> Nat] /\ cache' \in [Roots -> SUBSET AllFiles]
        /\ \A q \in Roots : cache'[q] \subseteq cache[q] \cup (IF q = r THEN {f} ELSE {})
    <3>1. CASE f \in cache[r]
      <4>1. {f} \in SUBSET cache[r] /\ Leave(r, {f})
        BY <2>1, <3>1
      <4>2. /\ AllNoticed /\ gone' \in [Conns -> Nat] /\ cache' \in [Roots -> SUBSET AllFiles]
            /\ \A q \in Roots : cache'[q] \subseteq cache[q]
        BY <1>0, <4>1, LeaveNoticed
      <4> QED BY <4>2
    <3>2. CASE f \notin cache[r]
      <4>1. cache' = [cache EXCEPT ![r] = cache[r] \cup {f}] /\ gone' = gone
        BY <2>1, <3>2
      <4>2. /\ cache' \in [Roots -> SUBSET AllFiles] /\ gone' \in [Conns -> Nat]
            /\ \A q \in Roots : /\ cache[q] \ cache'[q] = {}
                                /\ cache'[q] \subseteq cache[q] \cup (IF q = r THEN {f} ELSE {})
        BY <1>0, <4>1 DEF CacheTypes
      <4>3. ASSUME NEW c \in Conns, NEW q \in mine[c]
            PROVE  gone'[c] >= gone[c] + Cardinality(cache[q] \ cache'[q])
        <5>1. cache[q] \ cache'[q] = {} /\ gone[c] \in Nat /\ gone'[c] = gone[c]
          BY <1>0, <4>1, <4>2 DEF CacheTypes
        <5>2. gone'[c] \in Nat /\ gone'[c] >= gone[c]
          BY <5>1
        <5> QED BY <5>1, <5>2, NoneGone
      <4>4. AllNoticed
        BY <1>0, <4>1, <4>3 DEF AllNoticed, Noticed, CacheTypes
      <4> QED BY <4>2, <4>4
    <3> QED BY <3>1, <3>2
  <2>3. LinkedEmpty'
    BY <1>0, <2>1, <2>2 DEF LinkedEmpty, InFolder, CacheTypes
  <2> QED BY <1>0, <1>1, <2>1, <2>2, <2>3 DEF CacheTypes
<1>4. CASE OthersSwapFolder
  <2>1. PICK r \in Roots : /\ linked' = linked \cup {r} /\ Leave(r, InFolder(r))
                           /\ UNCHANGED <<root, named>>
    BY <1>4 DEF OthersSwapFolder, InFolder
  <2>2. InFolder(r) \in SUBSET cache[r]
    BY DEF InFolder
  <2>3. /\ AllNoticed /\ gone' \in [Conns -> Nat] /\ cache' \in [Roots -> SUBSET AllFiles]
        /\ cache'[r] = cache[r] \ InFolder(r) /\ \A q \in Roots : cache'[q] \subseteq cache[q]
    BY <1>0, <2>1, <2>2, LeaveNoticed
  <2>4. LinkedEmpty'
    BY <1>0, <2>1, <2>3 DEF LinkedEmpty, InFolder, CacheTypes
  <2> QED BY <1>0, <1>1, <2>1, <2>3, <2>4 DEF CacheTypes
<1>5. CASE UserRenames
  <2>1. UNCHANGED <<cache, linked, root, gone>> /\ named' \in [Users -> SUBSET Roots]
    BY <1>0, <1>5 DEF UserRenames, CacheTypes
  <2>2. AllNoticed /\ LinkedEmpty'
    BY <1>0, <2>1, NothingLeaves DEF LinkedEmpty, InFolder
  <2> QED BY <1>0, <1>1, <2>1, <2>2 DEF CacheTypes
<1> QED BY <1>0, <1>2, <1>3, <1>4, <1>5 DEF OthersAtCaches

-----------------------------------------------------------------------------
(* The whole.                                                              *)

\* A step that leaves every connection where it is.
LEMMA ConnFrame ==
  ASSUME ConnInv, UNCHANGED connVars
  PROVE  ConnInv'
<1>1. UNCHANGED <<pc, caller, req, due, wrote, lost, did, ans, served>>
  BY DEF connVars
<1>2. ShapeInv'
  BY <1>1, Zenon DEF ConnInv, ShapeInv
<1>3. \A c \in Conns : Owed(c)' = Owed(c)
  BY <1>1 DEF Owed, Elements
<1>4. AuditInv'
  BY <1>1, <1>3 DEF ConnInv, AuditInv
<1>5. RightsInv'
  BY <1>1, <1>3 DEF ConnInv, RightsInv
<1> QED BY <1>2, <1>4, <1>5 DEF ConnInv

\* Steps that have nothing to do with the firewall leave its rules alone.
LEMMA FirewallFrame ==
  ASSUME FirewallInv, NEW c \in Conns, \A d \in Conns \ {c} : pc'[d] = pc[d],
         UNCHANGED firewallVars, pc'[c] # "remove"
  PROVE  FirewallInv' /\ ForeignRulesStay
<1>1. UNCHANGED <<rules, counted>>
  BY DEF firewallVars
<1>2. FirewallInv'
  BY <1>1 DEF FirewallInv
<1>3. ForeignRulesStay
  BY <1>1, FirewallAssumption DEF ForeignRulesStay, FirewallInv, Counts
<1> QED BY <1>2, <1>3

Honest == outside \in 0..MaxOutside /\ elsewhere \in BOOLEAN

IInv == ConnInv /\ SettingsTypeOK /\ FirewallInv /\ DecoyInv /\ CacheInv /\ Honest

\* What is the machine's, or another account's, changes for whom it may.
ForAdministrators ==
    \A c \in Conns :
        /\ pc'[c] # pc[c] \/ listing'[c] # listing[c]
        /\ \/ <<protection, hardening, auditing, rules>>'
                 # <<protection, hardening, auditing, rules>>
           \/ \E r \in judged[c] \ {caller[c].user} : Under(r)' # Under(r)
        => caller[c].trusted /\ caller[c].elevated

\* What every step does.
Kept == IInv' /\ ForAdministrators /\ ForeignRulesStay /\ OwnersFileStays

\* The program begins there.
LEMMA InitInv == Init => IInv
<1> SUFFICES ASSUME Init PROVE IInv
  OBVIOUS
<1>0. ConnInit /\ SettingsInit /\ FirewallInit /\ DecoysInit /\ CacheInit /\ outside = 0
  BY DEF Init
<1>1. ConnInv
  <2>1. ShapeInv
    <3>1. "idle" \in Places /\ "none" \in Replies /\ <<>> \in Seq(Effects) /\ 0 \in 0..MaxServed
      BY OneEntry, ConnAssumption DEF Places, Replies
    <3> QED BY <1>0, <3>1 DEF ConnInit, ShapeInv
  <2>2. AuditInv
    BY <1>0 DEF ConnInit, AuditInv
  <2>3. RightsInv
    BY <1>0 DEF ConnInit, RightsInv, HandlerPlaces, DecoyPlaces, CachePlaces
  <2> QED BY <2>1, <2>2, <2>3 DEF ConnInv
<1>2. SettingsTypeOK
  BY <1>0 DEF SettingsInit, SettingsTypeOK
<1>3. FirewallInv
  <2>1. \A n \in [ours : 0..1, theirs : {0}] : n \in Counts
    BY FirewallAssumption DEF Counts
  <2>2. NotCounted \in Counts
    BY FirewallAssumption DEF NotCounted, Counts
  <2> QED BY <1>0, <2>1, <2>2 DEF FirewallInit, FirewallInv, ConnInit
<1>4. DecoyInv
  <2>1. DecoyTypes
    <3>1. <<>> \in Seq(AllDecoys)
      BY EmptySeq
    <3> QED BY <1>0, <3>1 DEF DecoysInit, DecoyTypes
  <2>2. \A c \in Conns : pc[c] = "idle" /\ claimed[c] = {} /\ armed[c] = {}
    BY <1>0 DEF ConnInit, DecoysInit
  <2>3. \A c \in Conns : InHand(c) /\ Listed(c)
    BY <2>2 DEF InHand, Listed, DecoyPlaces
  <2> QED BY <2>1, <2>3 DEF DecoyInv
<1>5. CacheInv
  <2>1. CacheTypes
    <3>1. /\ 0 \in 0..2 /\ 0 \in Nat /\ Inside["file"] \in SUBSET AllFiles
          /\ Inside["dir"] \in SUBSET AllFiles
      BY InsideFacts
    <3>2. \A u \in Users : u \in Roots
      BY DEF Roots
    <3> QED BY <1>0, <3>1, <3>2 DEF CacheInit, CacheTypes
  <2>2. \A c \in Conns : /\ pc[c] = "idle" /\ held[c] = NoRoot /\ tally[c] = 0 /\ gone[c] = 0
                          /\ misled[c] = 0
    BY <1>0 DEF ConnInit, CacheInit
  <2>3. "idle" \notin CachePlaces \cup {"list", "empty", "dir", "handle"}
    BY DEF CachePlaces
  <2>4. \A c \in Conns : Holding(c)
    BY <2>2, <2>3 DEF Holding
  <2>5. \A c \in Conns : Counting(c)
    BY <2>2 DEF Counting
  <2>6. elsewhere /\ LinkedEmpty
    BY <1>0 DEF CacheInit, LinkedEmpty
  <2> QED BY <2>1, <2>4, <2>5, <2>6 DEF CacheInv
<1>6. Honest
  BY <1>0, AgentAssumption DEF Honest, CacheInit
<1> QED BY <1>1, <1>2, <1>3, <1>4, <1>5, <1>6 DEF IInv

\* What the settings, the rules and the caches make of a step that leaves them
\* alone.
LEMMA NothingWide ==
  ASSUME UNCHANGED <<protection, hardening, auditing, rules, cache, linked>>
  PROVE  ForAdministrators
BY DEF ForAdministrators, Under

\* A caller is accepted: no notes of an earlier request are about.
LEMMA AcceptStep ==
  ASSUME IInv, NEW c \in Conns, NEW who \in Clients, NEW request \in Requests,
         Accept(c, who, request), UNCHANGED <<settingsVars, firewallVars, decoyVars, outside>>
  PROVE  Kept
<1>0. ConnInv /\ SettingsTypeOK /\ FirewallInv /\ DecoyInv /\ CacheInv /\ Honest
  BY DEF IInv
<1>1. /\ pc[c] = "idle" /\ pc'[c] \in {"record", "reply", "handle"}
      /\ \A x \in Conns \ {c} : pc'[x] = pc[x] /\ caller'[x] = caller[x] /\ req'[x] = req[x]
  BY <1>0 DEF Accept, Connect, ConnInv, ShapeInv
<1>2. /\ UNCHANGED <<protection, hardening, auditing, task, folder, rules, counted>>
      /\ UNCHANGED <<at, watched, left, claimed, armed, disturbed>>
      /\ UNCHANGED <<cache, linked, root, named, roots, held, listing, measured, tally, mine, gone,
                     misled>>
      /\ elsewhere' = elsewhere /\ outside' = outside
  BY DEF settingsVars, firewallVars, decoyVars, Accept, Judge
<1>3. ConnInv'
  BY <1>0, AcceptConn
<1>4. SettingsTypeOK' /\ Honest'
  BY <1>0, <1>2 DEF SettingsTypeOK, Honest
<1>5. FirewallInv' /\ ForeignRulesStay
  BY <1>0, <1>1, FirewallFrame
<1>6. DecoyInv'
  <2>1. DecoyTypes'
    BY <1>0, <1>2 DEF DecoyInv, DecoyTypes
  <2>2. ASSUME NEW x \in Conns \ {c} PROVE InHand(x)' /\ Listed(x)'
    BY <1>0, <1>1, <1>2, <2>1, DecoyKeptFor
  <2>3. claimed[c] = {} /\ armed[c] = {}
    BY <1>0, <1>1 DEF DecoyInv, Listed
  <2>4. InHand(c)'
    BY <1>1 DEF InHand, DecoyPlaces
  <2>5. Listed(c)'
    BY <1>2, <2>3 DEF Listed
  <2> QED BY <2>1, <2>2, <2>4, <2>5 DEF DecoyInv
<1>7. CacheInv'
  <2> DEFINE sees == IF /\ request.kind = "ClearCache" /\ who.user \in Users
                        /\ request.id \in DOMAIN Catalogue
                     THEN Locate(request.id, who.user) ELSE {}
  <2>1. judged' = [judged EXCEPT ![c] = sees] /\ sees \in SUBSET Roots
    BY DEF Accept, Judge, Locate
  <2>2. CacheTypes /\ judged'[c] = sees /\ \A x \in Conns \ {c} : judged'[x] = judged[x]
    BY <1>0, <2>1 DEF CacheInv, CacheTypes
  <2>3. CacheTypes'
    BY <1>2, <2>1, <2>2 DEF CacheTypes
  <2>4. ASSUME NEW x \in Conns \ {c} PROVE Holding(x)' /\ Counting(x)'
    <3>1. NotesKept(x) /\ Noticed(x) /\ root' = root
      BY <1>2, <2>2, NothingLeaves DEF NotesKept, AllNoticed
    <3> QED BY <1>0, <1>1, <2>3, <3>1, CacheKept
  <2>5. Holding(c) /\ Counting(c) /\ held[c] = NoRoot
    BY <1>0, <1>1 DEF CacheInv, Holding
  <2>6. pc'[c] \notin CachePlaces \cup {"list", "empty", "dir"}
    BY <1>1 DEF CachePlaces
  <2>7. ASSUME pc'[c] = "handle", req'[c].kind = "ClearCache",
               NEW r \in judged'[c], r # caller'[c].user
        PROVE  caller'[c].elevated
    <3>1. /\ pc \in [Conns -> Places] /\ req \in [Conns -> Requests \cup {NoRequest}]
          /\ caller \in [Conns -> Clients \cup {Nobody}]
      BY <1>0 DEF ConnInv, ShapeInv
    <3>2. caller'[c] = who
      BY <3>1 DEF Accept, Connect
    <3>3. /\ req'[c] = request
          /\ NeedsAdministrator(request, request.kind = "ClearCache" /\ IsMachineWide(request.id, who.user))
               => who.elevated
      BY <2>7, <3>1 DEF Accept, Connect
    <3>4. r \in Locate(request.id, who.user) /\ r # who.user
      BY <2>2, <2>7, <3>2
    <3>5. IsMachineWide(request.id, who.user)
      BY <3>4 DEF IsMachineWide
    <3> QED BY <2>7, <3>2, <3>3, <3>5 DEF NeedsAdministrator
  <2>8. Holding(c)'
    BY <1>2, <2>5, <2>6, <2>7 DEF Holding
  <2>9. Counting(c)'
    BY <1>2, <2>5, <2>6 DEF Counting
  <2>10. elsewhere' /\ LinkedEmpty'
    BY <1>0, <1>2 DEF CacheInv, LinkedEmpty, InFolder
  <2> QED BY <2>3, <2>4, <2>8, <2>9, <2>10 DEF CacheInv
<1>8. ForAdministrators
  BY <1>2, NothingWide
<1>9. OwnersFileStays
  BY <1>2 DEF OwnersFileStays
<1> QED BY <1>3, <1>4, <1>5, <1>6, <1>7, <1>8, <1>9 DEF Kept, IInv

\* A request is answered, and its notes go with it.
LEMMA AnswerStep ==
  ASSUME IInv, NEW c \in Conns, Answer(c), UNCHANGED outside
  PROVE  Kept
<1>0. ConnInv /\ SettingsTypeOK /\ FirewallInv /\ DecoyInv /\ CacheInv /\ Honest
  BY DEF IInv
<1>1. /\ ReplyDone(c) /\ pc[c] = "reply" /\ pc'[c] = "idle"
      /\ req'[c] = NoRequest
      /\ \A x \in Conns \ {c} : pc'[x] = pc[x] /\ caller'[x] = caller[x] /\ req'[x] = req[x]
  BY <1>0 DEF Answer, ReplyDone, ConnInv, ShapeInv
<1>2. /\ UNCHANGED <<protection, hardening, auditing, task, folder, rules, counted>>
      /\ UNCHANGED <<at, watched, left>>
      /\ UNCHANGED <<cache, linked, root, named, roots, held, listing, measured>>
      /\ elsewhere' = elsewhere /\ outside' = outside /\ UNCHANGED firewallVars
      /\ claimed' = [claimed EXCEPT ![c] = {}] /\ armed' = [armed EXCEPT ![c] = {}]
      /\ disturbed' = [disturbed EXCEPT ![c] = {}]
      /\ judged' = [judged EXCEPT ![c] = {}] /\ mine' = [mine EXCEPT ![c] = {}]
      /\ tally' = [tally EXCEPT ![c] = 0] /\ misled' = [misled EXCEPT ![c] = 0]
      /\ gone' = [gone EXCEPT ![c] = 0]
  BY DEF Answer, settingsVars, firewallVars
<1>3. ConnInv'
  BY <1>0, <1>1, ReplyConn
<1>4. SettingsTypeOK' /\ Honest'
  BY <1>0, <1>2 DEF SettingsTypeOK, Honest
<1>5. FirewallInv' /\ ForeignRulesStay
  BY <1>0, <1>1, <1>2, FirewallFrame
<1>6. DecoyInv'
  <2>1. /\ DecoyTypes' /\ claimed'[c] = {} /\ armed'[c] = {}
        /\ \A x \in Conns \ {c} : /\ claimed'[x] = claimed[x] /\ armed'[x] = armed[x]
                                  /\ disturbed'[x] = disturbed[x]
    BY <1>0, <1>2 DEF DecoyInv, DecoyTypes
  <2>2. ASSUME NEW x \in Conns \ {c} PROVE InHand(x)' /\ Listed(x)'
    BY <1>0, <1>1, <1>2, <2>1, DecoyKeptFor
  <2>3. InHand(c)'
    BY <1>1 DEF InHand, DecoyPlaces
  <2>4. Listed(c)'
    BY <2>1 DEF Listed
  <2> QED BY <2>1, <2>2, <2>3, <2>4 DEF DecoyInv
<1>7. CacheInv'
  <2>1. CacheTypes /\ elsewhere /\ LinkedEmpty /\ Holding(c)
    BY <1>0 DEF CacheInv
  <2>2. /\ CacheTypes' /\ tally'[c] = 0 /\ misled'[c] = 0 /\ gone'[c] = 0
        /\ \A x \in Conns \ {c} : /\ judged'[x] = judged[x] /\ mine'[x] = mine[x]
                                  /\ tally'[x] = tally[x] /\ misled'[x] = misled[x]
                                  /\ gone'[x] = gone[x]
    BY <1>2, <2>1 DEF CacheTypes
  <2>3. ASSUME NEW x \in Conns \ {c} PROVE Holding(x)' /\ Counting(x)'
    <3>1. NotesKept(x) /\ root' = root
      BY <1>2, <2>2 DEF NotesKept
    <3>2. ASSUME NEW r \in mine[x] PROVE gone'[x] >= gone[x] + Cardinality(cache[r] \ cache'[r])
      <4>1. cache[r] \ cache'[r] = {} /\ gone[x] \in Nat /\ gone'[x] = gone[x]
        BY <1>2, <2>1, <2>2 DEF CacheTypes
      <4>2. gone'[x] \in Nat /\ gone'[x] >= gone[x]
        BY <4>1
      <4> QED BY <4>1, <4>2, NoneGone
    <3>3. Noticed(x)
      BY <2>1, <2>2, <3>2 DEF Noticed, CacheTypes
    <3> QED BY <1>0, <1>1, <2>2, <3>1, <3>3, CacheKept
  <2>4. held[c] = NoRoot /\ pc'[c] \notin CachePlaces \cup {"list", "empty", "dir", "handle"}
    BY <1>1, <2>1 DEF Holding, CachePlaces
  <2>5. Holding(c)'
    BY <1>2, <2>4 DEF Holding
  <2>6. Counting(c)'
    BY <2>2, <2>4 DEF Counting
  <2>7. elsewhere' /\ LinkedEmpty'
    BY <1>2, <2>1 DEF LinkedEmpty, InFolder
  <2> QED BY <2>2, <2>3, <2>5, <2>6, <2>7 DEF CacheInv
<1>8. ForAdministrators
  BY <1>2, NothingWide
<1>9. OwnersFileStays
  BY <1>2 DEF OwnersFileStays
<1> QED BY <1>3, <1>4, <1>5, <1>6, <1>7, <1>8, <1>9 DEF Kept, IInv

\* A step after which nothing but the connection is different.
LEMMA QuietStep ==
  ASSUME IInv, NEW c \in Conns, JobNotStarted(c) \/ HandleElsewhere(c) \/ RecordEntry(c),
         UNCHANGED <<settingsVars, firewallVars, decoyVars, cacheVars, outside>>
  PROVE  Kept
<1>0. ConnInv /\ SettingsTypeOK /\ FirewallInv /\ DecoyInv /\ CacheInv /\ Honest
  BY DEF IInv
<1>1. ConnInv'
  BY <1>0, ElsewhereConn, RecordConn
<1>2. Alone(c) /\ pc[c] \in {"handle", "record"} /\ pc'[c] \in {"record", "reply"}
  BY <1>0 DEF JobNotStarted, HandleElsewhere, RecordEntry, Finish, Alone, ConnInv, ShapeInv
<1>3. /\ UNCHANGED <<protection, hardening, auditing, task, folder, rules, at, cache, linked>>
      /\ elsewhere' = elsewhere /\ outside' = outside
  BY DEF settingsVars, firewallVars, decoyVars, cacheVars
<1>4. SettingsTypeOK' /\ Honest'
  BY <1>0, <1>3 DEF SettingsTypeOK, Honest
<1>5. FirewallInv' /\ ForeignRulesStay
  BY <1>0, <1>2, FirewallFrame DEF Alone
<1>6. /\ pc[c] \notin CachePlaces /\ pc'[c] \notin CachePlaces \cup {"handle"}
      /\ pc'[c] \notin DecoyPlaces \cup {"idle"}
  BY <1>2 DEF CachePlaces, DecoyPlaces
<1>7. DecoyInv' /\ CacheInv'
  BY <1>0, <1>2, <1>6, DecoyFrame, CacheFrame
<1>8. ForAdministrators /\ OwnersFileStays
  BY <1>3, NothingWide DEF OwnersFileStays
<1> QED BY <1>1, <1>4, <1>5, <1>7, <1>8 DEF Kept, IInv

\* A step of a handler that takes its request through a resource.
LEMMA HandlerStep ==
  ASSUME IInv, NEW c \in Conns, outside' = outside,
         \/ SettingsNext(c) /\ UNCHANGED <<firewallVars, decoyVars, cacheVars>>
         \/ FirewallNext(c) /\ UNCHANGED <<settingsVars, decoyVars, cacheVars>>
         \/ DecoysNext(c) /\ UNCHANGED <<settingsVars, firewallVars, cacheVars>>
         \/ CacheNext(c) /\ UNCHANGED <<settingsVars, firewallVars, decoyVars>>
  PROVE  Kept
<1>0. ConnInv /\ SettingsTypeOK /\ FirewallInv /\ DecoyInv /\ CacheInv /\ Honest
  BY DEF IInv
<1>a. ASSUME Alone(c), NEW d \in Conns, pc'[d] # pc[d] PROVE d = c
  BY <1>a DEF Alone
<1>s. ASSUME UNCHANGED settingsVars
      PROVE  SettingsTypeOK' /\ UNCHANGED <<protection, hardening, auditing>>
  BY <1>0, <1>s DEF SettingsTypeOK, settingsVars
<1>f. ASSUME UNCHANGED firewallVars, Alone(c), pc'[c] # "remove"
      PROVE  FirewallInv' /\ ForeignRulesStay /\ rules' = rules
  BY <1>0, <1>f, FirewallFrame DEF Alone, firewallVars
<1>d. ASSUME UNCHANGED decoyVars, Alone(c), pc'[c] \notin DecoyPlaces \cup {"idle"}
      PROVE  DecoyInv' /\ OwnersFileStays
  BY <1>0, <1>d, DecoyFrame DEF decoyVars, OwnersFileStays
<1>c. ASSUME UNCHANGED cacheVars, Alone(c), pc[c] \notin CachePlaces,
             pc'[c] \notin CachePlaces \cup {"handle"}
      PROVE  CacheInv' /\ Honest' /\ UNCHANGED <<cache, linked, listing>>
  BY <1>0, <1>c, CacheFrame DEF cacheVars, Honest
<1>1. CASE SettingsNext(c) /\ UNCHANGED <<firewallVars, decoyVars, cacheVars>>
  <2>1. /\ ConnInv' /\ SettingsTypeOK' /\ Alone(c) /\ pc'[c] \in {"record", "reply"} /\ pc[c] = "handle"
        /\ <<protection, hardening, auditing>>' # <<protection, hardening, auditing>> =>
              caller[c].trusted /\ caller[c].elevated
    BY <1>0, <1>1, SettingsStep
  <2>2. /\ pc[c] \notin CachePlaces /\ pc'[c] \notin CachePlaces \cup {"handle"}
        /\ pc'[c] \notin DecoyPlaces \cup {"idle"} /\ pc'[c] # "remove"
    BY <2>1 DEF CachePlaces, DecoyPlaces
  <2>3. /\ FirewallInv' /\ ForeignRulesStay /\ rules' = rules /\ DecoyInv' /\ OwnersFileStays
        /\ CacheInv' /\ Honest' /\ UNCHANGED <<cache, linked, listing>>
    BY <1>1, <1>f, <1>d, <1>c, <2>1, <2>2
  <2>4. ForAdministrators
    BY <1>a, <2>1, <2>3 DEF ForAdministrators, Under
  <2> QED BY <2>1, <2>3, <2>4 DEF Kept, IInv
<1>2. CASE FirewallNext(c) /\ UNCHANGED <<settingsVars, decoyVars, cacheVars>>
  <2>1. /\ ConnInv' /\ FirewallInv' /\ Alone(c) /\ ForeignRulesStay
        /\ pc[c] \in {"handle", "remove"} /\ pc'[c] \in {"remove", "record", "reply"}
        /\ rules' # rules => caller[c].trusted /\ caller[c].elevated
    BY <1>0, <1>2, FirewallStep
  <2>2. /\ pc[c] \notin CachePlaces /\ pc'[c] \notin CachePlaces \cup {"handle"}
        /\ pc'[c] \notin DecoyPlaces \cup {"idle"}
    BY <2>1 DEF CachePlaces, DecoyPlaces
  <2>3. /\ SettingsTypeOK' /\ UNCHANGED <<protection, hardening, auditing>> /\ DecoyInv' /\ OwnersFileStays
        /\ CacheInv' /\ Honest' /\ UNCHANGED <<cache, linked, listing>>
    BY <1>2, <1>s, <1>d, <1>c, <2>1, <2>2
  <2>4. ForAdministrators
    BY <1>a, <2>1, <2>3 DEF ForAdministrators, Under
  <2> QED BY <2>1, <2>3, <2>4 DEF Kept, IInv
<1>3. CASE DecoysNext(c) /\ UNCHANGED <<settingsVars, firewallVars, cacheVars>>
  <2>1. /\ ConnInv' /\ DecoyInv' /\ Alone(c) /\ OwnersFileStays
        /\ pc'[c] \in {"record", "reply"} \cup DecoyPlaces
        /\ pc[c] \in {"handle"} \cup DecoyPlaces
    BY <1>0, <1>3, DecoyStep
  <2>2. /\ pc[c] \notin CachePlaces /\ pc'[c] \notin CachePlaces \cup {"handle"}
        /\ pc'[c] # "remove"
    BY <2>1 DEF CachePlaces, DecoyPlaces
  <2>3. /\ SettingsTypeOK' /\ UNCHANGED <<protection, hardening, auditing>> /\ rules' = rules
        /\ FirewallInv' /\ ForeignRulesStay /\ CacheInv' /\ Honest' /\ UNCHANGED <<cache, linked, listing>>
    BY <1>3, <1>s, <1>f, <1>c, <2>1, <2>2
  <2>4. ForAdministrators
    BY <2>3, NothingWide
  <2> QED BY <2>1, <2>3, <2>4 DEF Kept, IInv
<1>4. CASE CacheNext(c) /\ UNCHANGED <<settingsVars, firewallVars, decoyVars>>
  <2>1. /\ ConnInv' /\ CacheInv' /\ Alone(c) /\ elsewhere' \in BOOLEAN
        /\ pc'[c] \in {"record", "reply"} \cup CachePlaces
        /\ \A x \in Conns \ {c} : listing'[x] = listing[x]
        /\ \A q \in judged[c] \ {caller[c].user} :
              Under(q)' # Under(q) => caller[c].trusted /\ caller[c].elevated
    BY <1>0, <1>4, CacheStep
  <2>2. pc'[c] \notin DecoyPlaces \cup {"idle"} /\ pc'[c] # "remove"
    BY <2>1 DEF CachePlaces, DecoyPlaces
  <2>3. /\ SettingsTypeOK' /\ UNCHANGED <<protection, hardening, auditing>> /\ rules' = rules
        /\ FirewallInv' /\ ForeignRulesStay /\ DecoyInv' /\ OwnersFileStays
    BY <1>4, <1>s, <1>f, <1>d, <2>1, <2>2
  <2>4. Honest'
    BY <1>0, <2>1 DEF Honest
  <2>5. ForAdministrators
    <3> SUFFICES ASSUME NEW d \in Conns, pc'[d] # pc[d] \/ listing'[d] # listing[d],
                        NEW r \in judged[d] \ {caller[d].user}, Under(r)' # Under(r)
                 PROVE  caller[d].trusted /\ caller[d].elevated
      BY <2>3 DEF ForAdministrators
    <3>1. d = c
      BY <2>1 DEF Alone
    <3> QED BY <2>1, <3>1
  <2> QED BY <2>1, <2>3, <2>4, <2>5 DEF Kept, IInv
<1> QED BY <1>1, <1>2, <1>3, <1>4

\* With every connection and every resource as it was.
LEMMA Undisturbed ==
  ASSUME IInv, UNCHANGED connVars
  PROVE  /\ ConnInv' /\ OwnersFileStays /\ (listing' = listing => ForAdministrators)
         /\ UNCHANGED settingsVars => SettingsTypeOK'
         /\ UNCHANGED firewallVars => FirewallInv' /\ ForeignRulesStay
         /\ UNCHANGED decoyVars => DecoyInv'
         /\ UNCHANGED cacheVars => CacheInv' /\ elsewhere' \in BOOLEAN /\ listing' = listing
<1>0. ConnInv /\ SettingsTypeOK /\ FirewallInv /\ DecoyInv /\ CacheInv /\ Honest
  BY DEF IInv
<1>1. UNCHANGED <<pc, caller, req>>
  BY DEF connVars
<1>2. ConnInv' /\ OwnersFileStays /\ (listing' = listing => ForAdministrators)
  BY <1>0, <1>1, ConnFrame DEF ForAdministrators, OwnersFileStays
<1>3. UNCHANGED settingsVars => SettingsTypeOK'
  BY <1>0 DEF SettingsTypeOK, settingsVars
<1>4. UNCHANGED firewallVars => FirewallInv' /\ ForeignRulesStay
  <2> SUFFICES ASSUME UNCHANGED <<rules, counted>> PROVE FirewallInv' /\ ForeignRulesStay
    BY DEF firewallVars
  <2>1. FirewallInv'
    BY <1>0, <1>1 DEF FirewallInv
  <2>2. ForeignRulesStay
    BY <1>0, FirewallAssumption DEF FirewallInv, ForeignRulesStay, Counts
  <2> QED BY <2>1, <2>2
<1>5. ASSUME UNCHANGED decoyVars PROVE DecoyInv'
  <2>1. UNCHANGED <<at, watched, left, claimed, armed, disturbed>> /\ DecoyTypes'
    BY <1>0, <1>5 DEF decoyVars, DecoyInv, DecoyTypes
  <2>2. ASSUME NEW x \in Conns PROVE InHand(x)' /\ Listed(x)'
    BY <1>0, <1>1, <2>1, DecoyKeptFor
  <2> QED BY <2>1, <2>2 DEF DecoyInv
<1>6. ASSUME UNCHANGED cacheVars PROVE CacheInv' /\ elsewhere' \in BOOLEAN /\ listing' = listing
  <2>1. /\ UNCHANGED <<cache, linked, root, named, judged, roots, held, listing, measured, tally, mine,
                       gone, misled>>
        /\ elsewhere' = elsewhere /\ CacheTypes /\ elsewhere /\ LinkedEmpty
    BY <1>0, <1>6 DEF cacheVars, CacheInv
  <2>2. CacheTypes' /\ elsewhere' /\ LinkedEmpty'
    BY <2>1 DEF CacheTypes, LinkedEmpty, InFolder
  <2>3. AllNoticed
    BY <2>1, NothingLeaves
  <2>4. ASSUME NEW x \in Conns PROVE Holding(x)' /\ Counting(x)'
    <3>1. NotesKept(x) /\ Noticed(x)
      BY <2>1, <2>3 DEF NotesKept, AllNoticed
    <3> QED BY <1>0, <1>1, <2>1, <2>2, <3>1, CacheKept
  <2> QED BY <1>0, <2>1, <2>2, <2>4 DEF CacheInv, Honest
<1> QED BY <1>2, <1>3, <1>4, <1>5, <1>6

\* What others do, the handlers have allowed for.
LEMMA OutsideStep ==
  ASSUME IInv, Outside
  PROVE  Kept
<1>0. ConnInv /\ SettingsTypeOK /\ FirewallInv /\ DecoyInv /\ CacheInv /\ Honest
  BY DEF IInv
<1>1. /\ UNCHANGED connVars /\ outside' \in 0..MaxOutside /\ UNCHANGED <<pc, caller, req>>
      /\ ConnInv' /\ OwnersFileStays /\ (listing' = listing => ForAdministrators)
  BY <1>0, Undisturbed, AgentAssumption DEF Outside, connVars, Honest
<1>2. CASE /\ OthersChangeSettings
           /\ UNCHANGED <<protection, hardening, firewallVars, decoyVars, cacheVars>>
  <2>1. auditing' \in [Subcategories -> BOOLEAN]
    BY <1>0, <1>2 DEF OthersChangeSettings, SettingsTypeOK
  <2>2. task' \in Users \cup {"nobody"} /\ folder' = folder
    BY <1>0, <1>2 DEF OthersChangeSettings, SettingsTypeOK
  <2>3. SettingsTypeOK'
    BY <1>0, <1>2, <2>1, <2>2 DEF SettingsTypeOK
  <2>4. /\ FirewallInv' /\ ForeignRulesStay /\ DecoyInv' /\ CacheInv' /\ elsewhere' \in BOOLEAN
        /\ listing' = listing
    BY <1>1, <1>2, Undisturbed
  <2> QED BY <1>1, <2>3, <2>4 DEF Kept, IInv, Honest
<1>3. CASE OthersAddRule /\ UNCHANGED <<settingsVars, decoyVars, cacheVars>>
  <2>1. PICK n \in Names : rules[n].theirs < MaxRules /\ AddRule(n, FALSE) /\ counted' = counted
    BY <1>3 DEF OthersAddRule
  <2>2. rules[n] \in Counts /\ \A m \in Names : rules[m].theirs \in 0..MaxRules
    BY <1>0 DEF FirewallInv, Counts
  <2>3. rules' \in [Names -> Counts] /\ \A m \in Names : rules'[m].theirs >= rules[m].theirs
    BY <1>0, <2>1, <2>2, FirewallAssumption DEF AddRule, FirewallInv, Counts
  <2>4. FirewallInv'
    BY <1>0, <1>1, <2>1, <2>3 DEF FirewallInv
  <2>5. ForeignRulesStay
    <3>1. \A m \in Names : rules[m].theirs \in Nat /\ rules'[m].theirs \in Nat
      BY <2>2, <2>3, FirewallAssumption DEF Counts
    <3> QED BY <2>3, <3>1 DEF ForeignRulesStay
  <2>6. SettingsTypeOK' /\ DecoyInv' /\ CacheInv' /\ elsewhere' \in BOOLEAN /\ listing' = listing
    BY <1>1, <1>3, Undisturbed
  <2> QED BY <1>1, <2>4, <2>5, <2>6 DEF Kept, IInv, Honest
<1>4. CASE OwnerActs /\ UNCHANGED <<settingsVars, firewallVars, cacheVars>>
  <2>1. PICK u \in Users, d \in Elements(Files), what \in {"owner", "none"} :
           /\ Put(u, d, what, "nobody") /\ watched' = [watched EXCEPT ![u][d] = FALSE]
           /\ UNCHANGED <<left, claimed, armed>>
    BY <1>4 DEF OwnerActs
  <2>2. d \in AllDecoys /\ DecoyTypes
    BY <1>0, DecoysAssumption, ElementsConcat DEF AllDecoys, DecoyInv
  <2>3. /\ at' \in [Users -> [AllDecoys -> {"none", "ours", "owner"}]]
        /\ \A v \in Users, e \in AllDecoys :
             at'[v][e] = IF v = u /\ e = d THEN what ELSE at[v][e]
        /\ disturbed' \in [Conns -> SUBSET AllDecoys]
        /\ \A x \in Conns :
             /\ disturbed[x] \subseteq disturbed'[x]
             /\ x # "nobody" /\ caller[x].user = u /\ req[x].kind = "SetCanaries" =>
                   d \in disturbed'[x]
    BY <2>1, <2>2, PutFacts
  <2>4. /\ watched' \in [Users -> [AllDecoys -> BOOLEAN]]
        /\ \A v \in Users, e \in AllDecoys : (v = u /\ e = d) \/ watched'[v][e] = watched[v][e]
    BY <2>1, <2>2 DEF DecoyTypes
  <2>5. DecoyTypes'
    BY <2>1, <2>2, <2>3, <2>4 DEF DecoyTypes
  <2>6. ASSUME NEW x \in Conns PROVE InHand(x)' /\ Listed(x)'
    <3>1. x # "nobody"
      BY DecoysAssumption
    <3>2. ASSUME req[x].kind = "SetCanaries", NEW e \in AllDecoys \ disturbed'[x]
          PROVE  /\ at'[caller[x].user][e] = at[caller[x].user][e]
                 /\ watched'[caller[x].user][e] = watched[caller[x].user][e]
      <4>1. caller[x].user \in Users
        BY <1>0, <3>2 DEF ConnInv, RightsInv, NoRequest
      <4>2. ~(caller[x].user = u /\ e = d)
        BY <2>3, <3>1, <3>2
      <4> QED BY <2>3, <2>4, <3>2, <4>1, <4>2
    <3> QED BY <1>0, <1>1, <2>1, <2>3, <2>5, <3>2, DecoyKeptFor
  <2>7. DecoyInv'
    BY <2>5, <2>6 DEF DecoyInv
  <2>8. /\ SettingsTypeOK' /\ FirewallInv' /\ ForeignRulesStay /\ CacheInv' /\ elsewhere' \in BOOLEAN
        /\ listing' = listing
    BY <1>1, <1>4, Undisturbed
  <2> QED BY <1>1, <2>7, <2>8 DEF Kept, IInv, Honest
<1>5. CASE OthersAtCaches /\ UNCHANGED <<settingsVars, firewallVars, decoyVars>>
  <2>1. CacheInv' /\ elsewhere' \in BOOLEAN /\ listing' = listing
    BY <1>0, <1>1, <1>5, OthersCacheStep DEF OthersAtCaches
  <2>2. SettingsTypeOK' /\ FirewallInv' /\ ForeignRulesStay /\ DecoyInv'
    BY <1>1, <1>5, Undisturbed
  <2> QED BY <1>1, <2>1, <2>2 DEF Kept, IInv, Honest
<1> QED BY <1>2, <1>3, <1>4, <1>5 DEF Outside

\* Every step.
LEMMA NextStep ==
  ASSUME IInv, [Next]_vars
  PROVE  Kept
<1>1. CASE UNCHANGED vars
  <2>1. UNCHANGED <<connVars, settingsVars, firewallVars, decoyVars, cacheVars, outside>>
    BY <1>1 DEF vars
  <2> QED BY <2>1, Undisturbed DEF Kept, IInv, Honest
<1>2. ASSUME NEW c \in Conns, Serve(c), UNCHANGED outside PROVE Kept
  <2>1. CASE /\ \E who \in Clients, request \in Requests : Accept(c, who, request)
             /\ UNCHANGED <<settingsVars, firewallVars, decoyVars>>
    BY <1>2, <2>1, AcceptStep
  <2>2. CASE /\ JobNotStarted(c) \/ HandleElsewhere(c) \/ RecordEntry(c)
             /\ UNCHANGED <<settingsVars, firewallVars, decoyVars, cacheVars>>
    BY <1>2, <2>2, QuietStep
  <2>3. CASE Answer(c)
    BY <1>2, <2>3, AnswerStep
  <2>4. CASE \/ SettingsNext(c) /\ UNCHANGED <<firewallVars, decoyVars, cacheVars>>
             \/ FirewallNext(c) /\ UNCHANGED <<settingsVars, decoyVars, cacheVars>>
             \/ DecoysNext(c) /\ UNCHANGED <<settingsVars, firewallVars, cacheVars>>
             \/ CacheNext(c) /\ UNCHANGED <<settingsVars, firewallVars, decoyVars>>
    BY <1>2, <2>4, HandlerStep
  <2> QED BY <1>2, <2>1, <2>2, <2>3, <2>4 DEF Serve
<1> QED BY <1>1, <1>2, OutsideStep DEF Next

\* What has been written of a request, as ChangesAreRecorded asks for it.
LEMMA WroteFacts ==
  ASSUME ConnInv, NEW c \in Conns, NEW effect
  PROVE  Wrote(c, effect) <=> effect \in Elements(wrote[c])
BY DEF Wrote, Elements

\* The invariant gives what the audit log is said to be.
LEMMA AuditFollows ==
  ASSUME IInv
  PROVE  AuditIsTrue
<1>0. ConnInv /\ SettingsTypeOK /\ FirewallInv /\ DecoyInv /\ CacheInv /\ Honest
  BY DEF IInv
<1>1. ConnTypeOK
  <2>1. ShapeInv
    BY <1>0 DEF ConnInv
  <2>2. ASSUME NEW c \in Conns
        PROVE  /\ \A i \in DOMAIN due[c] : due[c][i] \in Effects
               /\ \A i \in DOMAIN wrote[c] : wrote[c][i] \in Effects
    BY <2>1 DEF ShapeInv
  <2> QED BY <2>1, <2>2 DEF ShapeInv, ConnTypeOK, Effects, Replies
<1>2. FirewallTypeOK
  BY <1>0 DEF FirewallInv, FirewallTypeOK, Counts
<1>3. DecoysTypeOK
  <2>1. DecoyTypes /\ \A c \in Conns : Listed(c)
    BY <1>0 DEF DecoyInv
  <2>2. ASSUME NEW c \in Conns
        PROVE  /\ Elements(left[c]) \subseteq AllDecoys /\ armed[c] \subseteq claimed[c]
               /\ claimed[c] \cup disturbed[c] \subseteq AllDecoys
    <3>1. left[c] \in Seq(AllDecoys)
      BY <2>1 DEF DecoyTypes
    <3> QED BY <2>1, <3>1, ElementsFacts DEF DecoyTypes, Listed
  <2> QED BY <2>1, <2>2 DEF DecoysTypeOK, DecoyTypes
<1>4. CacheTypeOK
  BY <1>0 DEF CacheInv, CacheTypes, CacheTypeOK, Honest
<1>5. AgentTypeOK
  BY <1>0, <1>1, <1>2, <1>3, <1>4 DEF AgentTypeOK, Honest
<1>6. ASSUME NEW c \in Conns
      PROVE  /\ pc[c] = "reply" /\ did[c] /\ ~lost[c] /\ req[c].kind \notin Partly => Wrote(c, "Changed")
             /\ Wrote(c, "Refused") /\ req[c].kind \notin Partly => ~did[c]
  <2>1. /\ wrote[c] \in Seq(Effects) /\ Elements(<<>>) = {} /\ AuditInv
        /\ Wrote(c, "Changed") <=> "Changed" \in Elements(wrote[c])
        /\ Wrote(c, "Refused") <=> "Refused" \in Elements(wrote[c])
    BY <1>0, WroteFacts, OneEntry DEF ConnInv, ShapeInv
  <2>2. pc[c] = "reply" => Owed(c) = Elements(wrote[c])
    BY <2>1 DEF AuditInv, Owed
  <2>3. Wrote(c, "Refused") => pc[c] \in {"record", "reply"} /\ "Refused" \in Owed(c)
    BY <2>1 DEF AuditInv, Owed
  <2> QED BY <2>1, <2>2, <2>3 DEF AuditInv
<1> QED BY <1>5, <1>6 DEF AuditIsTrue, ChangesAreRecorded, RefusedChangesNothing

\* And what the reports are.
LEMMA ReportsFollow ==
  ASSUME IInv
  PROVE  ReportsAreTrue
<1>1. ClaimsAreTrue
  BY DEF IInv, DecoyInv, Listed, ClaimsAreTrue, Status, IsOurs
<1>2. \A c \in Conns : tally[c] <= gone[c] + misled[c]
  BY DEF IInv, CacheInv, Counting
<1> QED BY <1>1, <1>2 DEF ReportsAreTrue, TallyIsTrue

-----------------------------------------------------------------------------
(* The results.                                                            *)

\* dispatch::handle and server::record: whatever the requests and however they
\* interleave, a request that changed what it was asked to has a Changed entry
\* by the time it is answered, unless the store refused one, and a request
\* recorded as Refused changed nothing it was asked to.  (A refused weekly check
\* may leave the scheduler's folder, which no request asks for.)
THEOREM AuditIsTrueAlways == Spec => []AuditIsTrue
<1>1. IInv /\ [Next]_vars => IInv'
  BY NextStep DEF Kept
<1> QED BY <1>1, InitInv, AuditFollows, PTL DEF Spec

\* canary::plant and caches::clear: the decoys an answer lists are there and
\* armed as it says, unless somebody else was at them, and a clear never counts
\* more files than have left its roots since it began, those that others wrote
\* there in the meantime among them; a link or a listing that was misread is
\* set apart.
THEOREM ReportsAreTrueAlways == Spec => []ReportsAreTrue
<1>1. IInv /\ [Next]_vars => IInv'
  BY NextStep DEF Kept
<1> QED BY <1>1, InitInv, ReportsFollow, PTL DEF Spec

\* server::handle_connection: a setting of the machine or a firewall rule
\* changes only at a step taken for a trusted and elevated caller, and so does a
\* cache whose path lay outside the caller's profile when the caller was judged.
THEOREM OnlyForAdministratorsAlways == Spec => OnlyForAdministrators
<1>1. IInv /\ [Next]_vars => IInv'
  BY NextStep DEF Kept
<1>2. IInv /\ [Next]_vars => [ForAdministrators]_vars
  BY NextStep DEF Kept
<1>3. Spec => [][ForAdministrators]_vars
  BY <1>1, <1>2, InitInv, PTL DEF Spec
<1> QED BY <1>3 DEF OnlyForAdministrators, ForAdministrators

\* firewall::remove_our_rule, canary::plant and remove, HeldRoot::open: rules of
\* others that were there when the rules were counted, an owner's file that was
\* there when a request began, and what lies behind a link at the root of a cache
\* or anywhere under it stay.
THEOREM OthersThingsStayAlways == Spec => OthersThingsStay
<1>1. IInv /\ [Next]_vars => IInv'
  BY NextStep DEF Kept
<1>2. IInv /\ [Next]_vars => [ForeignRulesStay /\ OwnersFileStays /\ LinksNotFollowed']_vars
  <2> SUFFICES ASSUME IInv, [Next]_vars
               PROVE  ForeignRulesStay /\ OwnersFileStays /\ LinksNotFollowed'
    OBVIOUS
  <2> QED BY NextStep DEF Kept, IInv, CacheInv, LinksNotFollowed
<1> QED BY <1>1, <1>2, InitInv, PTL DEF Spec, OthersThingsStay
=============================================================================

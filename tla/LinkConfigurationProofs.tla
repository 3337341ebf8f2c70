---------------------- MODULE LinkConfigurationProofs ----------------------
(***************************************************************************)
(* Theorems about the link configuration plug-in for any set of interfaces,*)
(* settings and children: what settles, whatever comes, goes and fails.    *)
(***************************************************************************)
EXTENDS LinkConfiguration, TLAPS

\* What the plug-in takes to be due: by the request that it has seen.
Wanted(i, field) ==
  IF wantSettings[i] # Nothing /\ wantSettings[i][field] # Unset
  THEN wantSettings[i][field] ELSE Default

\* A running ifconfig has a callout and a request.
Children ==
  /\ wanted \subseteq Pids
  /\ \A p \in Pids : child[p] # "none" =>
       p \in wanted /\ request[p] \in [if : Interfaces, mtu : MTUs]

\* What is in the store is what the plug-in has seen, or has copied, or a callback is
\* due.
Seen ==
  /\ \A i \in Interfaces \ told :
       IF i \in keys THEN info[i] = setup[i] ELSE wantSettings[i] = setup[i]
  /\ \A i \in attached : \/ Known(i) \/ toldList
                         \/ newInterfaces # Nothing /\ i \in newInterfaces
  /\ \A i \in Interfaces \ attached : media[i] = Default /\ mtu[i] = Default

\* Media options, as long as nothing failed: what is remembered is the default, and
\* so is what is there when nothing is remembered.  An interface that the plug-in
\* knows has what it wants.
MediaKept ==
  \A i \in Interfaces : <<i, "media">> \notin missed =>
    /\ baseSettings[i] = Nothing => media[i] = Default
    /\ baseSettings[i] # Nothing => baseSettings[i].media = Default
    /\ i \in attached /\ Known(i) => media[i] = Wanted(i, "media")

\* The MTU: the same, as soon as no ifconfig of the interface is running, and a
\* running one is about to set what is wanted.
MTUKept ==
  \A i \in Interfaces : <<i, "mtu">> \notin missed =>
    /\ baseSettings[i] = Nothing /\ ~Pending(i) => mtu[i] = Default
    /\ baseSettings[i] # Nothing => baseSettings[i].mtu = Default
    /\ i \in attached /\ Known(i) /\ ~Pending(i) => mtu[i] = Wanted(i, "mtu")
    /\ \A p \in Pids : child[p] = "running" /\ request[p].if = i =>
         /\ request[p].mtu = Wanted(i, "mtu")
         /\ baseSettings[i] = Nothing => request[p].mtu = Default

\* The inductive invariant.
IInv == TypeOK /\ Children /\ Seen /\ MediaKept /\ MTUKept

-----------------------------------------------------------------------------
(* The inductive invariant is one.  *)

\* All interfaces have the default settings, and none has been seen.
LEMMA InitIInv == Init => IInv
<1> SUFFICES ASSUME Init PROVE IInv
  OBVIOUS
<1> USE LinkAssumption
<1>1. TypeOK
  BY DEF Init, ExecInit, TypeOK, Stages, NoRequest
<1>2. Children /\ Seen
  BY DEF Init, ExecInit, Children, Seen
<1>3. MediaKept /\ MTUKept
  BY DEF Init, ExecInit, MediaKept, MTUKept, Known
<1> QED
  BY <1>1, <1>2, <1>3 DEF IInv

\* A request in the store changes, an interface comes or goes.
LEMMA WorldIInv ==
  ASSUME IInv, NEW i \in Interfaces,
         \/ \E options \in Options \cup {Nothing} : Ask(i, options)
         \/ Detach(i)
         \/ Attach(i)
  PROVE  IInv'
<1> USE LinkAssumption DEF IInv
<1>0. UNCHANGED <<child, wanted, callback, kept, request>>
  BY DEF Ask, Detach, Attach
<1>01. /\ UNCHANGED <<keys, info, newInterfaces, oldInterfaces, wantSettings, baseSettings>>
       /\ UNCHANGED <<child, wanted, request>>
  BY <1>0 DEF callback, kept
<1>02. \A j \in Interfaces : /\ Known(j)' <=> Known(j)
                             /\ Pending(j)' <=> Pending(j)
                             /\ Wanted(j, "media")' = Wanted(j, "media")
                             /\ Wanted(j, "mtu")' = Wanted(j, "mtu")
  BY <1>01 DEF Known, Pending, Wanted
<1>1. CASE \E options \in Options \cup {Nothing} : Ask(i, options)
  <2>1. /\ told' = told \cup {i} /\ UNCHANGED <<attached, toldList, media, mtu, missed>>
        /\ setup' \in [Interfaces -> Requests \cup {Nothing}]
        /\ \A j \in Interfaces \ {i} : setup'[j] = setup[j]
    BY <1>1 DEF Ask, TypeOK
  <2>2. TypeOK' /\ Children'
    BY <1>01, <2>1 DEF TypeOK, Children
  <2>3. Seen'
    BY <1>01, <1>02, <2>1 DEF Seen, TypeOK
  <2>4. MediaKept' /\ MTUKept'
    BY <1>01, <1>02, <2>1 DEF MediaKept, MTUKept
  <2> QED
    BY <2>2, <2>3, <2>4
<1>2. CASE Detach(i)
  <2>1. /\ media' \in [Interfaces -> Media] /\ mtu' \in [Interfaces -> MTUs]
        /\ \A j \in Interfaces : /\ media'[j] = IF j = i THEN Default ELSE media[j]
                                 /\ mtu'[j] = IF j = i THEN Default ELSE mtu[j]
        /\ attached' = attached \ {i} /\ toldList' = TRUE
        /\ UNCHANGED <<setup, told, missed>>
    BY <1>2 DEF Detach, TypeOK
  <2>2. TypeOK' /\ Children'
    BY <1>01, <2>1 DEF TypeOK, Children
  <2>3. Seen'
    BY <1>01, <1>02, <2>1 DEF Seen
  <2>4. MediaKept'
    BY <1>01, <1>02, <2>1 DEF MediaKept
  <2>5. MTUKept'
    BY <1>01, <1>02, <2>1 DEF MTUKept
  <2> QED
    BY <2>2, <2>3, <2>4, <2>5
<1>3. CASE Attach(i)
  <2>1. /\ attached' = attached \cup {i} /\ toldList' = TRUE
        /\ missed \subseteq missed' /\ missed' \subseteq Interfaces \X {"media", "mtu"}
        /\ Known(i) => <<i, "media">> \in missed' /\ <<i, "mtu">> \in missed'
        /\ UNCHANGED <<setup, told, media, mtu>>
    BY <1>3 DEF Attach, TypeOK
  <2>2. TypeOK' /\ Children'
    BY <1>01, <2>1 DEF TypeOK, Children
  <2>3. Seen'
    BY <1>01, <1>02, <2>1 DEF Seen
  <2>4. MediaKept'
    BY <1>01, <1>02, <2>1 DEF MediaKept
  <2>5. MTUKept'
    BY <1>01, <1>02, <2>1 DEF MTUKept
  <2> QED
    BY <2>2, <2>3, <2>4, <2>5
<1> QED
  BY <1>1, <1>2, <1>3

\* An ifconfig ends, or is called out.
LEMMA IfconfigIInv ==
  ASSUME IInv, NEW p \in Pids, (\E ok \in BOOLEAN : ifconfig(p, ok)) \/ ifconfig_exit(p)
  PROVE  IInv'
<1> USE LinkAssumption DEF IInv
<1>1. ASSUME NEW ok \in BOOLEAN, ifconfig(p, ok) PROVE IInv'
  <2> DEFINE i == request[p].if
  <2>1. /\ child[p] = "running" /\ request[p] \in [if : Interfaces, mtu : MTUs]
        /\ i \in Interfaces /\ request[p].mtu \in MTUs
    BY <1>1 DEF ifconfig, Exit, Children
  <2>2. /\ child' = [child EXCEPT ![p] = "exited"]
        /\ missed \subseteq missed' /\ missed' \subseteq Interfaces \X {"media", "mtu"}
        /\ UNCHANGED <<wanted, setup, told, attached, toldList, keys, info, newInterfaces,
                       oldInterfaces, wantSettings, baseSettings, media, request>>
    BY <1>1, <2>1 DEF ifconfig, Exit, TypeOK, store, callback, kept
  <2>3. \/ i \in attached /\ mtu' = [mtu EXCEPT ![i] = request[p].mtu]
        \/ mtu' = mtu /\ (i \in attached => <<i, "mtu">> \in missed')
    BY <1>1, <2>1 DEF ifconfig
  <2> HIDE DEF i
  <2>4. TypeOK' /\ Children' /\ Seen'
    BY <2>1, <2>2, <2>3 DEF TypeOK, Children, Seen, Known, Stages, i
  <2>5. MediaKept'
    BY <2>2 DEF MediaKept, Wanted, Known
  <2>6. MTUKept'
    <3> SUFFICES ASSUME NEW j \in Interfaces, <<j, "mtu">> \notin missed'
                 PROVE  /\ baseSettings'[j] = Nothing /\ ~Pending(j)' => mtu'[j] = Default
                        /\ baseSettings'[j] # Nothing => baseSettings'[j].mtu = Default
                        /\ j \in attached' /\ Known(j)' /\ ~Pending(j)' => mtu'[j] = Wanted(j, "mtu")'
                        /\ \A q \in Pids : child'[q] = "running" /\ request'[q].if = j =>
                             /\ request'[q].mtu = Wanted(j, "mtu")'
                             /\ baseSettings'[j] = Nothing => request'[q].mtu = Default
      BY DEF MTUKept
    <3>1. <<j, "mtu">> \notin missed
      BY <2>2
    <3>2. \A q \in Pids : child'[q] = "running" <=> child[q] = "running" /\ q # p
      BY <2>2 DEF TypeOK
    <3>3. Wanted(j, "mtu")' = Wanted(j, "mtu") /\ (Known(j)' <=> Known(j))
      BY <2>2 DEF Wanted, Known
    <3>4. CASE j = i
      <4>1. /\ request[p].mtu = Wanted(j, "mtu")
            /\ baseSettings[j] = Nothing => request[p].mtu = Default
        BY <2>1, <3>1, <3>4 DEF MTUKept, i
      <4>2. j \notin attached => mtu[j] = Default
        BY DEF Seen
      <4>3. mtu'[j] = IF j \in attached THEN request[p].mtu ELSE Default
        BY <2>3, <3>4, <4>2 DEF TypeOK
      <4> QED
        BY <2>2, <3>1, <3>2, <3>3, <4>1, <4>3 DEF MTUKept
    <3>5. CASE j # i
      <4>1. mtu'[j] = mtu[j]
        BY <2>3, <3>5 DEF TypeOK
      <4>2. Pending(j)' <=> Pending(j)
        BY <2>2, <3>2, <3>5 DEF Pending, i
      <4> QED
        BY <2>2, <3>1, <3>2, <3>3, <4>1, <4>2 DEF MTUKept
    <3> QED
      BY <3>4, <3>5
  <2> QED
    BY <2>4, <2>5, <2>6
<1>2. CASE ifconfig_exit(p)
  <2>1. /\ child[p] = "exited" /\ child' = [child EXCEPT ![p] = "none"]
        /\ wanted' = wanted \ {p} /\ request' = [request EXCEPT ![p] = NoRequest]
        /\ UNCHANGED <<setup, told, attached, toldList, keys, info, newInterfaces,
                       oldInterfaces, wantSettings, baseSettings, media, mtu, missed>>
    BY <1>2 DEF ifconfig_exit, Callout, store, callback, kept
  <2>2. \A q \in Pids : IF q = p THEN child[q] # "running" /\ child'[q] = "none"
                                 ELSE child'[q] = child[q] /\ request'[q] = request[q]
    BY <2>1 DEF TypeOK
  <2>3. TypeOK'
    BY <2>1 DEF TypeOK, Stages
  <2>4. Children' /\ Seen'
    BY <2>1, <2>2 DEF Children, Seen, Known
  <2>5. MediaKept'
    BY <2>1 DEF MediaKept, Wanted, Known
  <2>6. MTUKept'
    <3>1. \A i \in Interfaces : /\ Pending(i)' <=> Pending(i)
                                /\ Known(i)' <=> Known(i)
                                /\ Wanted(i, "mtu")' = Wanted(i, "mtu")
      BY <2>1, <2>2 DEF Pending, Wanted, Known
    <3> QED
      BY <2>1, <2>2, <3>1 DEF MTUKept
  <2> QED
    BY <2>3, <2>4, <2>5, <2>6
<1> QED
  BY <1>1, <1>2

\* The callback copies what has changed, or has worked on the whole list.
LEMMA CallbackIInv ==
  ASSUME IInv, linkConfigChangedCallback \/ ListIsSeen
  PROVE  IInv'
<1> USE LinkAssumption DEF IInv
<1>0. UNCHANGED <<child, wanted, setup, attached, wantSettings, baseSettings, media, mtu,
                  request, missed>>
  BY DEF linkConfigChangedCallback, ListIsSeen, store, kept
<1>1. \A i \in Interfaces : /\ Pending(i)' <=> Pending(i)
                            /\ Wanted(i, "media")' = Wanted(i, "media")
                            /\ Wanted(i, "mtu")' = Wanted(i, "mtu")
  BY <1>0 DEF Pending, Wanted
<1>2. CASE linkConfigChangedCallback
  <2>1. /\ keys = {} /\ newInterfaces = Nothing /\ keys' = told /\ told' = {}
        /\ info' = [i \in Interfaces |-> IF i \in told THEN setup[i] ELSE Nothing]
        /\ newInterfaces' = IF toldList THEN attached ELSE Nothing
        /\ oldInterfaces' = oldInterfaces
    BY <1>2 DEF linkConfigChangedCallback, kept
  <2>2. attached # Nothing
    BY DEF TypeOK
  <2>3. \A i \in attached : Known(i)' <=> Known(i)
    BY <2>1, <2>2 DEF Known
  <2>4. TypeOK' /\ Children'
    BY <1>0, <2>1 DEF TypeOK, Children
  <2>5. Seen'
    <3>1. \A i \in Interfaces \ told' :
            IF i \in keys' THEN info'[i] = setup'[i] ELSE wantSettings'[i] = setup'[i]
      BY <1>0, <2>1 DEF Seen
    <3>2. \A i \in attached' : \/ Known(i)' \/ toldList'
                               \/ newInterfaces' # Nothing /\ i \in newInterfaces'
      BY <1>0, <2>1, <2>2, <2>3 DEF Seen
    <3> QED
      BY <1>0, <3>1, <3>2 DEF Seen
  <2>6. MediaKept' /\ MTUKept'
    BY <1>0, <1>1, <2>3 DEF MediaKept, MTUKept
  <2> QED
    BY <2>4, <2>5, <2>6
<1>3. CASE ListIsSeen
  <2>1. /\ newInterfaces # Nothing /\ newInterfaces \subseteq oldInterfaces
        /\ oldInterfaces' = newInterfaces /\ newInterfaces' = Nothing
        /\ UNCHANGED <<told, toldList, keys, info>>
    BY <1>3 DEF ListIsSeen, store
  <2>2. \A i \in Interfaces : Known(i)' <=> Known(i)
    BY <2>1 DEF Known
  <2>3. TypeOK' /\ Children'
    BY <1>0, <2>1 DEF TypeOK, Children
  <2>4. Seen'
    <3>1. \A i \in attached' : Known(i)' \/ toldList'
      BY <1>0, <2>1, <2>2 DEF Seen, Known, TypeOK
    <3> QED
      BY <1>0, <2>1, <3>1 DEF Seen
  <2>5. MediaKept' /\ MTUKept'
    BY <1>0, <1>1, <2>2 DEF MediaKept, MTUKept
  <2> QED
    BY <2>3, <2>4, <2>5
<1> QED
  BY <1>2, <1>3

\* updateLink, for a request as copied or as remembered: the settings of an interface
\* that exists become what is wanted, or an ifconfig is under way, or it is missed.
LEMMA UpdateIInv ==
  ASSUME IInv, NEW i \in Interfaces, NEW options \in Requests \cup {Nothing},
         updateLink(i, options), UNCHANGED store, UNCHANGED newInterfaces,
         info' \in [Interfaces -> Requests \cup {Nothing}],
         \A j \in keys' : info'[j] = info[j],
         \/ /\ i \in keys /\ options = info[i] /\ keys' = keys \ {i}
            /\ oldInterfaces' = oldInterfaces
         \/ /\ options = wantSettings[i] /\ keys' = keys
            /\ newInterfaces # Nothing /\ i \in newInterfaces
            /\ oldInterfaces' = oldInterfaces \cup {i}
  PROVE  IInv'
<1> USE LinkAssumption DEF IInv
<1> DEFINE due(field) == IF options # Nothing /\ options[field] # Unset
                         THEN options[field] ELSE Default
<1>0. PICK base \in BaseFor(i, options) :
        LET wish == Chosen(options, base, "media", media[i])
            unset == {f \in {"media"} : i \in attached /\ media'[i] # wish} IN
        /\ wantSettings' = [wantSettings EXCEPT ![i] = options]
        /\ baseSettings' = [baseSettings EXCEPT
                              ![i] = IF options = Nothing THEN Nothing ELSE base]
        /\ SetMediaOptions(i, wish)
        /\ SetMTU(i, Chosen(options, base, "mtu", mtu[i]),
                  Unread(i, options, base) \cup ({i} \X unset))
        /\ mtu' = mtu
  BY Zenon DEF updateLink
<1> DEFINE wish == Chosen(options, base, "media", media[i])
           value == Chosen(options, base, "mtu", mtu[i])
           lost == Unread(i, options, base)
                     \cup ({i} \X {f \in {"media"} : i \in attached /\ media'[i] # wish})
<1>01. UNCHANGED <<setup, told, attached, toldList>>
  BY DEF store
<1>1. /\ base \in Requests \cup {Nothing}
      /\ baseSettings[i] # Nothing => base = baseSettings[i]
      /\ options = Nothing \/ i \notin attached => base = baseSettings[i]
      /\ baseSettings[i] = Nothing /\ base # Nothing =>
           base.media \in {media[i], Unset} /\ base.mtu \in {mtu[i], Unset}
  <2>1. media[i] \in Media /\ mtu[i] \in MTUs /\ baseSettings[i] \in Requests \cup {Nothing}
    BY DEF TypeOK
  <2>2. CASE base = baseSettings[i]
    BY <2>1, <2>2
  <2>3. CASE base # baseSettings[i]
    <3>1. /\ options # Nothing /\ i \in attached /\ baseSettings[i] = Nothing
          /\ base \in Readable(i)
      BY <2>3 DEF BaseFor
    <3>2. \/ base = Nothing
          \/ base \in [media : {media[i], Unset}, mtu : {mtu[i], Unset}]
      BY <3>1 DEF Readable
    <3> QED
      BY <2>1, <3>1, <3>2 DEF Requests
  <2> QED
    BY <2>2, <2>3
<1>2. Nothing \notin Requests
  OBVIOUS
<1>3. /\ options # Nothing /\ i \in attached /\ (base = Nothing \/ base.media = Unset)
           => <<i, "media">> \in lost
      /\ options # Nothing /\ i \in attached /\ (base = Nothing \/ base.mtu = Unset)
           => <<i, "mtu">> \in lost
      /\ i \in attached /\ media'[i] # wish => <<i, "media">> \in lost
      /\ lost \subseteq {i} \X {"media", "mtu"}
  BY DEF Unread
<1>4. /\ wish \in Media /\ value \in MTUs
  BY <1>1 DEF Chosen, Requests, TypeOK
<1>5. /\ media' \in [Interfaces -> Media]
      /\ \A j \in Interfaces : j # i \/ i \notin attached => media'[j] = media[j]
  BY <1>0, <1>4 DEF SetMediaOptions, TypeOK
<1>6. /\ wantSettings' = [wantSettings EXCEPT ![i] = options]
      /\ baseSettings' = [baseSettings EXCEPT ![i] = IF options = Nothing THEN Nothing ELSE base]
      /\ SetMTU(i, value, lost)
      /\ mtu' = mtu
  BY <1>0
<1> HIDE DEF lost
<1>7. \A j \in Interfaces :
        /\ wantSettings'[j] = IF j = i THEN options ELSE wantSettings[j]
        /\ baseSettings'[j] = IF j # i THEN baseSettings[j]
                              ELSE IF options = Nothing THEN Nothing ELSE base
  BY <1>6 DEF TypeOK
<1>8. /\ due("media") = Wanted(i, "media")' /\ due("mtu") = Wanted(i, "mtu")'
      /\ \A j \in Interfaces \ {i} : /\ Wanted(j, "media")' = Wanted(j, "media")
                                     /\ Wanted(j, "mtu")' = Wanted(j, "mtu")
                                     /\ Known(j)' <=> Known(j)
  BY <1>7 DEF Wanted, Known
<1>9. missed \cup lost \subseteq missed' /\ missed' \subseteq Interfaces \X {"media", "mtu"}
  <2>1. missed \cup lost \subseteq missed' /\ missed' \subseteq missed \cup lost \cup {<<i, "mtu">>}
    BY <1>6 DEF SetMTU
  <2> QED
    BY <1>3, <2>1 DEF TypeOK
<1> HIDE DEF wish, value
<1>10. \/ UNCHANGED <<child, wanted, request>> /\ (i \notin attached \/ value = mtu[i] \/ <<i, "mtu">> \in missed')
       \/ /\ i \in attached /\ value # mtu[i]
          /\ \E p \in Pids : /\ Start(p, TRUE)
                             /\ request' = [request EXCEPT ![p] = [if |-> i, mtu |-> value]]
  BY <1>6 DEF SetMTU
<1>11. Pending(i) => <<i, "mtu">> \in missed'
  BY <1>6 DEF SetMTU
<1>12. TypeOK' /\ Children'
  <2>0. keys' \subseteq Interfaces /\ oldInterfaces' \subseteq Interfaces
    BY DEF TypeOK
  <2>1. CASE UNCHANGED <<child, wanted, request>>
    BY <1>01, <1>1, <1>5, <1>6, <1>9, <2>0, <2>1 DEF TypeOK, Children
  <2>2. ASSUME NEW p \in Pids, Start(p, TRUE),
               request' = [request EXCEPT ![p] = [if |-> i, mtu |-> value]]
        PROVE  TypeOK' /\ Children'
    <3>1. /\ child' \in [Pids -> Stages] /\ wanted' = wanted \cup {p}
          /\ request' \in [Pids -> [if : Interfaces, mtu : MTUs] \cup {NoRequest}]
      BY <1>4, <2>2 DEF Start, TypeOK, Stages
    <3>2. \A q \in Pids : IF q = p THEN request'[q] = [if |-> i, mtu |-> value]
                          ELSE child'[q] = child[q] /\ request'[q] = request[q]
      BY <2>2 DEF Start, TypeOK
    <3>3. TypeOK'
      BY <1>01, <1>1, <1>5, <1>6, <1>9, <2>0, <3>1 DEF TypeOK
    <3>4. Children'
      BY <1>4, <3>1, <3>2 DEF Children
    <3> QED
      BY <3>3, <3>4
  <2> QED
    BY <1>10, <2>1, <2>2
<1>13. Seen'
  <2>1. \A j \in Interfaces \ told' :
          IF j \in keys' THEN info'[j] = setup'[j] ELSE wantSettings'[j] = setup'[j]
    BY <1>01, <1>7 DEF Seen
  <2>2. Known(i) => Known(i)'
    BY DEF Known
  <2>3. \A j \in attached' : \/ Known(j)' \/ toldList'
                             \/ newInterfaces' # Nothing /\ j \in newInterfaces'
    BY <1>01, <1>8, <2>2 DEF Seen, TypeOK
  <2>4. \A j \in Interfaces \ attached' : media'[j] = Default /\ mtu'[j] = Default
    BY <1>01, <1>5, <1>6 DEF Seen
  <2> QED
    BY <2>1, <2>3, <2>4 DEF Seen
<1>14. MediaKept'
  <2> SUFFICES ASSUME NEW j \in Interfaces, <<j, "media">> \notin missed'
               PROVE  /\ baseSettings'[j] = Nothing => media'[j] = Default
                      /\ baseSettings'[j] # Nothing => baseSettings'[j].media = Default
                      /\ j \in attached' /\ Known(j)' => media'[j] = Wanted(j, "media")'
    BY DEF MediaKept
  <2>1. <<j, "media">> \notin missed /\ <<j, "media">> \notin lost
    BY <1>9
  <2>2. CASE j # i
    BY <1>01, <1>5, <1>7, <1>8, <2>1, <2>2 DEF MediaKept
  <2>3. CASE j = i
    <3>1. i \notin attached => media[i] = Default
      BY DEF Seen
    <3>2. options # Nothing /\ i \in attached => base # Nothing /\ base.media # Unset
      BY <1>3, <2>1, <2>3
    <3>3. /\ base # Nothing => base.media \in {Default, Unset}
          /\ base = Nothing => media[i] = Default
      BY <1>1, <1>2, <2>1, <2>3 DEF MediaKept
    <3>4. base # Nothing /\ (options = Nothing \/ i \notin attached) => base.media = Default
      BY <1>1, <2>1, <2>3 DEF MediaKept
    <3>5. wish = due("media")
      BY <3>1, <3>2, <3>3, <3>4 DEF wish, Chosen
    <3>6. media'[i] = IF i \in attached THEN due("media") ELSE media[i]
      BY <1>3, <1>5, <2>1, <2>3, <3>5
    <3>7. options = Nothing => due("media") = Default
      OBVIOUS
    <3>8. baseSettings'[i] = IF options = Nothing THEN Nothing ELSE base
      BY <1>7
    <3> HIDE DEF due
    <3> QED
      BY <1>01, <1>8, <2>3, <3>1, <3>2, <3>3, <3>4, <3>6, <3>7, <3>8
  <2> QED
    BY <2>2, <2>3
<1>15. MTUKept'
  <2> SUFFICES ASSUME NEW j \in Interfaces, <<j, "mtu">> \notin missed'
               PROVE  /\ baseSettings'[j] = Nothing /\ ~Pending(j)' => mtu'[j] = Default
                      /\ baseSettings'[j] # Nothing => baseSettings'[j].mtu = Default
                      /\ j \in attached' /\ Known(j)' /\ ~Pending(j)' => mtu'[j] = Wanted(j, "mtu")'
                      /\ \A p \in Pids : child'[p] = "running" /\ request'[p].if = j =>
                           /\ request'[p].mtu = Wanted(j, "mtu")'
                           /\ baseSettings'[j] = Nothing => request'[p].mtu = Default
    BY DEF MTUKept
  <2>1. <<j, "mtu">> \notin missed /\ <<j, "mtu">> \notin lost
    BY <1>9
  <2>2. \A p \in Pids : child'[p] = "running" /\ request'[p].if = j =>
          \/ child[p] = "running" /\ request[p].if = j /\ request'[p] = request[p]
          \/ j = i /\ request'[p].mtu = value
    BY <1>10 DEF Start, TypeOK
  <2>3. Pending(j) => Pending(j)'
    BY <1>10 DEF Pending, Start, TypeOK
  <2>4. CASE j # i
    BY <1>01, <1>6, <1>7, <1>8, <2>1, <2>2, <2>3, <2>4 DEF MTUKept
  <2>5. CASE j = i
    <3>1. ~Pending(i)
      BY <1>11, <2>5
    <3>0. i \notin attached => mtu[i] = Default
      BY DEF Seen
    <3>2. options # Nothing /\ i \in attached => base # Nothing /\ base.mtu # Unset
      BY <1>3, <2>1, <2>5
    <3>21. /\ base # Nothing => base.mtu \in {Default, Unset}
           /\ base = Nothing => mtu[i] = Default
      BY <1>1, <1>2, <2>1, <2>5, <3>1 DEF MTUKept
    <3>22. base # Nothing /\ (options = Nothing \/ i \notin attached) => base.mtu = Default
      BY <1>1, <2>1, <2>5 DEF MTUKept
    <3>23. options = Nothing => due("mtu") = Default
      OBVIOUS
    <3>3. value = due("mtu")
      BY <3>0, <3>2, <3>21, <3>22 DEF value, Chosen
    <3>4. /\ \A p \in Pids : child'[p] = "running" /\ request'[p].if = i => request'[p].mtu = value
          /\ i \in attached /\ ~Pending(i)' => mtu[i] = value
      BY <1>10, <2>2, <2>5, <3>1 DEF Pending, Start, TypeOK
    <3>5. i \notin attached => mtu[i] = Default
      BY DEF Seen
    <3>6. baseSettings'[i] = Nothing /\ i \in attached => value = Default
      BY <1>7, <3>2, <3>23, <3>3
    <3>61. baseSettings'[i] # Nothing => baseSettings'[i].mtu = Default
      BY <1>7, <3>2, <3>21, <3>22
    <3>7. \A p \in Pids : child'[p] = "running" /\ request'[p].if = i => i \in attached
      BY <1>10, <3>1 DEF Pending, Start, TypeOK
    <3> QED
      BY <1>01, <1>6, <1>8, <2>5, <3>3, <3>4, <3>5, <3>6, <3>61, <3>7
  <2> QED
    BY <2>4, <2>5
<1> QED
  BY <1>12, <1>13, <1>14, <1>15

\* Every step preserves the invariant.
LEMMA NextIInv == IInv /\ [Next]_vars => IInv'
<1> SUFFICES ASSUME IInv, [Next]_vars PROVE IInv'
  OBVIOUS
<1>1. CASE UNCHANGED vars
  BY <1>1 DEF vars, store, callback, kept, IInv, TypeOK, Children, Seen, MediaKept, MTUKept,
              Wanted, Pending, Known
<1>2. ASSUME NEW i \in Interfaces, RequestChanged(i) PROVE IInv'
  <2>1. /\ info[i] \in Requests \cup {Nothing} /\ i \in keys /\ keys \subseteq Interfaces
        /\ info \in [Interfaces -> Requests \cup {Nothing}]
        /\ keys' = keys \ {i} /\ info' = [info EXCEPT ![i] = Nothing]
        /\ UNCHANGED <<store, newInterfaces, oldInterfaces>> /\ updateLink(i, info[i])
    BY <1>2 DEF IInv, TypeOK, RequestChanged
  <2>2. /\ info' \in [Interfaces -> Requests \cup {Nothing}]
        /\ \A j \in keys' : info'[j] = info[j]
    BY <2>1
  <2> QED
    BY <2>1, <2>2, UpdateIInv
<1>3. ASSUME NEW i \in Interfaces, InterfaceIsNew(i) PROVE IInv'
  <2>1. /\ wantSettings[i] \in Requests \cup {Nothing}
        /\ info \in [Interfaces -> Requests \cup {Nothing}]
        /\ newInterfaces # Nothing /\ i \in newInterfaces
        /\ oldInterfaces' = oldInterfaces \cup {i}
        /\ UNCHANGED <<store, keys, info, newInterfaces>> /\ updateLink(i, wantSettings[i])
    BY <1>3 DEF IInv, TypeOK, InterfaceIsNew, callback
  <2> QED
    BY <2>1, UpdateIInv
<1> QED
  BY <1>1, <1>2, <1>3, WorldIInv, IfconfigIInv, CallbackIInv DEF Next

-----------------------------------------------------------------------------
(* Theorems.  *)

\* At rest every interface has the media options that are requested for it, or
\* those it had before the first request (linkconfig.c, updateLink), whatever order
\* requests are set, changed and removed in and interfaces come and go; but for those
\* whose options could not be read or set once and those that were back before they
\* were seen to go.
THEOREM MediaOptionsSettle == Spec => []LinkInv
<1>1. IInv => LinkInv
  <2> SUFFICES ASSUME IInv, Quiet, NEW i \in attached, <<i, "media">> \notin missed
               PROVE  media[i] = Due(i, "media")
    BY DEF LinkInv, MediaSettle, Settles, IInv
  <2>1. i \in Interfaces /\ Known(i) /\ wantSettings[i] = setup[i]
    BY DEF IInv, TypeOK, Seen, Quiet
  <2> QED
    BY <2>1 DEF IInv, MediaKept, Wanted, Due
<1> QED
  BY <1>1, InitIInv, NextIInv, PTL DEF Spec

\* At rest every interface has the MTU that is requested for it, or the one it had
\* before the first request ("restore original settings", linkconfig.c:473), unless
\* the MTU could not be read, an ifconfig failed or a request met a running one.
THEOREM MTUsSettle == Spec => []MTUSettles
<1>1. IInv => MTUSettles
  <2> SUFFICES ASSUME IInv, Quiet, NEW i \in attached, <<i, "mtu">> \notin missed
               PROVE  mtu[i] = Due(i, "mtu")
    BY DEF MTUSettles, Settles
  <2>1. i \in Interfaces /\ Known(i) /\ wantSettings[i] = setup[i]
    BY DEF IInv, TypeOK, Seen, Quiet
  <2>2. ~Pending(i)
    BY DEF IInv, Children, Quiet, Pending
  <2> QED
    BY <2>1, <2>2 DEF IInv, MTUKept, Wanted, Due
<1> QED
  BY <1>1, InitIInv, NextIInv, PTL DEF Spec
=============================================================================

-------------------------- MODULE ChatClientProofs --------------------------
(***************************************************************************)
(* Proofs about ChatClient, for any prompts, answers, timeouts and bounds: *)
(* nothing of a request that broke off gets into the next one, into the    *)
(* answer box or into the conversation.                                    *)
(***************************************************************************)
EXTENDS ChatClient, FoldTheorems

\* What answers are made of, and what the service sends.
Pieces == UNION {{a[i] : i \in DOMAIN a} : a \in AnswerTexts}
Item == {Piece(c) : c \in Pieces} \cup {DONE, BAD_REQUEST}
Message ==
  {SEPARATOR, system_content} \cup {User(p) : p \in Prompts} \cup {Assistant(t) : t \in Seq(Pieces)}
Sent(a) == Append([i \in DOMAIN a |-> Piece(a[i])], DONE)
Pending == incoming \o reply

ChatTypes ==
  /\ chatPc \in {"idle", "connect", "send", "check", "read"}
  /\ historical_messages \in Seq(Message)
  /\ completeAppendedReply \in Seq(Pieces) /\ given \in Seq(Pieces)
  /\ incoming \in Seq(Item) /\ reply \in Seq(Item)

\* r is the beginning of g, and p goes on right after it, up to where the service fell
\* silent.
Begins(r, g) == Len(r) <= Len(g) /\ \A i \in 1 .. Len(r) : r[i] = g[i]
Follows(p, r, g) ==
  \A j \in 1 .. Len(p) : Len(r) + j <= Len(g) + 1 /\ p[j] = Sent(g)[Len(r) + j]

\* While a reply is read: what has been read is the beginning of the answer, and what is
\* still to be read follows it; or the request was refused.
Begun == Begins(completeAppendedReply, given)
OnItsWay == Follows(Pending, completeAppendedReply, given)
Refused == Pending = <<BAD_REQUEST>> /\ given = << >>
ReadInv ==
  Waiting => /\ box = completeAppendedReply
             /\ Begun /\ (OnItsWay \/ Refused)
             /\ <<Last(historical_messages), given>> \in answered

\* Before a reply is read: a connection starts with nothing to read and an empty box.
ReadyInv ==
  /\ chatPc = "send" => box = << >> /\ incoming = << >> /\ reply = << >>
  /\ chatPc # "idle" => historical_messages # << >>
  /\ chatPc \in {"send", "check", "read"} => status # "press ESCape to stream"

ChatInv == ChatTypes /\ ReadInv /\ ReadyInv /\ OfferedIsWhole /\ ConversationFaithful

-----------------------------------------------------------------------------
(* Pieces and messages *)

LEMMA ItemKinds ==
  /\ DONE.kind # "content" /\ BAD_REQUEST.kind # "content" /\ DONE # BAD_REQUEST
  /\ \A c : Piece(c).kind = "content" /\ Piece(c).text = <<c>> /\ Piece(c) # DONE
            /\ Piece(c) # BAD_REQUEST
  /\ \A b, c : Piece(b) = Piece(c) => b = c
<1>1. DONE.kind = "[DONE]" /\ BAD_REQUEST.kind = "Bad Request"
  BY DEF DONE, BAD_REQUEST
<1>2. \A c : Piece(c).kind = "content" /\ Piece(c).text = <<c>>
  BY DEF Piece
<1>3. \A b, c : <<b>> = <<c>> => b = c
  OBVIOUS
<1>4. "content" # "[DONE]" /\ "content" # "Bad Request" /\ "[DONE]" # "Bad Request"
  OBVIOUS
<1>5. DONE # BAD_REQUEST /\ \A c : Piece(c) # DONE /\ Piece(c) # BAD_REQUEST
  BY <1>1, <1>2, <1>4
<1>6. \A b, c : Piece(b) = Piece(c) => b = c
  BY <1>2, <1>3
<1> QED
  BY <1>1, <1>2, <1>4, <1>5, <1>6

LEMMA PiecesOfAnswers ==
  ASSUME NEW a \in AnswerTexts
  PROVE  a \in Seq(Pieces)
<1>1. a \in Seq({a[i] : i \in DOMAIN a})
  BY AnswersAssumption
<1>2. {a[i] : i \in DOMAIN a} \subseteq Pieces
  BY DEF Pieces
<1> QED
  BY <1>1, <1>2

LEMMA WhatIsSent ==
  ASSUME NEW a \in Seq(Pieces)
  PROVE  /\ Sent(a) \in Seq(Item) /\ Len(Sent(a)) = Len(a) + 1
         /\ \A k \in 1 .. Len(a) : Sent(a)[k] = Piece(a[k])
         /\ Sent(a)[Len(a) + 1] = DONE
<1> DEFINE s == [i \in DOMAIN a |-> Piece(a[i])]
<1>1. DOMAIN a = 1 .. Len(a) /\ Len(a) \in Nat /\ \A i \in 1 .. Len(a) : a[i] \in Pieces
  OBVIOUS
<1>2. DONE \in Item /\ \A i \in 1 .. Len(a) : Piece(a[i]) \in Item
  BY <1>1 DEF Item
<1>3. s \in Seq(Item) /\ Len(s) = Len(a) /\ \A k \in 1 .. Len(a) : s[k] = Piece(a[k])
  BY <1>1, <1>2
<1>4. Sent(a) = Append(s, DONE)
  BY DEF Sent
<1> HIDE DEF s
<1> QED
  BY <1>1, <1>2, <1>3, <1>4

\* Two messages put behind a conversation.
LEMMA TwoBehind ==
  ASSUME NEW s \in Seq(Message), NEW a \in Message, NEW b \in Message
  PROVE  /\ s \o <<a, b>> \in Seq(Message) /\ s \o <<a, b>> # << >>
         /\ Len(s \o <<a, b>>) = Len(s) + 2
         /\ (s \o <<a, b>>)[Len(s) + 1] = a /\ (s \o <<a, b>>)[Len(s) + 2] = b
         /\ \A i \in 1 .. Len(s) : (s \o <<a, b>>)[i] = s[i]
<1> DEFINE t == Append(s, a)
           u == Append(t, b)
<1>1. t \in Seq(Message) /\ Len(t) = Len(s) + 1 /\ t[Len(s) + 1] = a
      /\ \A i \in 1 .. Len(s) : t[i] = s[i]
  OBVIOUS
<1>2. Len(s) \in Nat
  OBVIOUS
<1>3. s \o <<a, b>> = u
  BY Behind
<1> HIDE DEF t
<1>4. u \in Seq(Message) /\ Len(u) = Len(s) + 2 /\ u[Len(s) + 2] = b
      /\ \A i \in 1 .. Len(s) + 1 : u[i] = t[i]
  BY <1>1, <1>2
<1>5. u # << >>
  BY <1>2, <1>4
<1> HIDE DEF u
<1> QED
  BY <1>1, <1>2, <1>3, <1>4, <1>5

LEMMA Roles ==
  /\ SEPARATOR.role = "separator" /\ system_content.role = "system"
  /\ \A p : User(p).role = "user"
  /\ \A t : Assistant(t).role = "assistant" /\ Assistant(t).text = t
  BY DEF SEPARATOR, system_content, User, Assistant

-----------------------------------------------------------------------------
(* Types *)

LEMMA ServiceTypes ==
  ASSUME ServiceTakes(historical_messages)
  PROVE  /\ given' \in Seq(Pieces)
         /\ reply' = Sent(given') \/ reply' = << >> \/ (reply' = <<BAD_REQUEST>> /\ given' = << >>)
         /\ reply' \in Seq(Item)
<1>1. \/ \E a \in AnswerTexts : given' = a /\ reply' = Sent(a)
      \/ given' = << >> /\ reply' = << >>
      \/ given' = << >> /\ reply' = <<BAD_REQUEST>>
  BY DEF ServiceTakes, Sent
<1>2. << >> \in Seq(Pieces) /\ << >> \in Seq(Item) /\ <<BAD_REQUEST>> \in Seq(Item)
  <2>1. BAD_REQUEST \in Item
    BY DEF Item
  <2> QED
    BY <2>1
<1>3. CASE \E a \in AnswerTexts : given' = a /\ reply' = Sent(a)
  <2>1. PICK a \in AnswerTexts : given' = a /\ reply' = Sent(a)
    BY <1>3
  <2>2. a \in Seq(Pieces)
    BY PiecesOfAnswers
  <2> QED
    BY <2>1, <2>2, WhatIsSent
<1> QED
  BY <1>1, <1>2, <1>3

LEMMA ReadPieceIs ==
  ASSUME ChatTypes, ReadPiece
  PROVE  \E c \in Pieces : Head(incoming) = Piece(c) /\ Head(incoming).text = <<c>>
<1>1. incoming \in Seq(Item) /\ incoming # << >> /\ Head(incoming).kind = "content"
  BY DEF ChatTypes, ReadPiece
<1>2. Head(incoming) \in Item
  BY <1>1
<1> QED
  BY <1>1, <1>2, ItemKinds DEF Item

LEMMA ChatTypesStep ==
  ASSUME ChatTypes, [ChatNext]_chatVars
  PROVE  ChatTypes'
<1>1. ASSUME NEW p \in Prompts, Ask(p)
      PROVE  ChatTypes'
  <2>1. SEPARATOR \in Message /\ User(p) \in Message
    BY DEF Message
  <2>2. historical_messages' \in Seq(Message)
    BY <1>1, <2>1, TwoBehind DEF Ask, ChatTypes
  <2> QED
    BY <1>1, <2>2 DEF Ask, ChatTypes, serviceVars
<1>2. CASE ConnectFails \/ Connected
  <2>1. << >> \in Seq(Item)
    OBVIOUS
  <2> QED
    BY <1>2, <2>1 DEF ConnectFails, Connected, ChatTypes, timers
<1>3. CASE RequestSent
  <2>1. given' \in Seq(Pieces) /\ reply' \in Seq(Item)
    BY <1>3, ServiceTypes DEF RequestSent
  <2>2. << >> \in Seq(Pieces)
    OBVIOUS
  <2> QED
    BY <1>3, <2>1, <2>2 DEF RequestSent, ChatTypes
<1>4. CASE TimedOut \/ StillWaiting \/ AllRead
  BY <1>4 DEF TimedOut, StillWaiting, AllRead, AfterTimeout, ChatTypes, serviceVars
<1>5. CASE ReadPiece
  <2>1. PICK c \in Pieces : Head(incoming).text = <<c>>
    BY <1>5, ReadPieceIs
  <2>2. completeAppendedReply' \in Seq(Pieces)
    <3>1. completeAppendedReply' = completeAppendedReply \o <<c>>
      BY <1>5, <2>1 DEF ReadPiece
    <3> QED
      BY <3>1 DEF ChatTypes
  <2>3. incoming' \in Seq(Item)
    BY <1>5 DEF ReadPiece, ChatTypes
  <2> QED
    BY <1>5, <2>2, <2>3 DEF ReadPiece, ChatTypes, serviceVars
<1>6. CASE ReadBadRequest
  <2>1. << >> \in Seq(Message) /\ incoming' \in Seq(Item)
    <3>1. incoming # << >> /\ incoming' = Tail(incoming)
      BY <1>6 DEF ReadBadRequest
    <3> QED
      BY <3>1 DEF ChatTypes
  <2> QED
    BY <1>6, <2>1 DEF ReadBadRequest, ChatTypes, serviceVars
<1>7. CASE ReadDone
  <2>1. SEPARATOR \in Message /\ Assistant(completeAppendedReply) \in Message
    BY DEF Message, ChatTypes
  <2>2. historical_messages' \in Seq(Message)
    BY <1>7, <2>1, TwoBehind DEF ReadDone, ChatTypes
  <2>3. incoming' \in Seq(Item)
    <3>1. incoming # << >> /\ incoming' = Tail(incoming)
      BY <1>7 DEF ReadDone
    <3> QED
      BY <3>1 DEF ChatTypes
  <2> QED
    BY <1>7, <2>2, <2>3 DEF ReadDone, ChatTypes, serviceVars
<1>8. CASE Tick \/ SelectMode \/ SwitchMode
  BY <1>8 DEF Tick, SelectMode, SwitchMode, ChatTypes, serviceVars
<1>9. CASE Watchdog
  <2>1. system_content \in Message
    BY DEF Message
  <2>2. <<system_content>> \in Seq(Message) /\ << >> \in Seq(Pieces) /\ << >> \in Seq(Item)
    BY <2>1
  <2> QED
    BY <1>9, <2>2 DEF Watchdog, ChatTypes
<1>10. CASE ServiceSends
  <2>1. Head(reply) \in Item /\ Tail(reply) \in Seq(Item)
    BY <1>10 DEF ServiceSends, ChatTypes
  <2>2. Append(incoming, Head(reply)) \in Seq(Item)
    BY <2>1 DEF ChatTypes
  <2> QED
    BY <1>10, <2>1, <2>2 DEF ServiceSends, ChatTypes
<1>11. CASE ServiceStops
  <2>1. << >> \in Seq(Item)
    OBVIOUS
  <2> QED
    BY <1>11, <2>1 DEF ServiceStops, ChatTypes
<1>12. CASE UNCHANGED chatVars
  BY <1>12 DEF chatVars, ChatTypes
<1> QED
  BY <1>1, <1>2, <1>3, <1>4, <1>5, <1>6, <1>7, <1>8, <1>9, <1>10, <1>11, <1>12
     DEF ChatNext, Client

-----------------------------------------------------------------------------
(* The reply *)

LEMMA NothingReadYet ==
  ASSUME NEW g \in Seq(Pieces)
  PROVE  /\ Begins(<< >>, g) /\ Follows(Sent(g), << >>, g)
         /\ \A r : Follows(<< >>, r, g)
  BY WhatIsSent DEF Begins, Follows

LEMMA SilenceFollows ==
  ASSUME NEW p \in Seq(Item), NEW q \in Seq(Item), NEW r, NEW g, Follows(p \o q, r, g)
  PROVE  Follows(p, r, g)
<1>1. \A j \in 1 .. Len(p) : j \in 1 .. Len(p \o q) /\ (p \o q)[j] = p[j]
  OBVIOUS
<1> QED
  BY <1>1 DEF Follows

LEMMA PieceFollows ==
  ASSUME NEW p \in Seq(Item), p # << >>, NEW r \in Seq(Pieces), NEW g \in Seq(Pieces),
         Begins(r, g), Follows(p, r, g), NEW c \in Pieces, Head(p) = Piece(c)
  PROVE  Begins(r \o <<c>>, g) /\ Follows(Tail(p), r \o <<c>>, g)
<1> DEFINE t == r \o <<c>>
           q == Tail(p)
<1>1. /\ Len(p) \in Nat /\ 1 <= Len(p) /\ Head(p) = p[1] /\ Len(r) \in Nat /\ Len(g) \in Nat
      /\ Len(q) = Len(p) - 1 /\ \A j \in 1 .. Len(q) : q[j] = p[j + 1]
  OBVIOUS
<1>2. Len(t) = Len(r) + 1 /\ t[Len(r) + 1] = c /\ \A i \in 1 .. Len(r) : t[i] = r[i]
  OBVIOUS
<1> HIDE DEF t, q
<1>3. Len(r) + 1 <= Len(g) + 1 /\ Sent(g)[Len(r) + 1] = Piece(c)
  BY <1>1 DEF Follows
<1>4. Len(r) + 1 <= Len(g)
  BY <1>1, <1>3, WhatIsSent, ItemKinds
<1>5. g[Len(r) + 1] = c
  <2>1. Sent(g)[Len(r) + 1] = Piece(g[Len(r) + 1])
    BY <1>1, <1>4, WhatIsSent
  <2> QED
    BY <1>3, <2>1, ItemKinds
<1>6. Begins(t, g)
  <2>1. ASSUME NEW i \in 1 .. Len(t) PROVE t[i] = g[i]
    <3>1. i \in 1 .. Len(r) \/ i = Len(r) + 1
      BY <1>1, <1>2
    <3> QED
      BY <1>2, <1>5, <3>1 DEF Begins
  <2> QED
    BY <1>2, <1>4, <2>1 DEF Begins
<1>7. Follows(q, t, g)
  <2> SUFFICES ASSUME NEW j \in 1 .. Len(q)
               PROVE  Len(t) + j <= Len(g) + 1 /\ q[j] = Sent(g)[Len(t) + j]
    BY DEF Follows
  <2>1. j + 1 \in 1 .. Len(p) /\ Len(t) + j = Len(r) + (j + 1) /\ q[j] = p[j + 1]
    BY <1>1, <1>2
  <2> QED
    BY <2>1 DEF Follows
<1> QED
  BY <1>6, <1>7 DEF t, q

LEMMA DoneFollows ==
  ASSUME NEW p \in Seq(Item), p # << >>, NEW r \in Seq(Pieces), NEW g \in Seq(Pieces),
         Begins(r, g), Follows(p, r, g), Head(p) = DONE
  PROVE  r = g
<1>1. /\ Len(p) \in Nat /\ 1 <= Len(p) /\ Head(p) = p[1] /\ Len(r) \in Nat /\ Len(g) \in Nat
  OBVIOUS
<1>2. Len(r) + 1 <= Len(g) + 1 /\ Sent(g)[Len(r) + 1] = DONE
  BY <1>1 DEF Follows
<1>3. Len(r) = Len(g)
  <2> SUFFICES ASSUME Len(r) + 1 \in 1 .. Len(g) PROVE FALSE
    BY <1>1, <1>2 DEF Begins
  <2>1. Sent(g)[Len(r) + 1] = Piece(g[Len(r) + 1])
    BY WhatIsSent
  <2> QED
    BY <1>2, <2>1, ItemKinds
<1> QED
  BY <1>1, <1>3 DEF Begins

LEMMA ReadInvStep ==
  ASSUME ChatTypes, ReadInv, ReadyInv, [ChatNext]_chatVars
  PROVE  ReadInv'
<1> SUFFICES ASSUME Waiting' PROVE ReadInv'
  BY DEF ReadInv
<1>0. chatPc' \in {"check", "read"}
  BY DEF Waiting
<1>t. incoming \in Seq(Item) /\ reply \in Seq(Item) /\ given \in Seq(Pieces)
      /\ completeAppendedReply \in Seq(Pieces)
  BY DEF ChatTypes
<1>1. CASE UNCHANGED <<box, completeAppendedReply, given, answered, historical_messages,
                      incoming, reply>> /\ Waiting
  BY <1>1 DEF ReadInv, Begun, OnItsWay, Refused, Pending
<1>2. CASE RequestSent
  <2>1. /\ box' = << >> /\ completeAppendedReply' = << >> /\ incoming' = << >>
        /\ ServiceTakes(historical_messages)
        /\ <<Last(historical_messages'), given'>> \in answered'
    BY <1>2 DEF RequestSent, ReadyInv
  <2>2. given' \in Seq(Pieces) /\ reply' \in Seq(Item)
        /\ (reply' = Sent(given') \/ reply' = << >> \/ (reply' = <<BAD_REQUEST>> /\ given' = << >>))
    BY <2>1, ServiceTypes
  <2>3. Pending' = reply'
    BY <2>1, <2>2 DEF Pending
  <2>4. Begun' /\ (OnItsWay' \/ Refused')
    BY <2>1, <2>2, <2>3, NothingReadYet DEF Begun, OnItsWay, Refused
  <2> QED
    BY <2>1, <2>4 DEF ReadInv
<1>3. CASE ReadPiece
  <2>1. PICK c \in Pieces : Head(incoming) = Piece(c) /\ Head(incoming).text = <<c>>
    BY <1>3, ReadPieceIs
  <2>2. /\ Waiting /\ incoming # << >> /\ incoming' = Tail(incoming) /\ reply' = reply
        /\ box' = box \o <<c>> /\ completeAppendedReply' = completeAppendedReply \o <<c>>
        /\ UNCHANGED <<given, answered, historical_messages>>
    BY <1>3, <2>1 DEF ReadPiece, Waiting, serviceVars
  <2>3. Pending \in Seq(Item) /\ Pending # << >> /\ Head(Pending) = Piece(c) /\ Pending' = Tail(Pending)
    <3>1. Pending # << >> /\ Head(Pending) = Head(incoming) /\ Tail(Pending) = Tail(incoming) \o reply
      BY <1>t, <2>2, Joined DEF Pending
    <3>2. Pending \in Seq(Item)
      BY <1>t DEF Pending
    <3>3. Pending' = Tail(incoming) \o reply
      BY <2>2 DEF Pending
    <3> QED
      BY <2>1, <3>1, <3>2, <3>3
  <2>4. ~Refused
    <3>1. Head(<<BAD_REQUEST>>) = BAD_REQUEST
      OBVIOUS
    <3> QED
      BY <2>3, <3>1, ItemKinds DEF Refused
  <2>5. Begun' /\ OnItsWay'
    BY <1>t, <2>2, <2>3, <2>4, PieceFollows DEF ReadInv, Begun, OnItsWay
  <2> QED
    BY <2>2, <2>5 DEF ReadInv
<1>4. CASE ServiceSends
  <2>1. Waiting /\ reply # << >> /\ incoming' = Append(incoming, Head(reply)) /\ reply' = Tail(reply)
        /\ UNCHANGED <<box, completeAppendedReply, given, answered, historical_messages>>
    BY <1>0, <1>4 DEF ServiceSends, Waiting
  <2>2. Pending' = Pending
    BY <1>t, <2>1, Moved DEF Pending
  <2> QED
    BY <2>1, <2>2 DEF ReadInv, Begun, OnItsWay, Refused
<1>5. CASE ServiceStops
  <2>1. Waiting /\ reply # << >> /\ incoming' = incoming /\ reply' = << >>
        /\ UNCHANGED <<box, completeAppendedReply, given, answered, historical_messages>>
    BY <1>0, <1>5 DEF ServiceStops, Waiting
  <2>2. Pending' = incoming
    BY <1>t, <2>1 DEF Pending
  <2>3. CASE OnItsWay
    <3>1. OnItsWay'
      BY <1>t, <2>1, <2>2, <2>3, SilenceFollows DEF OnItsWay, Pending
    <3> QED
      BY <2>1, <3>1 DEF ReadInv, Begun
  <2>4. CASE Refused
    <3>1. Len(incoming) + Len(reply) = 1 /\ Len(reply) >= 1 /\ Len(incoming) \in Nat
      <4>1. Len(incoming \o reply) = Len(incoming) + Len(reply) /\ Len(incoming) \in Nat
            /\ Len(reply) >= 1
        BY <1>t, <2>1
      <4>2. Len(<<BAD_REQUEST>>) = 1
        OBVIOUS
      <4> QED
        BY <2>4, <4>1, <4>2 DEF Refused, Pending
    <3>2. incoming = << >>
      BY <1>t, <3>1
    <3>3. OnItsWay'
      BY <1>t, <2>1, <2>2, <3>2, NothingReadYet DEF OnItsWay
    <3> QED
      BY <2>1, <3>3 DEF ReadInv, Begun
  <2> QED
    BY <2>1, <2>3, <2>4 DEF ReadInv
<1>6. CASE StillWaiting \/ AllRead \/ Tick
  BY <1>0, <1>1, <1>6 DEF StillWaiting, AllRead, Tick, Waiting, serviceVars
<1>7. CASE UNCHANGED chatVars
  BY <1>0, <1>1, <1>7 DEF chatVars, Waiting
<1>8. ~(\E p \in Prompts : Ask(p)) /\ ~ConnectFails /\ ~Connected /\ ~TimedOut /\ ~ReadBadRequest
      /\ ~ReadDone /\ ~Watchdog /\ ~SelectMode /\ ~SwitchMode
  BY <1>0 DEF Ask, ConnectFails, Connected, TimedOut, ReadBadRequest, ReadDone, Watchdog,
              SelectMode, SwitchMode
<1> QED
  BY <1>2, <1>3, <1>4, <1>5, <1>6, <1>7, <1>8 DEF ChatNext, Client

-----------------------------------------------------------------------------
(* The conversation and the offer to stream *)

LEMMA ReadyInvStep ==
  ASSUME ChatTypes, ReadyInv, [ChatNext]_chatVars
  PROVE  ReadyInv'
<1>1. ASSUME NEW p \in Prompts, Ask(p) PROVE ReadyInv'
  <2>1. historical_messages' # << >>
    <3>1. SEPARATOR \in Message /\ User(p) \in Message
      BY DEF Message
    <3>2. historical_messages' = historical_messages \o <<SEPARATOR, User(p)>>
      BY <1>1 DEF Ask
    <3>3. historical_messages \in Seq(Message)
      BY DEF ChatTypes
    <3> QED
      BY <3>1, <3>2, <3>3, TwoBehind
  <2> QED
    BY <1>1, <2>1 DEF Ask, ReadyInv
<1>2. CASE ConnectFails \/ Connected \/ RequestSent \/ TimedOut \/ StillWaiting \/ AllRead
           \/ ReadPiece \/ ReadBadRequest \/ ReadDone
  BY <1>2 DEF ConnectFails, Connected, RequestSent, TimedOut, StillWaiting, AllRead, ReadPiece,
              ReadBadRequest, ReadDone, clearTextLCD, ReadyInv
<1>3. CASE Tick \/ Watchdog \/ SelectMode \/ SwitchMode \/ ServiceSends \/ ServiceStops
           \/ UNCHANGED chatVars
  BY <1>3 DEF Tick, Watchdog, SelectMode, SwitchMode, ServiceSends, ServiceStops, chatVars,
              serviceVars, ReadyInv
<1> QED
  BY <1>1, <1>2, <1>3 DEF ChatNext, Client

\* A reply is done only when all of the answer has been read.
LEMMA WholeAnswer ==
  ASSUME ChatTypes, ReadInv, ReadDone
  PROVE  completeAppendedReply = given /\ box = given
         /\ <<Last(historical_messages), given>> \in answered
<1>1. /\ incoming \in Seq(Item) /\ reply \in Seq(Item) /\ incoming # << >> /\ Head(incoming) = DONE
      /\ Waiting /\ given \in Seq(Pieces) /\ completeAppendedReply \in Seq(Pieces)
  BY DEF ReadDone, Waiting, ChatTypes
<1>2. Pending # << >> /\ Head(Pending) = DONE /\ Pending \in Seq(Item)
  <2>1. Pending # << >> /\ Head(Pending) = Head(incoming)
    BY <1>1, Joined DEF Pending
  <2> QED
    BY <1>1, <2>1 DEF Pending
<1>3. ~Refused
  <2>1. Head(<<BAD_REQUEST>>) = BAD_REQUEST
    OBVIOUS
  <2> QED
    BY <1>2, <2>1, ItemKinds DEF Refused
<1>4. Begun /\ OnItsWay /\ box = completeAppendedReply
      /\ <<Last(historical_messages), given>> \in answered
  BY <1>1, <1>3 DEF ReadInv
<1>5. completeAppendedReply = given
  BY <1>1, <1>2, <1>4, DoneFollows DEF Begun, OnItsWay
<1> QED
  BY <1>4, <1>5

LEMMA OfferedStep ==
  ASSUME ChatTypes, ReadInv, ReadyInv, OfferedIsWhole, [ChatNext]_chatVars
  PROVE  OfferedIsWhole'
<1>1. CASE ReadDone
  BY <1>1, WholeAnswer DEF ReadDone, OfferedIsWhole, serviceVars
<1>2. CASE (\E p \in Prompts : Ask(p)) \/ Connected \/ RequestSent \/ StillWaiting \/ AllRead
           \/ ReadPiece \/ Tick
  BY <1>2 DEF Ask, Connected, RequestSent, StillWaiting, AllRead, ReadPiece, Tick, OfferedIsWhole
<1>3. CASE ConnectFails \/ TimedOut \/ ReadBadRequest \/ Watchdog \/ SwitchMode
  BY <1>3 DEF ConnectFails, TimedOut, ReadBadRequest, Watchdog, SwitchMode, OfferedIsWhole, ReadyInv
<1>4. CASE SelectMode \/ ServiceSends \/ ServiceStops \/ UNCHANGED chatVars
  BY <1>4 DEF SelectMode, ServiceSends, ServiceStops, chatVars, serviceVars, OfferedIsWhole
<1> QED
  BY <1>1, <1>2, <1>3, <1>4 DEF ChatNext, Client

\* Two messages go behind the conversation, the second of them no answer or one that was
\* given to the last question.
LEMMA TwoMoreFaithful ==
  ASSUME ChatTypes, ConversationFaithful, NEW b \in Message,
         historical_messages' = historical_messages \o <<SEPARATOR, b>>,
         answered \subseteq answered',
         b.role = "assistant" => /\ historical_messages # << >>
                                 /\ <<Last(historical_messages), b.text>> \in answered
  PROVE  ConversationFaithful'
<1> DEFINE n == Len(historical_messages)
           s == historical_messages
           t == historical_messages'
<1>1. n \in Nat /\ (s # << >> => n >= 1) /\ DOMAIN s = 1 .. n
  BY DEF ChatTypes
<1>2. SEPARATOR \in Message
  BY DEF Message
<1>3. /\ t \in Seq(Message) /\ Len(t) = n + 2 /\ t[n + 1] = SEPARATOR /\ t[n + 2] = b
      /\ \A i \in 1 .. n : t[i] = s[i]
  BY <1>2, TwoBehind DEF ChatTypes
<1>4. DOMAIN t = 1 .. n + 2
  BY <1>3
<1> SUFFICES ASSUME NEW i \in 1 .. n + 2, t[i].role = "assistant"
             PROVE  i > 2 /\ <<t[i - 2], t[i].text>> \in answered'
  BY <1>4 DEF ConversationFaithful
<1>5. CASE i \in 1 .. n
  <2>1. s[i].role = "assistant" /\ i \in DOMAIN s
    BY <1>1, <1>3, <1>5
  <2>2. i > 2 /\ <<s[i - 2], s[i].text>> \in answered
    BY <2>1 DEF ConversationFaithful
  <2>3. i - 2 \in 1 .. n
    BY <1>1, <1>5, <2>2
  <2> QED
    BY <1>3, <1>5, <2>2, <2>3
<1>6. CASE i = n + 1
  BY <1>3, <1>6, Roles
<1>7. CASE i = n + 2
  <2>1. b.role = "assistant" /\ t[i] = b
    BY <1>3, <1>7
  <2>2. n >= 1 /\ i - 2 = n /\ i > 2
    BY <1>1, <1>7, <2>1
  <2>3. t[n] = Last(s)
    BY <1>3, <2>2 DEF Last
  <2> QED
    BY <2>1, <2>2, <2>3
<1>8. i \in 1 .. n \/ i = n + 1 \/ i = n + 2
  <2>1. n \in Nat
    BY <1>1
  <2> HIDE DEF n
  <2> QED
    BY <2>1
<1> QED
  BY <1>5, <1>6, <1>7, <1>8

LEMMA ConversationStep ==
  ASSUME ChatTypes, ReadInv, ReadyInv, ConversationFaithful, [ChatNext]_chatVars
  PROVE  ConversationFaithful'
<1>1. ASSUME NEW p \in Prompts, Ask(p) PROVE ConversationFaithful'
  <2>1. User(p) \in Message /\ User(p).role # "assistant"
    BY Roles DEF Message
  <2> QED
    BY <1>1, <2>1, TwoMoreFaithful DEF Ask, serviceVars
<1>2. CASE ReadDone
  <2> DEFINE b == Assistant(completeAppendedReply)
  <2>1. b \in Message /\ b.text = completeAppendedReply
    BY Roles DEF Message, ChatTypes
  <2>2. /\ historical_messages' = historical_messages \o <<SEPARATOR, b>> /\ answered' = answered
        /\ historical_messages # << >>
    BY <1>2 DEF ReadDone, serviceVars, ReadyInv
  <2>3. <<Last(historical_messages), b.text>> \in answered
    BY <1>2, <2>1, WholeAnswer
  <2> HIDE DEF b
  <2> QED
    BY <2>1, <2>2, <2>3, TwoMoreFaithful
<1>3. CASE ReadBadRequest
  <2>1. DOMAIN historical_messages' = {}
    <3>1. historical_messages' = << >>
      BY <1>3 DEF ReadBadRequest
    <3>2. << >> \in Seq(Message) /\ Len(<< >>) = 0
      OBVIOUS
    <3> QED
      BY <3>1, <3>2
  <2> QED
    BY <2>1 DEF ConversationFaithful
<1>4. CASE Watchdog
  <2>1. historical_messages' = <<system_content>>
    BY <1>4 DEF Watchdog
  <2>2. \A i \in DOMAIN historical_messages' : historical_messages'[i] = system_content
    BY <2>1
  <2> QED
    BY <2>2, Roles DEF ConversationFaithful
<1>5. ASSUME historical_messages' = historical_messages, answered \subseteq answered'
      PROVE  ConversationFaithful'
  BY <1>5 DEF ConversationFaithful
<1>6. CASE ConnectFails \/ Connected \/ RequestSent \/ TimedOut \/ StillWaiting \/ AllRead \/ ReadPiece
  BY <1>5, <1>6 DEF ConnectFails, Connected, RequestSent, TimedOut, AfterTimeout, StillWaiting,
                    AllRead, ReadPiece, serviceVars
<1>7. CASE Tick \/ SelectMode \/ SwitchMode \/ ServiceSends \/ ServiceStops \/ UNCHANGED chatVars
  BY <1>5, <1>7 DEF Tick, SelectMode, SwitchMode, ServiceSends, ServiceStops, serviceVars, chatVars
<1> QED
  BY <1>1, <1>2, <1>3, <1>4, <1>6, <1>7 DEF ChatNext, Client

LEMMA ChatInvInit == ChatInit => ChatInv
<1> SUFFICES ASSUME ChatInit PROVE ChatInv
  OBVIOUS
<1>1. system_content \in Message
  BY DEF Message
<1>2. <<system_content>> \in Seq(Message) /\ << >> \in Seq(Pieces) /\ << >> \in Seq(Item)
  BY <1>1
<1>3. ChatTypes
  BY <1>2 DEF ChatInit, ChatTypes
<1>4. ReadInv /\ ReadyInv /\ OfferedIsWhole
  BY DEF ChatInit, ReadInv, Waiting, ReadyInv, OfferedIsWhole
<1>5. ConversationFaithful
  <2>1. \A i \in DOMAIN historical_messages : historical_messages[i] = system_content
    BY DEF ChatInit
  <2> QED
    BY <2>1, Roles DEF ConversationFaithful
<1> QED
  BY <1>3, <1>4, <1>5 DEF ChatInv

LEMMA ChatInductive == ChatSpec => []ChatInv
<1>1. ChatInv /\ [ChatNext]_chatVars => ChatInv'
  BY ChatTypesStep, ReadInvStep, ReadyInvStep, OfferedStep, ConversationStep DEF ChatInv
<1> QED
  BY <1>1, ChatInvInit, PTL DEF ChatSpec

\* When the display offers to stream, the box holds the whole answer or the text of a mode
\* chosen since, for any answers, however requests break off (openAI.h:265, logic.h:43).
THEOREM OfferHolds == ChatSpec => []OfferedIsWhole
<1>1. ChatInv => OfferedIsWhole
  BY DEF ChatInv
<1> QED
  BY <1>1, ChatInductive, PTL

\* Every answer in the conversation is the whole answer to the question right before it
\* (openAI.h:183, 264-270, 318).
THEOREM ConversationHolds == ChatSpec => []ConversationFaithful
<1>1. ChatInv => ConversationFaithful
  BY DEF ChatInv
<1> QED
  BY <1>1, ChatInductive, PTL

-----------------------------------------------------------------------------
(* The text of what has been received *)

Upto(a, i) == SubSeq(a, 1, IF i <= Len(a) THEN i ELSE Len(a))
Part(a, i) == IF i <= Len(a) THEN <<a[i]>> ELSE << >>

LEMMA UptoOne ==
  ASSUME NEW T, NEW a \in Seq(T)
  PROVE  Upto(a, 1) = Part(a, 1) /\ Upto(a, 0) = << >>
<1>1. Len(a) \in Nat
  OBVIOUS
<1>2. Upto(a, 0) = << >>
  BY <1>1 DEF Upto
<1>3. CASE 1 <= Len(a)
  <2>1. a[1] \in T /\ Upto(a, 1) = SubSeq(a, 1, 1)
    BY <1>1, <1>3 DEF Upto
  <2>2. SubSeq(a, 1, 1) = <<a[1]>>
    <3> DEFINE u == SubSeq(a, 1, 1)
               w == <<a[1]>>
    <3>1. u \in Seq(T) /\ Len(u) = 1 /\ u[1] = a[1]
      BY <1>1, <1>3
    <3>2. w \in Seq(T) /\ Len(w) = 1 /\ w[1] = a[1]
      BY <2>1
    <3> HIDE DEF u, w
    <3>3. u = w
      BY <3>1, <3>2
    <3> QED
      BY <3>3 DEF u, w
  <2> QED
    BY <1>2, <1>3, <2>1, <2>2 DEF Part
<1>4. CASE ~(1 <= Len(a))
  BY <1>1, <1>2, <1>4 DEF Upto, Part
<1> QED
  BY <1>3, <1>4

LEMMA UptoNext ==
  ASSUME NEW T, NEW a \in Seq(T), NEW i \in Nat \ {0}
  PROVE  /\ Upto(a, i) = Upto(a, i - 1) \o Part(a, i)
         /\ Upto(a, 1) = Part(a, 1) /\ Upto(a, 0) = << >>
<1>1. Len(a) \in Nat
  OBVIOUS
<1>2. CASE i <= Len(a)
  <2> DEFINE u == SubSeq(a, 1, i)
             v == SubSeq(a, 1, i - 1)
  <2>1. u \in Seq(T) /\ Len(u) = i /\ \A j \in 1 .. i : u[j] = a[j]
    BY <1>1, <1>2
  <2>2. v \in Seq(T) /\ Len(v) = i - 1 /\ \A j \in 1 .. (i - 1) : v[j] = a[j]
    BY <1>1, <1>2
  <2>3. a[i] \in T
    BY <1>1, <1>2
  <2> HIDE DEF u, v
  <2>4. v \o <<a[i]>> = u
    <3> DEFINE w == v \o <<a[i]>>
    <3>1. w \in Seq(T) /\ Len(w) = i /\ w[i] = a[i] /\ \A j \in 1 .. (i - 1) : w[j] = v[j]
      BY <2>2, <2>3
    <3> HIDE DEF w
    <3>2. \A j \in 1 .. i : w[j] = u[j]
      <4> TAKE j \in 1 .. i
      <4>1. j = i \/ j \in 1 .. (i - 1)
        OBVIOUS
      <4> QED
        BY <2>1, <2>2, <3>1, <4>1
    <3>3. w = u
      BY <2>1, <3>1, <3>2
    <3> QED
      BY <3>3 DEF w
  <2>5. i - 1 <= Len(a)
    BY <1>1, <1>2
  <2> QED
    BY <1>2, <2>4, <2>5, UptoOne DEF Upto, Part, u, v
<1>3. CASE ~(i <= Len(a))
  <2>1. Upto(a, i - 1) = Upto(a, i) /\ Upto(a, i) \in Seq(T)
    BY <1>1, <1>3 DEF Upto
  <2>2. Upto(a, i) \o << >> = Upto(a, i)
    BY <2>1
  <2> QED
    BY <1>3, <2>1, <2>2, UptoOne DEF Part
<1> QED
  BY <1>2, <1>3

LEMMA Flattened ==
  ASSUME NEW T, NEW a \in Seq(T), NEW q \in Seq(Seq(T)),
         \A i \in 1 .. Len(q) : q[i] = Part(a, i)
  PROVE  FlattenSeq(q) = Upto(a, Len(q))
<1> DEFINE n == Len(q)
           Next(f) == [i \in 1 .. n |-> IF i = 1 THEN q[i] ELSE f[i - 1] \o q[i]]
           e == [i \in 1 .. n |-> Upto(a, i)]
           f == CHOOSE g : g = Next(g)
<1>1. n \in Nat
  OBVIOUS
<1>2. CASE n = 0
  <2>1. q = << >> /\ Len(<< >>) = 0
    BY <1>2
  <2> QED
    BY <2>1, UptoOne DEF FlattenSeq
<1>3. CASE n # 0
  <2>1. e = Next(e)
    <3>1. ASSUME NEW i \in 1 .. n
          PROVE  Upto(a, i) = IF i = 1 THEN q[i] ELSE e[i - 1] \o q[i]
      <4>1. CASE i = 1
        BY <4>1, <1>1, UptoOne
      <4>2. CASE i # 1
        <5>1. i - 1 \in 1 .. n /\ i \in Nat \ {0}
          BY <1>1, <4>2
        <5>2. e[i - 1] = Upto(a, i - 1)
          BY <5>1
        <5> QED
          BY <4>2, <5>1, <5>2, UptoNext
      <4> QED
        BY <4>1, <4>2
    <3> QED
      BY <3>1
  <2>2. f = Next(f)
    BY <2>1, Zenon
  <2>3. FlattenSeq(q) = f[n]
    BY <1>3 DEF FlattenSeq
  <2> DEFINE x == [k \in 0 .. (n - 1) |-> f[k + 1]]
             y == [k \in 0 .. (n - 1) |-> e[k + 1]]
  <2> HIDE DEF f, e
  <2>4. \A i \in 1 .. n : f[i] = IF i = 1 THEN q[i] ELSE f[i - 1] \o q[i]
    BY <2>2
  <2>5. \A i \in 1 .. n : e[i] = IF i = 1 THEN q[i] ELSE e[i - 1] \o q[i]
    BY <2>1
  <2>6. x[0] = y[0]
    BY <1>1, <1>3, <2>4, <2>5
  <2>7. ASSUME NEW k \in 1 .. (n - 1), x[k - 1] = y[k - 1] PROVE x[k] = y[k]
    <3>1. /\ k + 1 \in 1 .. n /\ k + 1 # 1 /\ (k + 1) - 1 = k /\ (k - 1) + 1 = k
          /\ k - 1 \in 0 .. (n - 1) /\ k \in 0 .. (n - 1)
      BY <1>1
    <3>2. f[k] = e[k]
      BY <2>7, <3>1
    <3>3. f[k + 1] = f[k] \o q[k + 1] /\ e[k + 1] = e[k] \o q[k + 1]
      BY <2>4, <2>5, <3>1
    <3> QED
      BY <3>1, <3>2, <3>3
  <2>8. GoOnAlike(x, y, n - 1)
    <3> HIDE DEF x, y
    <3> QED
      BY <2>6, <2>7 DEF GoOnAlike
  <2>9. x[n - 1] = y[n - 1]
    <3> HIDE DEF x, y, n
    <3>1. n - 1 \in Nat /\ n - 1 \in 0 .. (n - 1)
      BY <1>1, <1>3
    <3> QED
      BY <2>8, <3>1, SameEnd
  <2>10. f[n] = e[n] /\ n \in 1 .. n
    BY <1>1, <1>3, <2>9
  <2>11. e[n] = Upto(a, n)
    BY <2>10 DEF e
  <2> QED
    BY <2>3, <2>10, <2>11
<1> QED
  BY <1>2, <1>3

LEMMA Together ==
  ASSUME NEW T, NEW r \in Seq(T), NEW x \in Seq(T)
  PROVE  /\ r \o x \in Seq(T) /\ Len(r \o x) = Len(r) + Len(x)
         /\ \A i \in 1 .. Len(r) : (r \o x)[i] = r[i]
         /\ \A i \in 1 .. Len(x) : (r \o x)[Len(r) + i] = x[i]
<1>1. ASSUME NEW i \in 1 .. Len(x) PROVE (r \o x)[Len(r) + i] = x[i]
  <2>1. /\ Len(r) + i \in 1 .. Len(r) + Len(x) /\ ~(Len(r) + i <= Len(r))
        /\ (Len(r) + i) - Len(r) = i
    OBVIOUS
  <2> QED
    BY <2>1
<1> QED
  BY <1>1

LEMMA TextFollows ==
  ASSUME NEW p \in Seq(Item), NEW r \in Seq(Pieces), NEW g \in Seq(Pieces),
         Begins(r, g), Follows(p, r, g)
  PROVE  IsPrefix(r \o Text(p), g)
<1> DEFINE a == SubSeq(g, Len(r) + 1, Len(g))
           q == [i \in DOMAIN p |-> p[i].text]
           m == IF Len(p) <= Len(a) THEN Len(p) ELSE Len(a)
           w == r \o Text(p)
<1>1. Len(r) \in Nat /\ Len(g) \in Nat /\ Len(p) \in Nat /\ Len(r) <= Len(g)
  BY DEF Begins
<1>2. a \in Seq(Pieces) /\ Len(a) = Len(g) - Len(r) /\ \A i \in 1 .. Len(a) : a[i] = g[Len(r) + i]
  BY <1>1
<1> HIDE DEF a
<1>3. ASSUME NEW i \in 1 .. Len(p) PROVE p[i].text = Part(a, i)
  <2>1. Len(r) + i <= Len(g) + 1 /\ p[i] = Sent(g)[Len(r) + i]
    BY DEF Follows
  <2>0. i \in Nat \ {0}
    BY <1>1
  <2>2. CASE i <= Len(a)
    <3>0. Len(r) + i \in 1 .. Len(g) /\ i \in 1 .. Len(a)
      <4> HIDE DEF q, m, w
      <4> QED
        BY <1>1, <1>2, <2>0, <2>2
    <3>1. p[i] = Piece(g[Len(r) + i])
      <4>1. Sent(g)[Len(r) + i] = Piece(g[Len(r) + i])
        BY <3>0, WhatIsSent
      <4> QED
        BY <2>1, <4>1
    <3> QED
      BY <1>2, <2>2, <3>0, <3>1, ItemKinds DEF Part
  <2>3. CASE ~(i <= Len(a))
    <3>1. Len(r) + i = Len(g) + 1
      <4> HIDE DEF q, m, w
      <4> QED
        BY <1>1, <1>2, <2>0, <2>1, <2>3
    <3>2. p[i] = DONE
      BY <2>1, <3>1, WhatIsSent
    <3> QED
      BY <2>3, <3>2 DEF Part, DONE
  <2> QED
    BY <2>2, <2>3
<1>4. q \in Seq(Seq(Pieces)) /\ Len(q) = Len(p) /\ \A i \in 1 .. Len(q) : q[i] = Part(a, i)
  <2>1. \A i \in 1 .. Len(p) : Part(a, i) \in Seq(Pieces)
    BY <1>2 DEF Part
  <2>2. DOMAIN p = 1 .. Len(p)
    OBVIOUS
  <2> QED
    BY <1>1, <1>3, <2>1, <2>2
<1>5. Text(p) = Upto(a, Len(p))
  BY <1>2, <1>4, Flattened DEF Text
<1>6. /\ Text(p) \in Seq(Pieces) /\ Len(Text(p)) = m /\ m \in Nat /\ m <= Len(a)
      /\ \A i \in 1 .. m : Text(p)[i] = a[i]
  <2>1. m \in Nat /\ m <= Len(a)
    BY <1>1, <1>2
  <2>2. Text(p) = SubSeq(a, 1, m)
    BY <1>5 DEF Upto
  <2> HIDE DEF m
  <2> QED
    BY <1>2, <2>1, <2>2
<1> DEFINE x == Text(p)
<1> HIDE DEF m
<1>7. /\ w \in Seq(Pieces) /\ Len(w) = Len(r) + m
      /\ \A i \in 1 .. Len(r) : w[i] = r[i]
      /\ \A i \in 1 .. m : w[Len(r) + i] = a[i]
  <2>1. x \in Seq(Pieces) /\ Len(x) = m /\ m \in Nat /\ \A i \in 1 .. m : x[i] = a[i]
    BY <1>6
  <2> HIDE DEF x
  <2>2. w = r \o x
    BY DEF x
  <2> HIDE DEF w
  <2>3. /\ w \in Seq(Pieces) /\ Len(w) = Len(r) + Len(x)
        /\ \A i \in 1 .. Len(r) : w[i] = r[i]
        /\ \A i \in 1 .. Len(x) : w[Len(r) + i] = x[i]
    <3>1. x \in Seq(Pieces)
      BY <2>1
    <3>2. /\ r \o x \in Seq(Pieces) /\ Len(r \o x) = Len(r) + Len(x)
          /\ \A i \in 1 .. Len(r) : (r \o x)[i] = r[i]
          /\ \A i \in 1 .. Len(x) : (r \o x)[Len(r) + i] = x[i]
      BY <3>1, Together
    <3> QED
      BY <2>2, <3>2, Zenon
  <2>4. ASSUME NEW i \in 1 .. m PROVE w[Len(r) + i] = a[i]
    BY <2>1, <2>3
  <2>5. Len(w) = Len(r) + m
    BY <2>1, <2>3
  <2> QED
    BY <2>3, <2>4, <2>5, Zenon
<1> HIDE DEF w
<1>8. Len(w) <= Len(g) /\ Len(w) \in Nat
  BY <1>1, <1>2, <1>6, <1>7
<1>9. ASSUME NEW i \in 1 .. Len(w) PROVE w[i] = g[i]
  <2>1. CASE i <= Len(r)
    BY <1>1, <1>7, <2>1 DEF Begins
  <2>2. CASE ~(i <= Len(r))
    <3>1. i - Len(r) \in 1 .. m /\ Len(r) + (i - Len(r)) = i
      BY <1>1, <1>6, <1>7, <2>2
    <3>2. w[i] = a[i - Len(r)]
      BY <1>7, <3>1
    <3>3. a[i - Len(r)] = g[i]
      <4>1. i - Len(r) \in 1 .. Len(a)
        BY <1>2, <1>6, <3>1
      <4> QED
        BY <1>2, <3>1, <4>1
    <3> QED
      BY <3>2, <3>3
  <2> QED
    BY <2>1, <2>2
<1>10. SubSeq(w, 1, Len(w)) = SubSeq(g, 1, Len(w))
  <2> DEFINE u == SubSeq(w, 1, Len(w))
             v == SubSeq(g, 1, Len(w))
  <2>1. u \in Seq(Pieces) /\ Len(u) = Len(w) /\ \A i \in 1 .. Len(w) : u[i] = w[i]
    BY <1>7, <1>8
  <2>2. v \in Seq(Pieces) /\ Len(v) = Len(w) /\ \A i \in 1 .. Len(w) : v[i] = g[i]
    BY <1>1, <1>8
  <2> HIDE DEF u, v
  <2>3. \A i \in 1 .. Len(w) : u[i] = v[i]
    BY <1>9, <2>1, <2>2
  <2>4. u = v
    BY <2>1, <2>2, <2>3
  <2> QED
    BY <2>4 DEF u, v
<1> QED
  BY <1>8, <1>10 DEF IsPrefix, w

\* What the client has read, with what it has received, is the beginning of the answer to
\* its own last question, for any answers and any loss (openAI.h:192-196, 286-311).
THEOREM AnswerComesInOrder == ChatSpec => []AnswerInOrder
<1>1. ASSUME ChatInv, Waiting
      PROVE  /\ box = completeAppendedReply
             /\ IsPrefix(completeAppendedReply \o Text(incoming), given)
  <2>1. /\ box = completeAppendedReply /\ Begun /\ (OnItsWay \/ Refused)
        /\ incoming \in Seq(Item) /\ reply \in Seq(Item)
        /\ completeAppendedReply \in Seq(Pieces) /\ given \in Seq(Pieces)
    BY <1>1 DEF ChatInv, ReadInv, ChatTypes
  <2>2. CASE OnItsWay
    <3>1. Follows(incoming, completeAppendedReply, given)
      BY <2>1, <2>2, SilenceFollows DEF OnItsWay, Pending
    <3> QED
      BY <2>1, <3>1, TextFollows DEF Begun
  <2>3. CASE Refused
    <3>1. given = << >> /\ Len(incoming) \in Nat /\ Len(incoming) <= 1
          /\ \A i \in 1 .. Len(incoming) : incoming[i] = BAD_REQUEST
      <4>1. \A i \in 1 .. Len(incoming) : Pending[i] = incoming[i] /\ i \in 1 .. Len(Pending)
        BY <2>1 DEF Pending
      <4>2. Len(incoming) <= Len(Pending) /\ Len(incoming) \in Nat
        BY <2>1 DEF Pending
      <4>3. Len(<<BAD_REQUEST>>) = 1 /\ <<BAD_REQUEST>>[1] = BAD_REQUEST
        OBVIOUS
      <4> QED
        BY <2>3, <4>1, <4>2, <4>3 DEF Refused
    <3>2. completeAppendedReply = << >>
      BY <2>1, <3>1 DEF Begun, Begins
    <3> DEFINE q == [i \in DOMAIN incoming |-> incoming[i].text]
    <3>3. << >> \in Seq(Pieces) /\ Len(<< >>) = 0
      OBVIOUS
    <3>4. q \in Seq(Seq(Pieces)) /\ \A i \in 1 .. Len(q) : q[i] = Part(<< >>, i)
      <4>1. BAD_REQUEST.text = << >>
        BY DEF BAD_REQUEST
      <4>2. DOMAIN incoming = 1 .. Len(incoming)
        BY <2>1
      <4>3. \A i \in 1 .. Len(incoming) : incoming[i].text = << >> /\ Part(<< >>, i) = << >>
        BY <3>1, <3>3, <4>1 DEF Part
      <4>4. DOMAIN q = 1 .. Len(incoming) /\ \A i \in 1 .. Len(incoming) : q[i] = << >>
        BY <4>2, <4>3
      <4> HIDE DEF q
      <4>5. Len(q) = Len(incoming) /\ q \in Seq(Seq(Pieces))
        <5>1. q = [i \in 1 .. Len(incoming) |-> << >>]
          BY <4>4 DEF q
        <5> QED
          BY <3>1, <3>3, <5>1
      <4> QED
        BY <4>3, <4>4, <4>5
    <3>5. Text(incoming) = FlattenSeq(q)
      BY DEF Text
    <3> HIDE DEF q
    <3>6. FlattenSeq(q) = Upto(<< >>, Len(q)) /\ Len(q) \in Nat
      <4>1. \A a : a = << >> => a \in Seq(Pieces) /\ FlattenSeq(q) = Upto(a, Len(q))
        <5> TAKE a
        <5> HAVE a = << >>
        <5>1. a \in Seq(Pieces) /\ \A i \in 1 .. Len(q) : q[i] = Part(a, i)
          BY <3>3, <3>4
        <5> QED
          BY <3>4, <5>1, Flattened
      <4>2. Len(q) \in Nat
        BY <3>4
      <4> QED
        BY <4>1, <4>2
    <3>7. Upto(<< >>, Len(q)) = << >>
      BY <3>3, <3>6 DEF Upto
    <3>8. completeAppendedReply \o Text(incoming) = << >>
      BY <3>2, <3>5, <3>6, <3>7
    <3> QED
      BY <2>1, <3>1, <3>8 DEF IsPrefix
  <2> QED
    BY <2>1, <2>2, <2>3
<1>2. ChatInv => AnswerInOrder
  BY <1>1 DEF AnswerInOrder
<1> QED
  BY <1>2, ChatInductive, PTL
=============================================================================

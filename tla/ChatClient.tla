----------------------------- MODULE ChatClient -----------------------------
(* The message list of one open conversation in the browser, as the operations of   *)
(* frontend/src/hooks/useConversationMessages.ts on a client record:                *)
(*   shown    the state of the list: what its updates add up to, by row id          *)
(*   ref      messagesRef.current: the list of the last render                      *)
(*   pending  message_acked events whose message has not arrived yet                *)
(*   seen     seenMessageContent, which drops a second copy of a content            *)
(* The conversation is open at its newest end (hasNewerMessages is false).  A message *)
(* carries its content, the echo count and the number of paths heard; path lists only *)
(* grow at the end, so their length stands for them.                                  *)
EXTENDS Naturals, FiniteSets

CONSTANTS Ids, Contents, None

Larger(m, n) == IF m > n THEN m ELSE n

Bubble(content, acked, paths) == [content |-> content, acked |-> acked, paths |-> paths]
Ack(acked, paths) == [acked |-> acked, paths |-> paths]

BubbleType == [content: Contents, acked: Nat, paths: Nat]
AckType == [acked: Nat, paths: Nat]
ListType == [Ids -> BubbleType \cup {None}]
ClientType == [shown: ListType, ref: ListType, pending: [Ids -> AckType \cup {None}],
               seen: SUBSET Contents]

EmptyClient ==
  [shown |-> [i \in Ids |-> None], ref |-> [i \in Ids |-> None],
   pending |-> [i \in Ids |-> None], seen |-> {}]

\* The effect that follows a render.
Render(client) == [client EXCEPT !.ref = client.shown]

\* applyPendingAck: the paths of the buffered event replace those of the message.
WithPending(client, i, m) ==
  IF client.pending[i] = None THEN m
  ELSE [m EXCEPT !.acked = Larger(@, client.pending[i].acked), !.paths = client.pending[i].paths]

\* Slip: only the row id is compared, not the content.
ObserveMessageById(client, i, m) ==
  [client EXCEPT !.pending[i] = None, !.seen = @ \cup {m.content},
                 !.shown[i] = IF @ = None THEN WithPending(client, i, m) ELSE @]

\* observeMessage for the open conversation, from the websocket and from the response
\* to the user's own request.
ObserveMessage(client, i, m) ==
  IF m.content \in client.seen
  THEN [client EXCEPT !.pending[i] = None]
  ELSE [client EXCEPT !.pending[i] = None, !.seen = @ \cup {m.content},
                      !.shown[i] = IF @ = None THEN WithPending(client, i, m) ELSE @]

\* mergePendingAck: the higher count wins; for equal counts the longer list of paths.
MergePendingAck(old, new) ==
  IF old = None \/ new.acked > old.acked \/ (new.acked = old.acked /\ new.paths >= old.paths)
  THEN new
  ELSE old

\* Slip: the count of the event is added to that of the message.
UpdateMessageAckSummed(client, i, ack) ==
  IF client.ref[i] = None
  THEN [client EXCEPT !.pending[i] = MergePendingAck(@, ack)]
  ELSE IF client.shown[i] = None
  THEN [client EXCEPT !.pending[i] = ack]
  ELSE [client EXCEPT !.pending[i] = None,
                      !.shown[i] = Bubble(@.content, @.acked + ack.acked,
                                          Larger(@.paths, ack.paths))]

\* updateMessageAck: the list of the last render says whether the message is loaded; the
\* update itself is made to the state of the list.
UpdateMessageAck(client, i, ack) ==
  IF client.ref[i] = None
  THEN [client EXCEPT !.pending[i] = MergePendingAck(@, ack)]
  ELSE IF client.shown[i] = None
  THEN [client EXCEPT !.pending[i] = ack]
  ELSE [client EXCEPT !.pending[i] = None,
                      !.shown[i] = Bubble(@.content, Larger(@.acked, ack.acked),
                                          Larger(@.paths, ack.paths))]

\* receiveMessageDeleted: the content stays in seenMessageContent.
MessageDeleted(client, i) == [client EXCEPT !.shown[i] = None]

ContentsOf(list) == {list[i].content : i \in {j \in Ids : list[j] # None}}

\* Slip: the page replaces the whole list.
ReconcileReplacing(client, page) ==
  LET fetched == [i \in Ids |-> IF page[i] = None THEN None ELSE WithPending(client, i, page[i])]
  IN  [client EXCEPT !.shown = fetched, !.seen = ContentsOf(fetched)]

\* reconcileFromBackend with a page of rows: the page replaces what the last render had
\* of its messages, the others of that render stay, and the outcome becomes the list,
\* whatever the list has become since; seenMessageContent is rebuilt.  A page that brings
\* nothing new to the last render changes nothing but the pending events.
Reconcile(client, page) ==
  LET merged == [i \in Ids |-> IF page[i] = None THEN client.ref[i]
                                ELSE WithPending(client, i, page[i])]
      quiet == [client EXCEPT !.pending =
                  [i \in Ids |-> IF page[i] = None THEN @[i] ELSE None]]
  IN  IF merged = client.ref
      THEN quiet
      ELSE [quiet EXCEPT !.shown = merged, !.seen = ContentsOf(merged)]
=============================================================================

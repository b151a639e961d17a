------------------------------ MODULE RichText ------------------------------
(***************************************************************************)
(* Y.Text: crdt/y_text.go.  Text, embeds and format marks are items of one *)
(* list; a mark <<6, key, value>> holds from its place on, null ends it.   *)
(* Attributes are sequences of <<key, value>> in insertion order.          *)
(***************************************************************************)
EXTENDS Edits

Null == <<126>>

attrHas(a, k) == \E i \in DOMAIN a : a[i][1] = k

\* GetOrNull; what is absent reads as null.
attrGet(a, k) == IF attrHas(a, k) THEN (CHOOSE p \in ToSet(a) : p[1] = k)[2] ELSE Null

attrDelete(a, k) == SelectSeq(a, LAMBDA p : p[1] # k)

attrSet(a, k, v) ==
  IF attrHas(a, k) THEN Map(a, LAMBDA p : IF p[1] = k THEN <<k, v>> ELSE p)
  ELSE Append(a, <<k, v>>)

isFormat(s) == s.content[1] = 6
FormatKey(s) == s.content[2]
FormatValue(s) == s.content[3]

updateCurrentAttributes(a, s) ==
  IF FormatValue(s) = Null THEN attrDelete(a, FormatKey(s))
  ELSE attrSet(a, FormatKey(s), FormatValue(s))

-----------------------------------------------------------------------------
(* A position p: a transaction, the items left and right of it, the index   *)
(* and the attributes that hold there (itemTextListPosition).               *)

forward(p) ==
  LET s == getStruct(p.t, p.right)
  IN  [p EXCEPT !.left = p.right, !.right = rightOf(p.t, s),
                !.attrs = IF isFormat(s) /\ ~s.deleted
                          THEN updateCurrentAttributes(@, s) ELSE @,
                !.index = IF ~isFormat(s) /\ ~s.deleted THEN @ + s.length ELSE @]

RECURSIVE findNextPosition(_, _)
findNextPosition(p, count) ==
  LET s     == getStruct(p.t, p.right)
      step  == ~isFormat(s) /\ ~s.deleted
      clean == IF step /\ count < s.length
               THEN [p EXCEPT !.t = splitItem(@, s, count)] ELSE p
  IN  IF p.right = None \/ count <= 0 THEN p
      ELSE findNextPosition(forward(clean), IF step THEN count - s.length ELSE count)

startPosition(t, type) ==
  LET ids == Chain(t, ListKey(type))
  IN  [t |-> t, left |-> None, right |-> IF ids = <<>> THEN None ELSE ids[1],
       index |-> 0, attrs |-> <<>>]

findPosition(t, type, index) == findNextPosition(startPosition(t, type), index)

\* A new item at p, which moves behind it.
insertItem(p, type, content) ==
  LET item == newItem(p.t, type, p.left, p.right, content)
  IN  forward([p EXCEPT !.t = integrate(@, item, p.left, p.right), !.right = item.id])

\* Deleted items and marks that change nothing are passed.
RECURSIVE minimizeAttributeChanges(_, _)
minimizeAttributeChanges(p, attributes) ==
  LET s == getStruct(p.t, p.right)
  IN  IF p.right = None THEN p
      ELSE IF \/ s.deleted
              \/ isFormat(s) /\ attrGet(attributes, FormatKey(s)) = FormatValue(s)
      THEN minimizeAttributeChanges(forward(p), attributes) ELSE p

\* Marks for the attributes that differ here, and what ends them again.
insertAttributes(p, type, attributes) ==
  LET step(a, kv) ==
        LET current == attrGet(a.p.attrs, kv[1])
        IN  IF current = kv[2] THEN a
            ELSE [p |-> insertItem(a.p, type, <<6, kv[1], kv[2]>>),
                  negated |-> attrSet(a.negated, kv[1], current)]
  IN  Fold(step, [p |-> p, negated |-> <<>>], attributes)

FaultInsertNegatedAttributes(p, type, negated) == p

\* Marks on the right that already do it are used.
RECURSIVE insertNegatedAttributes(_, _, _)
insertNegatedAttributes(p, type, negated) ==
  LET s    == getStruct(p.t, p.right)
      done == /\ isFormat(s) /\ attrHas(negated, FormatKey(s))
              /\ attrGet(negated, FormatKey(s)) = FormatValue(s)
      here == Fold(LAMBDA q, kv : insertItem(q, type, <<6, kv[1], kv[2]>>), p, negated)
  IN  IF p.right = None THEN here
      ELSE IF s.deleted THEN insertNegatedAttributes(forward(p), type, negated)
      ELSE IF done
      THEN insertNegatedAttributes(forward(p), type, attrDelete(negated, FormatKey(s)))
      ELSE here

-----------------------------------------------------------------------------
(* Insertion *)

\* Attributes that hold here and are not asked for are switched off.
insertText(p, type, content, attributes) ==
  LET off  == SelectSeq(p.attrs, LAMBDA kv : ~attrHas(attributes, kv[1]))
      full == attributes \o Map(off, LAMBDA kv : <<kv[1], Null>>)
      a    == insertAttributes(minimizeAttributeChanges(p, full), type, full)
  IN  insertNegatedAttributes(insertItem(a.p, type, content), type, a.negated)

\* A lean transaction may append to the only string of the text in place.
appendsSole(t, type, index) ==
  LET ids == Chain(t, ListKey(type))
      s   == getStruct(t, ids[1])
  IN  /\ ~t.full /\ Len(ids) = 1 /\ index = typeLength(t, type)
      /\ ~s.deleted /\ s.content[1] = 4 /\ s.redone = None /\ s.rightOrigin = None
      /\ Client(s) = t.client /\ End(s) = getState(t.st, t.client)
      /\ ~orphaned(t, type)

\* attributes None: those that hold at index.
Insert(t, type, index, text, attributes) ==
  LET s == getStruct(t, Chain(t, ListKey(type))[1])
      p == findPosition(t, type, index)
  IN  IF attributes = None /\ appendsSole(t, type, index)
      THEN SetStruct(t, [s EXCEPT !.length = @ + stringLength(text),
                                  !.content = <<4, @[2] \o text>>])
      ELSE insertText(p, type, <<4, text>>,
                      IF attributes = None THEN p.attrs ELSE attributes).t

InsertEmbed(t, type, index, embed, attributes) ==
  insertText(findPosition(t, type, index), type, <<5, embed>>, attributes).t

-----------------------------------------------------------------------------
(* Formatting *)

\* Over length elements old marks of these keys go; what held behind them is
\* restored at the end.
RECURSIVE formatLoop(_, _, _, _)
formatLoop(p, attributes, length, negated) ==
  LET s      == getStruct(p.t, p.right)
      key    == FormatKey(s)
      asked  == attrHas(attributes, key)
      same   == attrGet(attributes, key) = FormatValue(s)
      cut    == IF length < s.length THEN splitItem(p.t, s, length) ELSE p.t
      drop   == [p EXCEPT !.t = deleteItemStruct(@, s.id)]
      halt   == [p |-> p, length |-> length, negated |-> negated]
  IN  IF p.right = None THEN halt
      ELSE IF length = 0 /\ (negated = <<>> \/ (~s.deleted /\ ~isFormat(s))) THEN halt
      ELSE IF s.deleted \/ (isFormat(s) /\ ~asked)
      THEN formatLoop(forward(p), attributes, length, negated)
      ELSE IF ~isFormat(s)
      THEN formatLoop(forward([p EXCEPT !.t = cut]), attributes,
                      Max({length - s.length, 0}), negated)
      ELSE IF same
      THEN formatLoop(forward(drop), attributes, length, attrDelete(negated, key))
      ELSE IF length = 0 THEN halt
      ELSE formatLoop(forward(drop), attributes, length,
                      attrSet(negated, key, FormatValue(s)))

\* Beyond the end the text is filled up with newlines.
formatText(p, type, length, attributes) ==
  LET a == insertAttributes(minimizeAttributeChanges(p, attributes), type, attributes)
      f == formatLoop(a.p, attributes, length, a.negated)
      q == IF f.length = 0 THEN f.p
           ELSE insertItem(f.p, type, <<4, [i \in 1 .. f.length |-> 10]>>)
  IN  insertNegatedAttributes(q, type, f.negated)

Format(t, type, index, length, attributes) ==
  LET p == findPosition(t, type, index)
  IN  IF p.right = None THEN p.t ELSE formatText(p, type, length, attributes).t

-----------------------------------------------------------------------------
(* Marks that have become useless *)

\* Ids of the chain from start on that are deleted or not countable.
Gap(t, type, start) ==
  LET ids  == Chain(t, ListKey(type))
      from == ChainIndex(ids, start)
  IN  IF start = None THEN <<>>
      ELSE LET tail == SubSeq(ids, from, Len(ids))
               stop == {i \in DOMAIN tail : Visible(getStruct(t, tail[i]))}
           IN  IF stop = {} THEN tail ELSE SubSeq(tail, 1, Min(stop) - 1)

\* A mark is useless that a later one of the gap overrides, or that says what
\* held before the gap.
useless(last, value, atStart) == ~last \/ atStart = value

\* atStart holds before start, attrs at curr, which is kept up to date.
cleanupFormattingGap(t, type, start, curr, atStart, attrs) ==
  LET gap     == Gap(t, type, start)
      marks   == SelectSeq(gap, LAMBDA id : LET s == getStruct(t, id)
                                            IN  isFormat(s) /\ ~s.deleted)
      isLast(id) == \A x \in ToSet(marks) :
                      FormatKey(getStruct(t, x)) = FormatKey(getStruct(t, id))
                      => ChainIndex(marks, x) <= ChainIndex(marks, id)
      step(a, id) ==
        LET s       == getStruct(a.t, id)
            key     == FormatKey(s)
            value   == FormatValue(s)
            before  == attrGet(atStart, key)
            reached == a.reached \/ id = curr
            fixed   == IF reached \/ attrGet(a.attrs, key) # value \/ before = value
                       THEN a.attrs
                       ELSE IF before = Null THEN attrDelete(a.attrs, key)
                       ELSE attrSet(a.attrs, key, before)
        IN  IF s.deleted \/ ~isFormat(s) THEN [a EXCEPT !.reached = reached]
            ELSE IF useless(isLast(id), value, before)
            THEN [t |-> deleteItemStruct(a.t, id), attrs |-> fixed, reached |-> reached]
            ELSE [a EXCEPT !.reached = reached,
                           !.attrs = IF reached THEN @ ELSE updateCurrentAttributes(@, s)]
  IN  Fold(step, [t |-> t, attrs |-> attrs, reached |-> FALSE], gap)

\* The last mark of each key in the gap around id is enough.
cleanupContextlessFormattingGap(t, type, id) ==
  LET ids    == Chain(t, ListKey(type))
      i      == ChainIndex(ids, id)
      hidden(k) == ~Visible(getStruct(t, ids[k]))
      to     == Max({k \in i .. Len(ids) : \A j \in i + 1 .. k : hidden(j)})
      from   == Min({k \in 1 .. to + 1 : \A j \in k .. to : hidden(j)})
      step(a, x) ==
        LET s == getStruct(a.t, x)
        IN  IF s.deleted \/ ~isFormat(s) THEN a
            ELSE IF FormatKey(s) \in a.keys
            THEN [a EXCEPT !.t = deleteItemStruct(@, x)]
            ELSE [a EXCEPT !.keys = @ \cup {FormatKey(s)}]
  IN  Fold(step, [t |-> t, keys |-> {}], Reverse(SubSeq(ids, from, to))).t

\* All gaps of the text; a gap is looked at from the element behind it.
cleanupYTextFormatting(t, type) ==
  LET ids == Chain(t, ListKey(type))
      step(a, id) ==
        LET s == getStruct(a.t, id)
            c == cleanupFormattingGap(a.t, type, a.start, id, a.atStart, a.attrs)
        IN  IF s.deleted THEN a
            ELSE IF isFormat(s) THEN [a EXCEPT !.attrs = updateCurrentAttributes(@, s)]
            ELSE [t |-> c.t, start |-> id, atStart |-> c.attrs, attrs |-> c.attrs]
  IN  IF ids = <<>> THEN t
      ELSE Fold(step, [t |-> t, start |-> ids[1], atStart |-> <<>>, attrs |-> <<>>],
                ids).t

-----------------------------------------------------------------------------
(* Deletion *)

RECURSIVE deleteLoop(_, _)
deleteLoop(p, length) ==
  LET s   == getStruct(p.t, p.right)
      cut == IF length < s.length THEN splitItem(p.t, s, length) ELSE p.t
  IN  IF length <= 0 \/ p.right = None THEN p
      ELSE IF s.deleted \/ s.content[1] \notin {4, 5, 7}
      THEN deleteLoop(forward(p), length)
      ELSE deleteLoop(forward([p EXCEPT !.t = deleteItemStruct(cut, s.id)]),
                      length - s.length)

deleteText(p, type, length) ==
  LET q == deleteLoop(p, length)
      c == cleanupFormattingGap(q.t, type, p.right, q.right, p.attrs, q.attrs)
  IN  IF p.right = None THEN q ELSE [q EXCEPT !.t = c.t, !.attrs = c.attrs]

DeleteText(t, type, index, length) ==
  deleteText(findPosition(t, type, index), type, length).t
=============================================================================

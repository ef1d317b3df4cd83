------------------------------- MODULE Thread -------------------------------
(***************************************************************************)
(* connector/thread: a root message and its replies made into one document *)
(* (thread.go).  A message is its id, when it was written and edited, who  *)
(* wrote it and how long its rendered line is; 0 stands for none of each.  *)
(* The source's conversation grows and is edited, and a connector hands it *)
(* over in pages that come in either order and repeat the root.            *)
(***************************************************************************)
EXTENDS Integers, Sequences, FiniteSets, SequencesExt, FiniteSetsExt

CONSTANTS ThMaxBody, ThTitleLimit,  \* options.maxBody and TitleLimit
          ThRune,                   \* the bytes of one rune of text
          ThSizes,                  \* how long a rendered line may be, 0 for no text
          ThWords,                  \* the first lines a root may have, as lengths of words
          ThPeople, ThMaxTime
ASSUME ThAssumption == {ThMaxBody, ThRune, ThTitleLimit} \subseteq Nat \ {0}

VARIABLES
  thMsgs,   \* what the source holds, the root first
  thWords,  \* the words of the root's first line
  thNow
thVars == <<thMsgs, thWords, thNow>>

-----------------------------------------------------------------------------
\* Message.last and Message.empty.
last(m) == IF m.edited > m.at THEN m.edited ELSE m.at
empty(m) == m.size = 0 /\ m.id = 0 /\ m.at = 0

\* ordered: the root pinned to the front, replies once each by id (one without
\* an id is always kept), sorted by time and then id, the sort being stable.
thOnce(root, replies) ==
  LET repeats(i) == /\ replies[i].id # 0
                    /\ \/ ~ empty(root) /\ replies[i].id = root.id
                       \/ \E j \in 1 .. i - 1 : replies[j].id = replies[i].id
      kept == {i \in DOMAIN replies : ~ empty(replies[i]) /\ ~ repeats(i)}
  IN [n \in 1 .. Cardinality(kept) |-> replies[SetToSortSeq(kept, <)[n]]]
thSorted(ms) ==
  LET key(i) == <<ms[i].at, ms[i].id, i>>
      before(i, j) == \E k \in 1 .. 3 : key(i)[k] < key(j)[k] /\ \A l \in 1 .. k - 1 : key(i)[l] = key(j)[l]
      order == SetToSortSeq(DOMAIN ms, before)
  IN [n \in DOMAIN ms |-> ms[order[n]]]
ordered(root, replies) ==
  (IF empty(root) THEN <<>> ELSE <<root>>) \o thSorted(thOnce(root, replies))

\* assemble: the first message if it has text, then from the end backwards for
\* as long as they fit, with two bytes between messages; the middle is dropped.
keepEnd(ms, i, acc) ==
  IF i = 1 \/ ms[i].size = 0 \/ acc.full THEN acc
  ELSE IF acc.size + ms[i].size + 2 > ThMaxBody THEN [acc EXCEPT !.full = TRUE]
  ELSE [acc EXCEPT !.size = @ + ms[i].size + 2, !.keep = @ \cup {i}]
kept(ms) ==
  LET first == ms # <<>> /\ ms[1].size > 0
      start == [size |-> IF first THEN ms[1].size ELSE 0, keep |-> IF first THEN {1} ELSE {}, full |-> FALSE]
  IN FoldRight(LAMBDA i, acc : keepEnd(ms, i, acc), [i \in DOMAIN ms |-> i], start).keep
joined(ms, keep) ==
  IF keep = {} THEN 0 ELSE MapThenSumSet(LAMBDA i : ms[i].size, keep) + 2 * (Cardinality(keep) - 1)
\* cut: to n bytes and then back to the start of a rune.
cut(len, n) == IF len <= n THEN len ELSE n - (n % ThRune)
thAssemble(ms) ==
  LET keep == kept(ms)
  IN [keep |-> keep, len |-> cut(joined(ms, keep), ThMaxBody),
      omitted |-> Cardinality({i \in DOMAIN ms : ms[i].size > 0}) - Cardinality(keep)]

\* summarise: the first line, cut at its last space when that leaves more than
\* half of the room, and in the middle of a word otherwise.  How many runes it
\* has, three of them the dots of a line that was cut.
upTo(words, k) == MapThenSumSet(LAMBDA i : words[i], 1 .. k) + k - 1
atSpaces(words) == {upTo(words, k) : k \in 1 .. Len(words) - 1} \cap 0 .. ThTitleLimit - 1
summarise(words) ==
  CASE words = <<>> -> 0
    [] words # <<>> /\ upTo(words, Len(words)) <= ThTitleLimit -> upTo(words, Len(words))
    [] OTHER -> LET cuts == {i \in atSpaces(words) : i > ThTitleLimit \div 2}
                IN 3 + IF cuts = {} THEN ThTitleLimit ELSE Max(cuts)

\* span: a message without a time is left out of it even when it was edited.
span(ms) ==
  LET timed == {i \in DOMAIN ms : ms[i].at > 0}
  IN IF timed = {} THEN [created |-> 0, modified |-> 0]
     ELSE [created |-> Min({ms[i].at : i \in timed}), modified |-> Max({last(ms[i]) : i \in timed})]
participants(ms) == {ms[i].who : i \in DOMAIN ms} \ {0}

\* Document, the part of it that this package computes.
thDocument(root, replies) ==
  LET ms == ordered(root, replies)
      body == thAssemble(ms)
  IN [body |-> body, text |-> [i \in body.keep |-> ms[i].id], messages |-> Len(ms),
      replies |-> Len(ms) - (IF empty(root) THEN 0 ELSE 1),
      participants |-> Cardinality(participants(ms)),
      revision |-> span(ms).modified, created |-> span(ms).created]

-----------------------------------------------------------------------------
\* A conversation at its source.  An import may leave the root without a time,
\* without text, or with nothing at all.
ThInit ==
  /\ thNow = 1
  /\ thWords \in ThWords
  /\ \E size \in ThSizes \cup {0}, at \in {0, 1}, id \in {0, 1} :
       thMsgs = <<[id |-> id, at |-> at, edited |-> 0, who |-> 0, size |-> size]>>
\* Somebody replies; the reply has an id of its own, or the source gives none.
ThReply ==
  /\ thNow < ThMaxTime
  /\ thNow' = thNow + 1
  /\ \E size \in ThSizes \cup {0}, who \in ThPeople, tie \in BOOLEAN :
       thMsgs' = Append(thMsgs, [id |-> thNow + 1, at |-> IF tie THEN thNow ELSE thNow + 1, edited |-> 0,
                                 who |-> who, size |-> size])
  /\ UNCHANGED thWords
\* Somebody edits a message in place, the root included.
ThEdit ==
  /\ thNow < ThMaxTime
  /\ thNow' = thNow + 1
  /\ \E i \in DOMAIN thMsgs, size \in ThSizes :
       thMsgs' = [thMsgs EXCEPT ![i].edited = thNow + 1, ![i].size = size]
  /\ UNCHANGED thWords
ThNext == ThReply \/ ThEdit

\* The pages a connector may hand over of the same conversation.
thPages == {thMsgs, Reverse(thMsgs), Tail(thMsgs), Tail(thMsgs) \o thMsgs}
thRoot == Head(thMsgs)
thDoc(pages) == thDocument(thRoot, pages)

-----------------------------------------------------------------------------
\* The body is what the conversation is about and the newest of what was said:
\* it fits, the opening message is in it if it has text, what else is in it is
\* an unbroken run up to the end, one more would not have fitted, and what is
\* missing is counted (assemble).
BodyIsRootAndEnd ==
  \A pages \in thPages :
    LET ms == ordered(thRoot, pages)
        body == thAssemble(ms)
        said == {i \in DOMAIN ms : ms[i].size > 0}
        run(n) == {i \in said : i = 1 \/ i >= n}
        cost(n) == MapThenSumSet(LAMBDA i : ms[i].size + (IF i = 1 THEN 0 ELSE 2), run(n))
        fits == {n \in 2 .. Len(ms) + 1 : cost(n) <= ThMaxBody}
    IN /\ body.len <= ThMaxBody
       /\ 1 \in said => 1 \in body.keep
       /\ body.keep = IF fits = {} THEN run(Len(ms) + 1) ELSE run(Min(fits))
       /\ body.omitted = Cardinality(said \ body.keep)

\* However the pages of a reply listing come, and however often they repeat the
\* root, the document is the same and every reply in it is counted once
\* (ordered).
PagesDoNotMatter ==
  LET document == thDoc(Tail(thMsgs)) IN
    /\ document.replies = Cardinality({i \in 2 .. Len(thMsgs) : ~ empty(thMsgs[i])})
    /\ thRoot.id # 0 => \A pages \in thPages : thDoc(pages) = document

\* A reply and an edit both move the version of the document, so that an
\* incremental sync sees them (Document).
EveryChangeMovesRevision ==
  [][thNow' > thNow /\ (\E i \in DOMAIN thMsgs' : thMsgs'[i].at > 0 /\ thNow' \in {thMsgs'[i].at, thMsgs'[i].edited})
       => thDocument(Head(thMsgs'), Tail(thMsgs')).revision > thDoc(Tail(thMsgs)).revision]_thVars

\* A title made of the first line is bounded, and when it was cut it ends with
\* a whole word or uses all of the room (summarise).
TitleIsBounded ==
  LET t == summarise(thWords)
  IN /\ t <= ThTitleLimit + 3
     /\ thWords # <<>> /\ upTo(thWords, Len(thWords)) > ThTitleLimit => t > (ThTitleLimit \div 2) + 3
=============================================================================

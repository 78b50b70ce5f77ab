--------------------------- MODULE ConfigDocument ---------------------------
(***************************************************************************)
(* The line-preserving wg-quick document of internal/agent/configdoc: what *)
(* is read from the lines, the gate that every edit passes, and the four   *)
(* edits: patch a peer, add one, cut its block out for the archive, and    *)
(* append an archived block again.                                         *)
(*                                                                         *)
(* A line is a record: its kind, the section it opens or the key it        *)
(* assigns, the list of values behind the "=", and whether a newline ends  *)
(* it.  Only the last line of a file can lack the newline, and whatever is *)
(* written behind such a line continues it: Render models the output of    *)
(* bytes that are parsed again.  Spaces, the case of keys, \r\n and lines  *)
(* of spaces only are left out; comments are told apart by their text.     *)
(***************************************************************************)
EXTENDS Integers, Sequences, FiniteSets, FiniteSetsExt, Functions

CONSTANTS
  Peers,      \* valid public keys
  Cidrs,      \* canonical CIDRs
  Endpoints,  \* endpoints
  Keepalives, \* keepalive intervals, with Off for 0
  Secrets,    \* valid private and preshared keys
  Off, Keep, Absent,
  Garbled,    \* a value that no reader accepts
  Texts,      \* comments
  Files,      \* the documents a run starts from
  Patches,    \* requests to PatchPeer: a list of values, or Keep, per field
  NewPeers,   \* requests to AddPeer: a list of values per field
  MaxLines    \* bound on the lines of a document

VARIABLES
  doc,        \* the lines of the file
  archive,    \* the block RemovePeer returned, per peer; <<>> if there is none
  call        \* the last request, as in ConfigMeaning

vars == <<doc, archive, call>>

Fields == {"allowedips", "endpoint", "persistentkeepalive", "presharedkey"}
Values ==
  [f \in Fields |-> CASE f = "allowedips" -> Cidrs
                     [] f = "endpoint" -> Endpoints \cup {Garbled}
                     [] f = "persistentkeepalive" -> Keepalives
                     [] f = "presharedkey" -> Secrets \cup {Garbled}]

ASSUME NamesAssumption ==
  /\ Absent \notin Peers /\ Garbled \notin Peers
  /\ Absent \notin [Fields -> SUBSET UNION {Values[f] : f \in Fields}]
  /\ Off \notin Cidrs \cup Endpoints \cup Secrets \cup {Garbled}

(* What a request may give for a field; the caller has parsed it. *)
Lists(f) ==
  IF f = "allowedips" THEN Seq(Cidrs)
  ELSE {<<>>} \cup {<<v>> : v \in Values[f] \ {Garbled}}
ASSUME RequestsAssumption ==
  /\ \A w \in NewPeers : DOMAIN w = Fields /\ \A f \in Fields : w[f] \in Lists(f)
  /\ \A w \in Patches : DOMAIN w = Fields /\ \A f \in Fields : w[f] = Keep \/ w[f] \in Lists(f)

Kinds == {"blank", "comment", "header", "assignment", "raw"}
Header(section) == [kind |-> "header", key |-> section, val |-> <<>>, nl |-> TRUE]
Assignment(key, list) == [kind |-> "assignment", key |-> key, val |-> list, nl |-> TRUE]
Comment(text) == [kind |-> "comment", key |-> "", val |-> <<text>>, nl |-> TRUE]
BlankLine == [kind |-> "blank", key |-> "", val |-> <<>>, nl |-> TRUE]

(* A value that does not parse as an endpoint or a secret is Garbled. *)
Keys == Fields \cup {"", "interface", "peer", "publickey", "privatekey", "other"}
Words == Peers \cup Cidrs \cup Endpoints \cup Keepalives \cup Secrets \cup Texts \cup {Garbled}
Lines ==
  {l \in [kind : Kinds, key : Keys, val : Seq(Words), nl : BOOLEAN] :
     l.kind = "assignment" /\ l.key \in {"endpoint", "presharedkey"} =>
       Range(l.val) \subseteq Values[l.key]}
WellFormed(d) == d \in Seq(Lines) /\ \A i \in 1 .. Len(d) - 1 : d[i].nl
-----------------------------------------------------------------------------
(* Reading: the sections, the peers' blocks and what they say. *)

Headers(d) == {i \in DOMAIN d : d[i].kind = "header"}
Section(d, i) == LET above == {h \in Headers(d) : h <= i}
                 IN  IF above = {} THEN "" ELSE d[Max(above)].key
Assigned(b, key) == {i \in DOMAIN b : b[i].kind = "assignment" /\ b[i].key = key}

(* The elements at some indices, in order. *)
Nth(indices, n) == CHOOSE i \in indices : Cardinality({j \in indices : j <= i}) = n
SelectIndices(d, indices) == [n \in 1 .. Cardinality(indices) |-> d[Nth(indices, n)]]

(* A peer's block runs from its header to the next header of any section, so
   it holds the blank lines and comments in front of that header too. *)
BlockEnd(d, first) == Min({i \in Headers(d) : i > first} \cup {Len(d) + 1}) - 1

Blocks(d) == {[first |-> i, last |-> BlockEnd(d, i), lines |-> SubSeq(d, i, BlockEnd(d, i))] :
                i \in {h \in Headers(d) : d[h].key = "peer"}}

ValidKey(list) == Len(list) = 1 /\ list[1] \in Peers
ValidSecret(list) == Len(list) = 1 /\ list[1] \in Secrets

(* The last assignment that the reader accepts decides; none is <<>>. *)
LastValue(b, accepted) == IF accepted = {} THEN <<>> ELSE b[Max(accepted)].val

PublicKey(b) ==
  LET list == LastValue(b, {i \in Assigned(b, "publickey") : ValidKey(b[i].val)})
  IN  IF list = <<>> THEN Absent ELSE list[1]

(* AllowedIPs add up over all their lines, items that do not parse are skipped;
   of the other settings the last line counts, of the keepalive the last that
   is a number. *)
AllowedIPs(b) == UNION {Range(b[i].val) \cap Cidrs : i \in Assigned(b, "allowedips")}
IsKeepalive(list) == Len(list) = 1 /\ list[1] \in Keepalives
ReadSettings(b) ==
  [f \in Fields |->
     CASE f = "allowedips" -> AllowedIPs(b)
       [] f = "persistentkeepalive" ->
            Range(LastValue(b, {i \in Assigned(b, f) : IsKeepalive(b[i].val)})) \ {Off}
       [] OTHER -> Range(LastValue(b, Assigned(b, f)))]

FindPeer(d, p) == {b \in Blocks(d) : PublicKey(b.lines) = p}

(* Statements that do not parse, sections of another name, and assignments in
   front of the first section. *)
HasUnknown(d) ==
  LET first == Min(Headers(d) \cup {Len(d) + 1})
  IN  \/ \E i \in DOMAIN d : d[i].kind = "raw"
      \/ \E i \in Headers(d) : d[i].key \notin {"interface", "peer"}
      \/ \E i \in 1 .. first - 1 : d[i].kind = "assignment"

(* The warnings about one block that make a document unsafe to edit. *)
BlockIsSafe(b) ==
  /\ PublicKey(b) # Absent
  /\ \A i \in Assigned(b, "publickey") : ValidKey(b[i].val)
  /\ \A key \in {"publickey", "presharedkey"} : Cardinality(Assigned(b, key)) <= 1

PeersAreDistinct(d) == \A p \in Peers : Cardinality(FindPeer(d, p)) <= 1

(* One private key in the interface's section, and a valid one *)
PrivateKeyIsSafe(d) ==
  LET found == {i \in Assigned(d, "privatekey") : Section(d, i) = "interface"}
  IN  \E i \in found : found = {i} /\ ValidSecret(d[i].val)

InterfaceHeaders(d) == {i \in Headers(d) : d[i].key = "interface"}
AdoptionSafe(d) ==
  /\ Cardinality(InterfaceHeaders(d)) = 1
  /\ ~HasUnknown(d)
  /\ PrivateKeyIsSafe(d)
  /\ \A b \in Blocks(d) : BlockIsSafe(b.lines)
  /\ PeersAreDistinct(d)

(* A file is managed once it has passed the gate. *)
ASSUME FilesAssumption == \A d \in Files : WellFormed(d) /\ AdoptionSafe(d)
-----------------------------------------------------------------------------
(* Writing: bytes are concatenated and parsed again. *)

(* A line without newline and the line written behind it are one line: a
   comment swallows it, the last value of an assignment runs into it. *)
Joined(l, r) ==
  CASE l.kind = "assignment" ->
         [l EXCEPT !.val = Append(SubSeq(@, 1, Len(@) - 1), Garbled), !.nl = r.nl]
    [] OTHER -> [l EXCEPT !.nl = r.nl]

Render(lines) ==
  LET open == {i \in 1 .. Len(lines) - 1 : ~lines[i].nl}
      i == Min(open)
  IN  IF open = {} THEN lines
      ELSE SubSeq(lines, 1, i - 1) \o <<Joined(lines[i], lines[i + 1])>>
             \o SubSeq(lines, i + 2, Len(lines))

(* Mistake: the line behind the block goes with it. *)
ReplaceOneMore(d, b, lines) ==
  Render(SubSeq(d, 1, b.first - 1) \o lines \o SubSeq(d, b.last + 2, Len(d)))

ReplaceNodeRange(d, b, lines) ==
  Render(SubSeq(d, 1, b.first - 1) \o lines \o SubSeq(d, b.last + 1, Len(d)))

(* The separator in front of an appended block: the last line is ended, and a
   blank line follows unless the document ends with one. *)
EndsWithBlankLine(d) == Len(d) > 1 /\ d[Len(d)] = BlankLine

(* Mistake: only the blank line is taken care of. *)
SeparatedByBlank(d) ==
  IF d = <<>> \/ EndsWithBlankLine(d) THEN d ELSE Render(Append(d, BlankLine))

Separated(d) ==
  IF d = <<>> \/ EndsWithBlankLine(d) THEN d
  ELSE Append([d EXCEPT ![Len(d)].nl = TRUE], BlankLine)

(* Duplicates are dropped, the first of each value stays. *)
CanonicalPrefixes(list) ==
  SelectIndices(list, {i \in DOMAIN list : \A j \in 1 .. i - 1 : list[j] # list[i]})
Written(f, w) == IF f = "allowedips" THEN CanonicalPrefixes(w[f]) ELSE w[f]

(* What a patch does to the lines of its block: the first assignment of a key the
   caller mentions gets the new value in its place, the repetitions go, and all
   of them go if the new value is empty. *)
Mentioned(w) == {f \in Fields : w[f] # Keep}
FirstOf(b, f) == Min(Assigned(b, f))
Selects(l, w) == l.kind = "assignment" /\ l.key \in Mentioned(w)

(* Mistake: the first line gets the new value, its repetitions stay. *)
StaysWithRepetitions(b, i, w) == Selects(b[i], w) => Written(b[i].key, w) # <<>>

Stays(b, i, w) ==
  Selects(b[i], w) => Written(b[i].key, w) # <<>> /\ i = FirstOf(b, b[i].key)

Rewritten(b, w) ==
  SelectIndices([i \in DOMAIN b |-> IF Selects(b[i], w) /\ i = FirstOf(b, b[i].key)
                                    THEN [b[i] EXCEPT !.val = Written(b[i].key, w)]
                                    ELSE b[i]],
                {i \in DOMAIN b : Stays(b, i, w)})

(* A key that the block does not have yet is appended at its end. *)
Appended(b, f, w) ==
  IF f \in Mentioned(w) /\ Assigned(b, f) = {} /\ Written(f, w) # <<>>
  THEN <<Assignment(f, Written(f, w))>> ELSE <<>>

PatchedBlock(b, w) ==
  Rewritten(b, w) \o Appended(b, "allowedips", w) \o Appended(b, "endpoint", w)
    \o Appended(b, "persistentkeepalive", w) \o Appended(b, "presharedkey", w)

(* A file may end inside the block of a peer, without a newline: a key appended there
   continues the last line, and what either of them said is lost. *)
Spoils(b, w) ==
  /\ \E f \in Fields : Appended(b, f, w) # <<>>
  /\ \E i \in DOMAIN Rewritten(b, w) : ~Rewritten(b, w)[i].nl

(* The block of a new peer: optional settings are written when they are there,
   the keepalive when it is not 0. *)
NewBlock(p, w) ==
  LET line(f) == IF w[f] \in {<<>>, <<Off>>} THEN <<>> ELSE <<Assignment(f, Written(f, w))>>
  IN  <<Header("peer"), Assignment("publickey", <<p>>)>> \o line("presharedkey")
        \o line("allowedips") \o line("endpoint") \o line("persistentkeepalive")
-----------------------------------------------------------------------------
Asked(op, p, want) == [op |-> op, peer |-> p, want |-> want]

Init ==
  /\ doc \in Files
  /\ archive = [p \in Peers |-> <<>>]
  /\ call = Absent

(* Every edit is refused on an unsafe document, and leaves it as it was.  What an edit
   has made of the document is parsed again, but does not have to pass the gate. *)
PatchPeer(p) ==
  /\ AdoptionSafe(doc)
  /\ \E b \in FindPeer(doc, p), w \in Patches :
        /\ doc' = ReplaceNodeRange(doc, b, PatchedBlock(b.lines, w))
        /\ Len(doc') <= MaxLines
        /\ call' = Asked(IF Spoils(b.lines, w) THEN "spoil" ELSE "patch", p, w)
  /\ UNCHANGED archive

AddPeer(p) ==
  /\ AdoptionSafe(doc) /\ FindPeer(doc, p) = {}
  /\ archive[p] = <<>>   \* a created peer has a new key
  /\ \E w \in NewPeers :
        /\ doc' = Separated(doc) \o NewBlock(p, w)
        /\ Len(doc') <= MaxLines
        /\ call' = Asked("add", p, w)
  /\ UNCHANGED archive

RemovePeer(p) ==
  /\ AdoptionSafe(doc)
  /\ \E b \in FindPeer(doc, p) :
        /\ archive' = [archive EXCEPT ![p] = b.lines]
        /\ doc' = ReplaceNodeRange(doc, b, <<>>)
  /\ call' = Asked("remove", p, Keep)

(* The payload must be one safe block of this peer, whatever the archive holds. *)
IsPeerBlock(lines, p) ==
  /\ InterfaceHeaders(lines) = {} /\ ~HasUnknown(lines)
  /\ Cardinality(Blocks(lines)) = 1
  /\ \E b \in FindPeer(lines, p) : BlockIsSafe(b.lines)

RestorePeerBlock(p) ==
  /\ AdoptionSafe(doc) /\ FindPeer(doc, p) = {}
  /\ IsPeerBlock(archive[p], p)
  /\ doc' = Separated(doc) \o archive[p]
  /\ Len(doc') <= MaxLines
  /\ archive' = [archive EXCEPT ![p] = <<>>]
  /\ call' = Asked("restore", p, Keep)

Next ==
  \E p \in Peers : PatchPeer(p) \/ AddPeer(p) \/ RemovePeer(p) \/ RestorePeerBlock(p)

Spec == Init /\ [][Next]_vars
-----------------------------------------------------------------------------
(* Lines are well formed, and only the last one may lack its newline. *)
TypeOK ==
  /\ WellFormed(doc)
  /\ \A p \in Peers : archive[p] \in Seq(Lines)

(* What the lines say is what the callers asked for: the refinement mapping reads
   the settings off the blocks.  Repeated, reordered, moved or commented lines
   must make no difference (PatchPeer, AddPeer, RemovePeer, RestorePeerBlock).  Only a
   patch that Spoils may make something else of its own peer's settings. *)
Saying(d, p) ==
  LET said == {ReadSettings(b.lines) : b \in FindPeer(d, p)}
  IN  IF said = {} THEN Absent ELSE CHOOSE r \in said : TRUE
Meaning == INSTANCE ConfigMeaning WITH
  Wants <- Patches \cup NewPeers,
  peers <- [p \in Peers |-> Saying(doc, p)],
  archived <- [p \in Peers |-> Saying(archive[p], p)]
MeaningKept == Meaning!Spec

(* No edit of a document that the gate accepts leads to one that every later edit
   refuses, so WireGate does not lock itself out of a file it manages (AdoptionSafe).
   The one edit that can is a patch that Spoils: if the last line gives the public key,
   the key that PatchPeer appends makes it invalid. *)
StaysSafe == [][call'.op # "spoil" => AdoptionSafe(doc')]_vars

(* The lines of a document without those of a peer's block that assign one of the
   fields. *)
Without(d, p, fields) ==
  LET selected == UNION {{i \in b.first .. b.last : /\ d[i].kind = "assignment"
                                                    /\ d[i].key \in fields} :
                           b \in FindPeer(d, p)}
  IN  SelectIndices(d, DOMAIN d \ selected)

(* Every line the caller did not select is kept, in its place: PatchPeer rewrites the
   assignments it was asked to and no comment, unknown key, other peer or interface
   line; RemovePeer archives the block it cuts out line by line; RestorePeerBlock
   puts exactly that block behind everything that is there.  A patch that Spoils
   changes a line nobody selected, but none in front of its peer's block. *)
LinesKept ==
  [][LET p == call'.peer
     IN  CASE call'.op = "patch" ->
                Without(doc', p, Mentioned(call'.want)) = Without(doc, p, Mentioned(call'.want))
           [] call'.op = "spoil" ->
                \A b \in FindPeer(doc, p) : SubSeq(doc', 1, b.first - 1) = SubSeq(doc, 1, b.first - 1)
           [] call'.op = "remove" ->
                \E n \in 0 .. Len(doc') :
                   doc = SubSeq(doc', 1, n) \o archive'[p] \o SubSeq(doc', n + 1, Len(doc'))
           [] OTHER ->
                /\ \A i \in DOMAIN doc : [doc'[i] EXCEPT !.nl = doc[i].nl] = doc[i]
                /\ call'.op = "restore" => \E b \in FindPeer(doc', p) : b.lines = archive[p]]_vars
=============================================================================

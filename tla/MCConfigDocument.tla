-------------------------- MODULE MCConfigDocument --------------------------
(* Documents as administrators write them: repeated and unknown keys, comments,
   blank lines, sections in any order, with and without a last newline. *)
EXTENDS ConfigDocument, SequencesExt

CONSTANTS p1, p2, a, b, e, k, s, t

Interfaces == {<<Header("interface"), Assignment("privatekey", <<s>>), BlankLine>>,
               <<Header("interface"), Comment(t), Assignment("privatekey", <<s>>)>>}

PeerBlocks(p) == {
  <<Header("peer"), Assignment("publickey", <<p>>), Assignment("allowedips", <<a>>)>>,
  <<Header("peer"), Assignment("allowedips", <<a>>), Assignment("allowedips", <<b>>),
    Assignment("publickey", <<p>>), Assignment("endpoint", <<e>>), Comment(t)>>,
  <<Header("peer"), Comment(t), Assignment("publickey", <<p>>),
    Assignment("presharedkey", <<s>>), BlankLine, Assignment("other", <<>>)>>}

Terminated ==
  {i \o x : i \in Interfaces, x \in PeerBlocks(p1)}
  \cup {x \o i \o y : i \in Interfaces, x \in PeerBlocks(p1),
          y \in {z \in PeerBlocks(p2) : Len(z) = 3}}
Unterminated(d) == [d EXCEPT ![Len(d)].nl = FALSE]
EndsWithInterface == {Unterminated(x \o i) : x \in PeerBlocks(p1),
                        i \in {j \in Interfaces : Last(j) # BlankLine}}

(* The last request says nothing about what can happen next. *)
LinesAndArchive == <<doc, archive>>

Requests(lists) ==
  {[allowedips |-> x, endpoint |-> y, persistentkeepalive |-> z, presharedkey |-> u] :
     x \in lists["allowedips"], y \in lists["endpoint"],
     z \in lists["persistentkeepalive"], u \in lists["presharedkey"]}
AllNew == Requests([allowedips |-> {<<a, b, a>>}, endpoint |-> {<<>>, <<e>>},
                    persistentkeepalive |-> {<<Off>>}, presharedkey |-> {<<s>>}])
(* One or two fields at a time. *)
SmallPatches ==
  {w \in Requests([allowedips |-> {Keep, <<a>>}, endpoint |-> {Keep, <<>>, <<e>>},
                   persistentkeepalive |-> {Keep, <<k>>, <<Off>>},
                   presharedkey |-> {Keep, <<>>}]) : Cardinality(Mentioned(w)) \in 1 .. 2}

(* Documents that end inside a peer's block, without a newline. *)
EndsWithPeer ==
  LET first == <<Header("interface"), Assignment("privatekey", <<s>>), BlankLine>>
      last == {y \in PeerBlocks(p1) : Len(y) = 5}
                \cup {<<Header("peer"), Assignment("allowedips", <<a>>), Assignment("publickey", <<p1>>)>>,
                      <<Header("peer"), Assignment("publickey", <<p1>>), Assignment("allowedips", <<a>>)>>}
  IN  {Unterminated(first \o y) : y \in last}

ManagedFiles == Terminated \cup EndsWithInterface \cup EndsWithPeer
=============================================================================

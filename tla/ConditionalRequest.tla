------------------------- MODULE ConditionalRequest -------------------------
(* How the REST API reads an If-None-Match header.  A header is a sequence    *)
(* of the things the scanner tells apart: list separators, the star, entity   *)
(* tags, strong or weak, and what is neither.  White space is trimmed in      *)
(* front of each of them and has no place here.                               *)
EXTENDS Naturals, Sequences

Tag(v) == [kind |-> "tag", weak |-> FALSE, value |-> v]
WeakTag(v) == [kind |-> "tag", weak |-> TRUE, value |-> v]
Symbol(k, v) == [kind |-> k, weak |-> FALSE, value |-> v]

WeakMatch(a, b) == a.value = b.value

\* Wrong on purpose: what the code once did, comparing the header as a whole.
MatchesWhole(header, etag) == header = <<etag>>

\* matchesIfNoneMatch: from[i] is the answer for what is left from element i on.
MatchesIfNoneMatch(header, etag) ==
    LET from[i \in 1..(Len(header) + 1)] ==
          IF i > Len(header) THEN FALSE
          ELSE CASE header[i].kind = "comma" -> from[i + 1]
                 [] header[i].kind = "star" -> TRUE
                 [] header[i].kind = "tag" -> WeakMatch(header[i], etag) \/ from[i + 1]
                 [] OTHER -> FALSE
    IN from[1]

\* RFC 9110, 13.1.2: a star, or a list that names the current tag; the elements
\* in front of the match must have been well formed.
Names(header, etag) ==
    \E i \in DOMAIN header :
        /\ \/ header[i].kind = "star"
           \/ header[i].kind = "tag" /\ header[i].value = etag.value
        /\ \A j \in 1..(i - 1) : header[j].kind \in {"comma", "tag"}

\* Every header of at most n elements about the tags of values V.
Headers(V, v, n) ==
    LET elements == {Tag(x) : x \in V} \cup {WeakTag(x) : x \in V}
                      \cup {Symbol(k, v) : k \in {"comma", "star", "junk"}}
    IN UNION {[1..k -> elements] : k \in 0..n}
=============================================================================

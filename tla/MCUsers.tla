------------------------------- MODULE MCUsers -------------------------------
(***************************************************************************)
(* Values for Users: words of three bits, nine stamps (two keys, two ways  *)
(* to write a flag, one flag short by a word, one by two, one that does    *)
(* not decode, one of an unknown version), and names of two labels.        *)
(***************************************************************************)
EXTENDS Users, TLC

MCText == STRING

MCStamp ==
  LET s(d, f) == [delim |-> d, fields |-> f]
  IN  "1:a" :> s(":", <<"1", "a">>) @@ "1-a" :> s("-", <<"1", "a">>)
      @@ "1:a:k" :> s(":", <<"1", "a", "k">>) @@ "1-b-k" :> s("-", <<"1", "b", "k">>)
      @@ "1-c-j" :> s("-", <<"1", "c", "j">>) @@ "1:x:k" :> s(":", <<"1", "x", "k">>)
      @@ "1:y" :> s(":", <<"1", "y">>) @@ "1-no-k_" :> s("-", <<"1", "no", "k_">>)
      @@ "2:a" :> s(":", <<"2", "a">>)

\* The text "a" is good in both alphabets, of flags that differ.
MCDecoded ==
  ":" :> ("a" :> <<{0, 2}, {1}, {0, 2}>> @@ "b" :> <<{1}, {0, 1}>>
          @@ "x" :> <<{0, 2}, {1, 2}>> @@ "y" :> <<{0, 1, 2}, {1}>>)
  @@ "-" :> ("a" :> <<{1}, {0, 1}>> @@ "b" :> <<{0, 2}, {1}, {0, 2}>>
             @@ "c" :> <<{0, 1, 2}, {0}, {1}, {2}>>)

MCRecommended == <<<<"rec", "1:a">>, <<"sec", "1-a">>>>

Ads == <<"ads", "tld">>
Cdn == <<"cdn", "net">>

MCFilters ==
  {Ads :> <<{0}, {0}>> @@ <<"tld">> :> <<{0}, {2}>> @@ Cdn :> <<{0, 1, 2}, {0}, {0}, {0}>>,
   Ads :> <<{0, 2}, {0, 1}, {2}>> @@ <<"tld">> :> <<{1}, {1, 2}>>,
   <<"tld">> :> <<{1, 2}, {1}, {1, 2}>> @@ <<"net">> :> <<{0, 2}, {0}, {1}>>,
   <<"net">> :> <<{1, 2}, {1}, {1, 2}>> @@ Ads :> <<{0, 1, 2}, {0}, {0}, {0}>>}

\* A query, of the type and for the first of the names, whose answer begins with
\* a record of type first and has the other names in it.
Query(door, host, path, qtype, names, first, grounded) ==
  [door |-> door, host |-> host, path |-> path, lid |-> FALSE, qtype |-> qtype,
   names |-> names, first |-> first, grounded |-> grounded]

Cmd(path) ==
  [door |-> "command", host |-> <<"dns", "io">>, path |-> path, lid |-> TRUE,
   qtype |-> "", names |-> <<>>, first |-> "", grounded |-> FALSE]

Max3 == <<"max", "dns", "io">>
MCAsks ==
  {Query("doh", Max3, <<"1:a">>, "A", <<Ads>>, "A", FALSE),
   Query("doh", <<"1-a", "dns", "io">>, <<"1:a:k">>, "AAAA", <<Ads, Cdn>>, "CNAME", FALSE),
   Query("doh", Max3, <<"rec", "dns-query">>, "HTTPS", <<Ads>>, "", FALSE),
   Query("doh", Max3, <<"1:x:k">>, "A", <<Ads>>, "A", FALSE),
   Query("doh", Max3, <<"1:y">>, "A", <<Ads>>, "A", FALSE),
   Query("dot", <<"1-b-k", "dns", "io">>, <<>>, "A", <<Cdn>>, "A", FALSE),
   Query("dot", <<"1-a", "max", "dns", "io">>, <<>>, "TXT", <<Ads>>, "TXT", FALSE),
   Query("dot", <<"1-c-j", "dns", "io">>, <<>>, "A", <<Cdn, Ads>>, "CNAME", FALSE),
   Query("dot", <<"1-c-j", "dns", "io">>, <<>>, "A", <<Cdn, Ads>>, "RRSIG", FALSE),
   Query("dot", <<"1-c-j", "dns", "io">>, <<>>, "A", <<Cdn, Ads>>, "CNAME", TRUE),
   Query("dot", <<"1-c-j", "dns", "io">>, <<>>, "MX", <<Ads, Cdn>>, "CNAME", TRUE),
   Query("dot", <<"sec", "other", "io">>, <<>>, "A", <<Ads>>, "A", FALSE),
   Query("doh", <<"dns", "io">>, <<"1-no-k_">>, "A", <<Ads>>, "A", FALSE),
   Query("doh", <<"free", "bravedns", "com">>, <<"2:a">>, "A", <<Cdn>>, "A", FALSE),
   Cmd(<<"1:a:k", "logs">>), Cmd(<<"logs">>)}

MCAccessKeys ==
  {{}, {Token("k", <<"dns", "io">>)}, {Token("j", <<"io">>), Token("k", Max3)}}
MCNames == {<<"dns", "io">>}
MCWildcards == {<<"dns", "io">>, Max3}
MCDelegated == {Cdn}
=============================================================================

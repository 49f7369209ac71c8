------------------------------ MODULE MCUnpack -------------------------------
EXTENDS Unpack
Names1 == {<<"a">>, <<"a", "b">>, <<"", "a">>, <<".", "">>, <<"a", "..", "b">>, <<"a", "..", "..", "b">>}
E(type, name, data, via) == [type |-> type, name |-> name, data |-> data, via |-> via]
Files1 == {E("file", n, d, v) : n \in Names1, d \in {<<>>, <<1>>, <<1, 2, 3>>}, v \in {"plain", "long", "paxsize"}}
     \cup {E("file", <<"b">>, <<1, 2>>, v) : v \in {"pax", "huge"}}
Others1 == {E("dir", n, <<>>, "plain") : n \in {<<"a", "">>, <<"b", "c">>, <<"..">>}}
      \cup {E("link", <<"a">>, <<>>, v) : v \in {"plain", "long"}}
Pairs1 == {<<x, y>> : x \in Files1, y \in Others1 \cup {E("file", <<"a">>, <<3>>, "plain"), E("file", <<"b", "a">>, <<4, 5>>, "pax")}}
     \cup {<<y, x>> : x \in {f \in Files1 : Len(f.data) = 3}, y \in Others1}
Ask1(scheme, extract, entries) ==
  [scheme |-> scheme, extract |-> extract, filename |-> "app", keys |-> TRUE, length |-> FALSE, entries |-> entries,
   members |-> {}]
ZE(type, name, data, method) ==
  [type |-> type, name |-> name, data |-> data, method |-> method, locked |-> FALSE, crc |-> data,
   claim |-> Len(data), via |-> "zip"]
ZFiles == {ZE("file", n, d, m) : n \in {<<"a">>, <<"a", "b">>, <<"..", "a">>}, d \in {<<>>, <<1, 2>>, <<1, 2, 3, 4, 5>>}, m \in {0, 8}}
     \cup {ZE("dir", <<"a", "">>, <<>>, 0), ZE("dir", <<"b">>, <<>>, 0), ZE("file", <<"b">>, <<1>>, 12)}
     \cup {[ZE("file", <<"a">>, <<1, 2, 3>>, m) EXCEPT !.claim = c] : m \in {0, 8}, c \in {2, 5}}
     \cup {[ZE("file", <<"c">>, <<1, 2>>, 8) EXCEPT !.crc = <<2, 1>>], [ZE("file", <<"c">>, <<1>>, 0) EXCEPT !.locked = TRUE]}
Plain == [Ask1("http", "", <<[data |-> <<1, 2, 3>>]>>) EXCEPT !.length = TRUE]
\* A tar in one member, and in one for each block of its archive.
Tars1 == {Ask1("http", x, e) : x \in {"tar.gz", "tar.bz2"}, e \in Pairs1}
Blocks(a) == {n \in 1..(Len(Tar(a.entries)) - 1) : n % BLOCK = 0}
MCArtifacts ==
       Tars1 \cup {[a EXCEPT !.members = Blocks(a), !.length = l] : a \in Tars1, l \in BOOLEAN}
  \cup {Ask1("http", "zip", <<x>>) : x \in ZFiles} \cup {Ask1("https", "zip", <<x, y>>) : x \in ZFiles, y \in ZFiles}
  \cup {Ask1("s3", "zip", <<x, y, ZE("file", <<"d", "e">>, <<1, 2>>, 0), ZE("file", <<"d">>, <<1, 2>>, 0)>>) : x \in ZFiles, y \in ZFiles}
  \cup {Plain, [Plain EXCEPT !.length = FALSE], [Plain EXCEPT !.filename = ".."], [Plain EXCEPT !.filename = "a/b"],
        [Plain EXCEPT !.scheme = "ftp"], [Plain EXCEPT !.extract = "rar"], [Plain EXCEPT !.scheme = "s3", !.keys = FALSE]}
==============================================================================

----------------------------- MODULE MCKeysSession -----------------------------
(* Entries and searches for TLC: values that share letters in upper and lower *)
(* case, one that comes so often that its fields are too many for their text, *)
(* and fields named pass....                                                  *)
EXTENDS KeysSession

Plain(val) == [pass |-> FALSE, val |-> val]
Secret(val) == [pass |-> TRUE, val |-> val]
aB == <<1, Upper + 2>>
b == <<2>>
MCEntries ==
  {<<Plain(aB), Secret(<<3, Space, 3>>), Plain(b)>>,
   <<Plain(b), Plain(b), Plain(b), Plain(b), Plain(b)>>,
   <<Secret(aB)>>}
MCValues == {<<1, 2>>, b}
MCFiles == {<<[entry |-> <<Plain(b)>>], [entry |-> <<Plain(aB), Plain(b)>>]>>}
===============================================================================

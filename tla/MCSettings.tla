----------------------------- MODULE MCSettings -----------------------------
\* Settings with two versions of abh and every place settings come from.
EXTENDS Settings

All(rate, cache) ==
    [server_url |-> "url", password |-> "inline", rate |-> rate,
     payee_name |-> "theirs", cache_dir |-> cache]

TwoVersions == {"v1", "v2"}
SomeEdits ==
    {NoKeys, All("mine", "mycache"), [rate |-> "mine"],
     [server_url |-> "url", password |-> "inline", cache_dir |-> "mycache"]}

Dir(overlay) == [base |-> Shipped("v1"), overlay |-> overlay]
SomeCheckout == Dir([server_url |-> "local"])

SomeEnvironments ==
    [file : {None, Absent, All("file", Empty)},
     dir : {None, Dir(Absent), [base |-> Absent, overlay |-> All("dir", Empty)]},
     exe : {None, Dir([cache_dir |-> "/cache"])},
     home : BOOLEAN,
     variables : {NoKeys, [password |-> Empty], [password |-> "exported"],
                  [server_url |-> "exported", rate |-> "exported"]},
     secrets : {NoKeys, [password |-> Absent], [password |-> "secret"]}]
=============================================================================

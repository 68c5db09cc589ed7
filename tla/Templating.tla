----------------------------- MODULE Templating -----------------------------
(***************************************************************************)
(* chutney's Templating.py: Environ, a dictionary that delegates the keys  *)
(* it lacks to a parent and computes some with _get_KEY(my) getters;       *)
(* IncluderDict, which answers ${include:NAME} with a file's contents; and *)
(* Template.format, which runs string.Template.substitute (with chutney's  *)
(* wider idpattern) again and again until the text stops changing.         *)
(*                                                                         *)
(* A text is a sequence of one-character strings.  Only the characters    *)
(* the placeholder syntax tells apart are kept: "$", "{", "}", and the     *)
(* identifier characters IdChars.  The key prefix "include:" is the two    *)
(* characters "i:".  Every value is a text (the code formats non-strings   *)
(* with %s before it inserts them).                                        *)
(***************************************************************************)
EXTENDS Naturals, Sequences, SequencesExt

CONSTANTS
  IdChars,        \* _BetterTemplate.idpattern: [a-z0-9:_/\.\-\/]+
  MaxIterations,  \* Template.MAX_ITERATIONS
  NoParent,       \* an Environ made with parent=None
  EnvDict,        \* Environ._dict of each environment: a function on keys
  EnvGetters,     \* the keys an environment has a _get_KEY method for
  EnvParent,      \* Environ._parent of each environment
  GetterDeps,     \* _get_KEY(my): the keys it reads from my, concatenated
  Files           \* each include directory: file name -> contents

IncludePrefix == <<"i", ":">>

\* The outcome of a lookup, a substitution or a format
Ok(v) == [kind |-> "ok", val |-> v]
KeyErr(k) == [kind |-> "KeyError", val |-> k]
ValueErr == [kind |-> "ValueError", val |-> <<>>]

\* a (a success) followed by b: the first error raised wins
Then(a, b) ==
  IF a.kind # "ok" THEN a ELSE IF b.kind # "ok" THEN b ELSE Ok(a.val \o b.val)

(***************************************************************************)
(* The environments.  'my' is what a lookup is relative to: the Environ    *)
(* the lookup started at, or the IncluderDict that Template.format wraps   *)
(* around it (inc = TRUE), which answers include: keys from its include  *)
(* directory (path) before anything else.                                  *)
(***************************************************************************)
\* (mutant: the file name sliced one character too late)
IncludeGetItemSkipOne(key, path) ==
  LET name == SubSeq(key, Len(IncludePrefix) + 2, Len(key)) IN
  IF IsPrefix(IncludePrefix, key) /\ name \in DOMAIN Files[path]
  THEN Ok(Files[path][name]) ELSE KeyErr(key)

\* IncluderDict._getitem: relative names searched in the include path
IncludeGetItem(key, path) ==
  LET name == SubSeq(key, Len(IncludePrefix) + 1, Len(key)) IN
  IF IsPrefix(IncludePrefix, key) /\ name \in DOMAIN Files[path]
  THEN Ok(Files[path][name]) ELSE KeyErr(key)

RECURSIVE Lookup(_, _, _), MyGet(_, _), GetterValue(_, _, _)

\* Environ._getitem: the environment's own dictionary, then its getter; a
\* KeyError inside the getter becomes KeyError(key)
EnvGetItem(e, key, my) ==
  IF key \in DOMAIN EnvDict[e] THEN Ok(EnvDict[e][key])
  ELSE IF key \in EnvGetters[e]
       THEN LET rv == GetterValue(e, key, my) IN
            IF rv.kind = "ok" THEN rv ELSE KeyErr(key)
       ELSE KeyErr(key)

\* _DictWrapper.lookup: _getitem, and on a KeyError the parent, told 'my'
Lookup(e, key, my) ==
  LET own == EnvGetItem(e, key, my) IN
  IF own.kind = "ok" THEN own
  ELSE IF EnvParent[e] = NoParent THEN KeyErr(key)
  ELSE LET up == Lookup(EnvParent[e], key, my) IN
       IF up.kind = "ok" THEN up ELSE KeyErr(key)

\* my[key]: __getitem__ is lookup(key, self); for the IncluderDict, its
\* _getitem and then its parent, the values Environ
MyGet(my, key) ==
  IF ~my.inc THEN Lookup(my.env, key, my)
  ELSE LET inc == IncludeGetItem(key, my.path) IN
       IF inc.kind = "ok" THEN inc
       ELSE LET up == Lookup(my.env, key, my) IN
            IF up.kind = "ok" THEN up ELSE KeyErr(key)

\* A getter such as TorEnviron._get_nick: the values it reads from my,
\* joined; the first KeyError escapes
GetterValue(e, key, my) ==
  LET deps == GetterDeps[key]
      RECURSIVE Join(_)
      Join(j) == IF j > Len(deps) THEN Ok(<<>>)
                 ELSE Then(MyGet(my, deps[j]), Join(j + 1))
  IN Join(1)

(***************************************************************************)
(* string.Template.substitute with _BetterTemplate's pattern               *)
(*   \$(?:(?P<escaped>\$)|(?P<named>id)|{(?P<braced>id)}|(?P<invalid>))    *)
(* scanned left to right; a named or braced key is looked up in the        *)
(* mapping (a KeyError escapes), an invalid "$" raises ValueError.         *)
(***************************************************************************)
RECURSIVE IdLen(_)
IdLen(s) == IF s # <<>> /\ Head(s) \in IdChars THEN 1 + IdLen(Tail(s)) ELSE 0

From(s, k) == SubSeq(s, k, Len(s))

\* The placeholder at the start of s, which begins with "$", and the rest
RECURSIVE Substitute(_, _)
Placeholder(s, my) ==
  LET r == Tail(s)
      n == IdLen(r)
      b == IdLen(From(r, 2))
  IN CASE r # <<>> /\ Head(r) = "$" ->
            Then(Ok(<<"$">>), Substitute(Tail(r), my))
       [] n > 0 ->
            Then(MyGet(my, SubSeq(r, 1, n)), Substitute(From(r, n + 1), my))
       [] r # <<>> /\ Head(r) = "{" /\ b > 0 /\ Len(r) >= b + 2
            /\ r[b + 2] = "}" ->
            Then(MyGet(my, SubSeq(r, 2, b + 1)), Substitute(From(r, b + 3), my))
       [] OTHER -> ValueErr

\* re.sub over the whole text: the text up to the next "$" is copied
Substitute(s, my) ==
  LET dollars == {j \in DOMAIN s : s[j] = "$"}
      k == CHOOSE j \in dollars : \A l \in dollars : j <= l
  IN IF dollars = {} THEN Ok(s)
     ELSE Then(Ok(SubSeq(s, 1, k - 1)), Placeholder(From(s, k), my))

(***************************************************************************)
(* Template(pat, includePath).format(values): wrap values in an           *)
(* IncluderDict over includePath, substitute                               *)
(* until the text stops changing, and give up with ValueError once         *)
(* nIterations exceeds MAX_ITERATIONS.                                     *)
(***************************************************************************)
RECURSIVE Iterate(_, _, _)
Iterate(orig, nIterations, my) ==
  LET v == Substitute(orig, my) IN
  IF v.kind # "ok" \/ v.val = orig THEN v
  ELSE IF nIterations + 1 > MaxIterations THEN ValueErr
  ELSE Iterate(v.val, nIterations + 1, my)

Includer(values, includePath) ==
  [env |-> values, inc |-> TRUE, path |-> includePath]

Format(pat, includePath, values) == Iterate(pat, 0, Includer(values, includePath))

\* LocalNodeBuilder._getTorrcTemplate: "$${include:$torrc}"
TorrcTemplate == <<"$", "$", "{", "i", ":", "$", "t", "}">>

=============================================================================

--------------------------- MODULE MCSharedPlugin ---------------------------
(* Services for TLC: s1 and s3 are made from template t1, where b depends  *)
(* on a; s2 from t2, where c and a are independent and b depends on both.  *)
EXTENDS SharedPlugin, TLC

CONSTANTS s1, s2, s3, t1, t2, a, b, c, p, q

ServiceTemplate == [s \in Service |-> IF s = s2 THEN t2 ELSE t1]
TemplateVdus == (t1 :> {a, b}) @@ (t2 :> {a, b, c})
TemplateDeps ==
  (t1 :> ((a :> {}) @@ (b :> {a}))) @@ (t2 :> ((a :> {}) @@ (b :> {a, c}) @@ (c :> {})))
Tenants == [s \in Service |-> IF s = s3 THEN q ELSE p]
=============================================================================

------------------------------ MODULE Validation ------------------------------
(***************************************************************************)
(* What the extension accepts, which it decides twice: the rules of        *)
(* utils/validation.ts and the validators of validators/.  A result is the *)
(* set of the severities of its errors.  A text is                         *)
(* [blank, padded, letters, length, reads]: "" or only spaces, spaces      *)
(* around it, what its characters allow, and what it can be parsed as.     *)
(***************************************************************************)
EXTENDS Integers, Sequences, FiniteSets

CONSTANT None

Errors(cond) == IF cond THEN {"error"} ELSE {}
Refused(result) == "error" \in result
hasCriticalErrors(result) == "error" \in result

-----------------------------------------------------------------------------
(* Texts: utils/validation.ts *)

Empty(t) == t.blank = "empty"

emailRule(t) == Errors(~Empty(t) /\ "email" \notin t.reads)
urlRule(t) == Errors(~Empty(t) /\ "url" \notin t.reads)
jsonRule(t) == Errors(~Empty(t) /\ "json" \notin t.reads)
\* A tab is what it looks for; it is told as a warning, in a result that is not valid.
yamlRule(t) == IF ~Empty(t) /\ "tab" \in t.reads THEN {"warning"} ELSE {}
lengthRule(t, min, max) == Errors((min # None /\ t.length < min) \/ (max # None /\ t.length > max))
patternRule(t, letters) == Errors(t.padded \/ t.blank # "no" \/ t.letters \notin letters)
k8sNameRule(t) ==
    IF Empty(t) THEN {} ELSE Errors(t.length > 63) \cup patternRule(t, {"dns"})
k8sLabelRule(t) ==
    IF Empty(t) THEN {} ELSE Errors(t.length > 63) \cup patternRule(t, {"dns", "label"})

-----------------------------------------------------------------------------
(* Texts: validators/ *)

Blank(t) == t.blank # "no"

validateLength(t, min, max) == IF Empty(t) THEN {} ELSE lengthRule(t, min, max)
validatePattern(t, letters) == IF Empty(t) THEN {} ELSE patternRule(t, letters)
validateEmail(t) == Errors(~Empty(t) /\ "email" \notin t.reads)
validateUrl(t) == Errors(~Empty(t) /\ ("url" \notin t.reads \/ "http" \notin t.reads))
validateJson(t) == Errors(~Blank(t) /\ "json" \notin t.reads)
validateYaml(t) == Errors(~Blank(t) /\ "yaml" \notin t.reads)

\* Mutant: a release name may be as long as that of a namespace.
validateReleaseNameLong(t) ==
    Errors(Blank(t)) \cup (IF Blank(t) THEN {} ELSE Errors(t.length > 64 \/ t.letters # "dns"))
\* Names are trimmed first; the trimmed one is not what is kept.
validateReleaseName(t) ==
    IF Blank(t) THEN {"error"} ELSE Errors(t.length > 53 \/ t.letters # "dns")
validateNamespace(t) ==
    IF Blank(t) THEN {"error"} ELSE Errors(t.length > 63 \/ t.letters # "dns" \/ "reserved" \in t.reads)

\* Anything but a scalar will do for Helm's values, a list too.
validateHelmValues(t) == Errors(~Blank(t) /\ ("yaml" \notin t.reads \/ "scalar" \in t.reads))

-----------------------------------------------------------------------------
(* Any value, by its kind *)

requiredRule(kind) == Errors(kind \in {"null", "empty", "list of none", "object of none"})
validateRequired(kind) == Errors(kind \in {"null", "empty", "spaces", "list of none"})

\* With clusters = None it throws: the duplicates are counted all the same.
validateClusterSelection(clusters) ==
    Errors(clusters = None \/ clusters = <<>> \/
           Cardinality({clusters[n] : n \in DOMAIN clusters}) # Len(clusters))

\* A number, or a text that reads as one; a text that does not is not of its concern.
rangeRule(number, min, max) ==
    Errors(number # None /\ ((min # None /\ number < min) \/ (max # None /\ number > max)))

validateNodeSelector(pairs) ==
    UNION {Errors(p.key = "bad" \/ p.value = "bad") \cup (IF p.key = "master" THEN {"warning"} ELSE {}) : p \in pairs}
validateTolerations(list) ==
    UNION {Errors(t.key = None \/ t.effect = "bad" \/ t.operator = "bad") : t \in list}

-----------------------------------------------------------------------------
(* Quantities: [digits, amount, unit, padded]; digits is how the number is   *)
(* written, "n", "n.n", ".n" or "bad", and the amount is in tenths           *)

Units == {"", "m", "Ki", "K", "Mi", "M", "Gi", "G", "Ti", "T", "Pi", "P", "Ei", "E"}
resourceQuantityRule(q) == Errors(q.padded \/ q.digits \notin {"n", "n.n"} \/ q.unit \notin Units)

\* The least number of a unit that is 64Mi, and the greatest that is 512Gi: in bytes, as
\* the code compares them, they would not fit TLC's integers, nor does the greatest
\* without a unit.
Usual == [Ki |-> <<65536, 536870912>>, Mi |-> <<64, 524288>>, Gi |-> <<1, 512>>, Ti |-> <<1, 0>>,
          K |-> <<67109, 549755813>>, M |-> <<68, 549755>>, G |-> <<1, 549>>, T |-> <<1, 0>>]
Unusual(q) ==
    LET n == q.amount \div 10
    IN  IF q.unit \in DOMAIN Usual THEN n < Usual[q.unit][1] \/ n > Usual[q.unit][2] ELSE n < 67108864

ManyCores(q) == q.amount > (IF q.unit = "" THEN 1280 ELSE 1280000)

validateResourceQuantity(q, resourceType) ==
    IF resourceType = "cpu"
    THEN IF ~(q.unit = "m" /\ q.digits = "n") /\ ~(q.unit = "" /\ q.digits # "bad") THEN {"error"}
         ELSE Errors(q.amount <= 0) \cup (IF ManyCores(q) THEN {"warning"} ELSE {})
    ELSE IF q.digits # "n" \/ q.unit \notin Units \ {"m", "Pi", "P", "Ei", "E"} THEN {"error"}
         ELSE Errors(q.amount <= 0)
                \cup (IF resourceType = "memory" /\ Unusual(q) THEN {"warning"} ELSE {})

-----------------------------------------------------------------------------
(* Forms.  field = [required, type, shown, rule], where rule is None or what *)
(* it does with the value: "accepts", "refuses" or "throws"; whole is what   *)
(* a rule of the form does with all values, or None                          *)

RuleOf(rule) == Errors(rule \in {"refuses", "throws"})
TypeRule(type, t) ==
    CASE type = "email" -> emailRule(t) [] type = "url" -> urlRule(t)
      [] type = "json" -> jsonRule(t)   [] type = "yaml" -> yamlRule(t) [] OTHER -> {}
KindOf(t) == IF t.blank = "empty" THEN "empty" ELSE IF t.blank = "spaces" THEN "spaces" ELSE "text"

\* A rule of the form is asked whether or not the field is shown.
validateForm(field, t, whole) ==
    (IF ~field.shown THEN {}
     ELSE (IF field.required THEN requiredRule(KindOf(t)) ELSE {}) \cup RuleOf(field.rule)) \cup RuleOf(whole)
validateField(field, t) ==
    IF ~field.required /\ Empty(t) THEN {}
    ELSE (IF field.required THEN requiredRule(KindOf(t)) ELSE {}) \cup TypeRule(field.type, t) \cup RuleOf(field.rule)

getDefaultRulesForFieldType(type, t) ==
    IF type \in {"cluster", "namespace"} THEN k8sNameRule(t) ELSE TypeRule(type, t)

-----------------------------------------------------------------------------
(* Chart values: a value is [type, size, reads, inside], of which size is a  *)
(* number or a length, reads that it is a text which reads as a number, and  *)
(* inside what an object or an array has; texts of one length are one.  A    *)
(* schema is [required, type, enum, range, length, pattern, items, members,  *)
(* needed]: range and length have a least and a greatest, None for no limit, *)
(* enum and pattern the values they accept (None for all), items is the      *)
(* schema of what an array has, or None, and needed is empty without members *)

OutOf(limits, n) ==
    (limits.least # None /\ n < limits.least) \/ (limits.greatest # None /\ n > limits.greatest)
Besides(accepted, value) == accepted # None /\ <<value.type, value.size>> \notin accepted

\* below are the members of the value that are wrong.
Wrong(value, schema, below) ==
    IF schema.required /\ (value.type = "null" \/ (value.type = "string" /\ value.size = 0)) THEN TRUE
    ELSE IF value.type = "null" THEN FALSE
    ELSE IF schema.type \notin {None, value.type} /\ ~(schema.type = "number" /\ value.type = "string" /\ value.reads) THEN TRUE
    ELSE \/ Besides(schema.enum, value)
         \/ value.type = "string" /\ (OutOf(schema.length, value.size) \/ Besides(schema.pattern, value))
         \/ value.type = "number" /\ OutOf(schema.range, value.size)
         \/ below # {}
         \/ value.type = "object" /\ schema.needed \ DOMAIN value.inside # {}

\* What a value has inside, and what is wrong of it.
SchemaOf(value, schema, k) ==
    CASE value.type = "array" -> schema.items
      [] value.type = "object" /\ k \in DOMAIN schema.members -> schema.members[k]
      [] OTHER -> None
Inner(value, schema) ==
    {k \in DOMAIN value.inside : LET within == SchemaOf(value, schema, k)
                                 IN  within # None /\ Wrong(value.inside[k], within, {})}
\* Only the values there are looked at; what the schema does not know is a warning.
validateChartValues(values, schema) ==
    Errors(\E k \in DOMAIN values \cap DOMAIN schema : Wrong(values[k], schema[k], Inner(values[k], schema[k])))

-----------------------------------------------------------------------------
(* Laws *)

\* What the validators accept the rules accept too, but for a name with spaces around it and
\* values that are empty; a release name that is valid is a name Kubernetes takes for a
\* namespace unless it is reserved, and a label.
NamesNested(t) ==
    /\ ~Refused(validateReleaseName(t)) /\ ~t.padded => ~Refused(k8sNameRule(t)) /\ ~Refused(k8sLabelRule(t))
    /\ ~Refused(validateReleaseName(t)) =>
          t.length <= 53 /\ (Refused(validateNamespace(t)) <=> "reserved" \in t.reads)
    /\ ~Refused(k8sNameRule(t)) /\ Refused(validateNamespace(t)) => Empty(t) \/ "reserved" \in t.reads

\* Of one text the two rules of a name say the same, but that addresses other than http
\* are links for one only, that spaces are JSON for one only, and that YAML is for one a text
\* without tabs and for the other one that parses.
FormatsAgree(t) ==
    /\ validateEmail(t) = emailRule(t)
    /\ Refused(urlRule(t)) => Refused(validateUrl(t))
    /\ Refused(validateUrl(t)) /\ ~Refused(urlRule(t)) => "http" \notin t.reads
    /\ validateJson(t) # jsonRule(t) => t.blank = "spaces"
    /\ ~Refused(yamlRule(t)) /\ (validateYaml(t) # {} => "yaml" \notin t.reads)
    /\ \A min, max \in {None, 0, 60} : validateLength(t, min, max) # lengthRule(t, min, max) =>
          Empty(t) /\ min = 60
    /\ ~Refused(validateHelmValues(t)) => ~Refused(validateYaml(t))

\* One refuses a text of spaces and takes an object without members, the other does the reverse.
RequiredAgree(kind) ==
    validateRequired(kind) # requiredRule(kind) <=> kind \in {"spaces", "object of none"}

\* A quantity that is taken for processors, memory or storage is one by the rule too unless
\* it is written ".5" or has spaces around it; no quantity of nothing is taken, which the
\* rule does, nor one of both processors and memory unless it is a plain whole number.
QuantitiesNested(q) ==
    LET taken(type) == ~Refused(validateResourceQuantity(q, type))
    IN  /\ \A type \in {"cpu", "memory", "storage"} : taken(type) /\ Refused(resourceQuantityRule(q)) =>
              q.padded \/ q.digits = ".n"
        /\ taken("memory") <=> taken("storage")
        /\ q.amount = 0 => ~taken("cpu") /\ ~taken("memory")
        /\ taken("cpu") /\ taken("memory") => q.unit = "" /\ q.digits = "n"

\* A form and a single field come to the same but for what a form does not look at (the type
\* of a field, a field that is hidden), for the form's own rule, which a field does not look
\* at, and for a field's rule on an empty value; what is invalid has an error unless it is
\* a tab; and a name's own rule is not among those of its type.
FormsAgree(field, t, whole) ==
    LET form == validateForm(field, t, whole)
        one == validateField(field, t)
    IN  /\ form # {} /\ one = {} => (~field.required /\ Empty(t)) \/ whole \in {"refuses", "throws"}
        /\ form = {} /\ one # {} => ~field.shown \/ TypeRule(field.type, t) # {}
        /\ one # {} /\ ~hasCriticalErrors(one) => field.type = "yaml" /\ "tab" \in t.reads
        /\ getDefaultRulesForFieldType(field.type, t) # TypeRule(field.type, t) =>
              field.type \in {"cluster", "namespace"} /\ Refused(k8sNameRule(t))

\* A root value left out makes valid values never invalid, even one that is required, and
\* one below the root only if its parent needs it.  A number given as a text is accepted
\* whatever its range, if nothing is said of the text; an enum of numbers refuses it.
LeftOut(values, schema, key) ==
    LET without == [k \in DOMAIN values \ {key} |-> values[k]]
    IN  /\ validateChartValues(values, schema) = {} => validateChartValues(without, schema) = {}
        /\ key \in DOMAIN values \cap DOMAIN schema /\ values[key].type = "number" /\ schema[key].type = "number" =>
              LET asText == [values EXCEPT ![key] = [type |-> "string", size |-> 1, reads |-> TRUE, inside |-> <<>>]]
                  said == schema[key]
              IN  /\ said.enum = None /\ said.pattern = None /\ ~OutOf(said.length, 1) =>
                        validateChartValues(asText, schema) = validateChartValues(without, schema)
                  /\ said.enum # None /\ (\A e \in said.enum : e[1] = "number") => Refused(validateChartValues(asText, schema))
        /\ key \in DOMAIN values /\ values[key].type = "object" /\ validateChartValues(values, schema) = {} =>
              \A k \in DOMAIN values[key].inside :
                  validateChartValues([values EXCEPT ![key].inside = [m \in DOMAIN @ \ {k} |-> @[m]]], schema) # {} =>
                      key \in DOMAIN schema /\ k \in schema[key].needed

\* A toleration without a key is refused though its operator needs none, and a warning alone
\* does not refuse a node selector.
SchedulingFits(pairs, tolerations) ==
    /\ (\E t \in tolerations : t.key = None) => Refused(validateTolerations(tolerations))
    /\ Refused(validateNodeSelector(pairs)) <=> \E p \in pairs : Refused(validateNodeSelector({p}))
    /\ validateNodeSelector(pairs) = {"warning"} => \E p \in pairs : p.key = "master"
===============================================================================

--------------------------- MODULE MCCheckpoints ---------------------------
(***************************************************************************)
(* A model of two bodies: base makes both, base2 is an edit of base,       *)
(* sketch carries curves projected from the bodies of base, and cut        *)
(* modifies the second body, to a depth that is the parameter.             *)
(***************************************************************************)
EXTENDS Checkpoints

MCFeature == {"base", "base2", "sketch", "cut"}
MCTouches == [f \in MCFeature |-> CASE f = "cut" -> {"body2"}
                                    [] f = "sketch" -> {}
                                    [] OTHER -> {"body1", "body2"}]
MCCurves == [f \in {"sketch"} |-> << <<"base", None>> >>]

MCBuilt[c \in Seq(MCFeature \X {None, 1, 2})] ==
    IF c = <<>> THEN <<>> ELSE Apply(MCBuilt[Front(c)], c[Len(c)])

Doc(feats, param) == [feats |-> feats, param |-> param]

MCDocument == {Doc(<<"base", "sketch", "cut">>, 1),
               Doc(<<"base", "sketch", "cut">>, 2),
               Doc(<<"base2", "sketch", "cut">>, 1)}

(* The blob every document of the first base shares.                       *)
MCFragile == {BlobKey(<< <<"base", None>> >>, "body1")}
=============================================================================

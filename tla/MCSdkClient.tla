---------------------------- MODULE MCSdkClient ----------------------------
(* The instance of SdkClient for TLC. *)
EXTENDS SdkClient

TopLevel == {"JobsetV1alpha2JobSet", "JobsetV1alpha2JobSetList"}
OnePerException == {302, 400, 401, 403, 404, 409, 422, 503}

=============================================================================

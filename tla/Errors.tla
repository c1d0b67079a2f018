------------------------------- MODULE Errors -------------------------------
(***************************************************************************)
(* How the errors of the libraries become what a caller of ferry sees: the *)
(* exit code, whether a repetition may help, the object a failure is about *)
(* and the finding of a check.  An error is named by its failure code.     *)
(***************************************************************************)
EXTENDS Naturals

ConfigErrors ==
    {"config_read_failed", "config_parse_failed", "config_profile_missing",
     "config_repository_url_invalid", "config_log_level_invalid", "config_progress_invalid"}

PolicyErrors ==
    {"retention_policy_empty", "retention_policy_rule_unknown",
     "retention_policy_value_missing", "retention_policy_rule_duplicated",
     "retention_policy_count_invalid", "retention_policy_tag_invalid"}

RepositoryErrors ==
    {"repository_url_missing", "repository_password_missing",
     "repository_new_password_missing", "repository_password_file_read_failed",
     "repository_new_password_file_read_failed", "repository_file_url_invalid",
     "repository_s3_url_invalid", "repository_s3_environment_missing",
     "repository_s3_config_invalid"}

(* A restore refused for what it was asked, or for what is in its way. *)
RequestErrors ==
    {"source_root_not_absolute", "check_data_subset_invalid", "restore_request_invalid",
     "restore_destination_not_absolute", "restore_destination_escapes_root",
     "restore_destination_symlink", "restore_destination_exists",
     "restore_destination_kind_mismatch"}

(* Objects that are wrong, or lacking although other objects name them. *)
MissingErrors == {"repository_check_missing_object", "repository_referenced_object_missing"}

ObjectErrors ==
    {"repository_object_decode_failed", "repository_object_authentication_failed",
     "repository_metadata_decode_failed", "repository_metadata_identity_mismatch",
     "snapshot_manifest_invalid", "repository_commit_decode_failed",
     "repository_commit_marker_invalid", "chunk_index_entry_missing",
     "chunk_index_mismatch", "chunk_length_invalid", "chunk_decompression_failed",
     "chunk_identity_mismatch"}

ForgetMarkerErrors ==
    {"repository_forget_marker_decode_failed", "repository_forget_marker_invalid"}

KeySlotErrors == {"repository_key_slot_decode_failed", "repository_key_slot_invalid"}

IntegrityErrors ==
    MissingErrors \cup ObjectErrors \cup ForgetMarkerErrors \cup KeySlotErrors \cup
    {"repository_bootstrap_decode_failed", "repository_bootstrap_invalid",
     "repository_authentication_failed", "chunk_range_invalid",
     "restore_verification_mismatch"}

SourceErrors ==
    {"source_root_read_failed", "directory_read_failed", "directory_entry_read_failed",
     "metadata_capture_failed", "file_read_failed"}

TransientStorageErrors ==
    {"storage_io_failed", "storage_object_io_failed", "storage_backend_object_failed",
     "storage_backend_failed", "storage_timeout"}

DestinationErrors == {"restore_destination_write_failed", "restore_verification_read_failed"}

(* CliError::exit_code, RepositoryError::exit_code, core_exit_code, storage_exit_code *)
ExitCode(error) ==
    CASE error \in ConfigErrors \cup PolicyErrors \cup RepositoryErrors \cup RequestErrors -> 2
      [] error \in {"repository_not_initialized", "repository_format_unsupported",
                    "repository_features_unsupported", "storage_object_not_found"} -> 3
      [] error = "repository_unlock_failed" -> 4
      [] error \in SourceErrors \cup TransientStorageErrors \cup DestinationErrors \cup
                   {"chunk_compression_failed", "storage_object_already_exists"} -> 5
      [] error \in IntegrityErrors -> 6
      [] error \in {"snapshot_not_found", "forget_no_snapshots_matched",
                    "snapshot_path_not_found"} -> 7
      [] error \in {"repository_url_unsupported", "restore_feature_unsupported",
                    "storage_backend_config_failed"} -> 9
      [] OTHER -> 1

(* failure_retryable, storage_retryable *)
Retryable(error) == error \in SourceErrors \cup TransientStorageErrors \cup DestinationErrors

(* core_failure_object_key: the failure names the object it is about. *)
NamesObject(error) ==
    error \in MissingErrors \cup ObjectErrors \cup ForgetMarkerErrors \cup KeySlotErrors \cup
              {"storage_object_already_exists", "storage_object_not_found",
               "storage_object_io_failed", "storage_backend_object_failed"}

(* check_finding_for_core_error: a failed check reports a finding. *)
HasFinding(error) ==
    error \in MissingErrors \cup ObjectErrors \cup {"repository_authentication_failed"}
=============================================================================

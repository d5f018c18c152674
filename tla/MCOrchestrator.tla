-------------------------- MODULE MCOrchestrator --------------------------
(* Model-checking instance of Orchestrator: the four kinds startWorkers    *)
(* starts workers for, with its threadiness of 2.                          *)
EXTENDS Orchestrator, TLC

MCKinds == {"ReportDataSource", "ReportGenerationQuery", "Report",
            "ScheduledReport"}
=============================================================================

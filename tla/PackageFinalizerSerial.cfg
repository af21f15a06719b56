SPECIFICATION Spec
CONSTANTS
    Threads = {t1}
    PreFiles = {main_sql}
    Prov = provenance_yml
    Review = review_md
    Man = manifest_json
    Cre = cre_shadow_report_json
    Inputs = {v1, v2}
    Reports = {r1, r2}
    None = None
    Absent = Absent
    Torn = Torn
    MaxBuilds = 2
    Faults = {"io", "crash"}
INVARIANTS TypeOK ReportsAgree BuildHeals SuccessOverIntactBody
PROPERTIES ImplementsReviewPackage
CHECK_DEADLOCK TRUE
